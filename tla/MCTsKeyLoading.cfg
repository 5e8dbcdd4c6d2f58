CONSTANTS
  Day = 2
  Skew = 1
  MCIds = {"k1", "k2", "k3"}
  MCBytes = {"p1", "p2", "p3"}
  Documents <- MCDocuments
  Builds = {"node", "browser"}
  Replacements <- MCReplacements
  MaxEdits = 1
SPECIFICATION LoadingSpec
INVARIANTS
  TypeOK
  KeysAreUnambiguous
  LoadsExactlyValidDocuments
  LoadsTheDocumentOfTheCall
  ReasonIsPythons
PROPERTIES Settles
CHECK_DEADLOCK FALSE
