SPECIFICATION Spec
CONSTANTS
  Languages = {"python", "node"}
  Definitions <- MCDefinitions
  Contents <- MCContents
  Mapped = {"note", "to", "cc"}
  MaxDeviations = 1
  MaxEdits = 2
INVARIANTS
  AcceptedIsSigned
  FactsRestOnTheSource
  ResultIsDerived
  CommittedSourceIsCited
CHECK_DEADLOCK FALSE
