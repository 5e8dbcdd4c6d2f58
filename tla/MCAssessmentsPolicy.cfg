SPECIFICATION Spec
CONSTANTS
  Languages = {"node"}
  Definitions <- MCDefinitions
  Contents <- MCContents
  Mapped = {"note", "to", "cc"}
  MaxDeviations = 0
  MaxEdits = 1
CHECK_DEADLOCK FALSE
INVARIANT CommittedPolicyIsApplied
