CONSTANTS
  Day = 2
  Skew = 1
  HashOrder <- MCHashOrder
  Invocations <- MCScopedInvocations
  StartNow = 4
  MaxNow = 6
SPECIFICATION Spec
INVARIANT ScopedExportTakesNoEvidence
CHECK_DEADLOCK FALSE
