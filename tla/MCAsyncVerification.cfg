CONSTANTS
  Day = 2
  Skew = 1
  HashOrder <- MCHashOrder
  Objects <- MCObjects
  StartNow = 3
  MaxNow = 4
  MaxListNodes = 9
SPECIFICATION Spec
INVARIANTS TypeOK
PROPERTIES KeepsPromise Settles
CHECK_DEADLOCK FALSE
