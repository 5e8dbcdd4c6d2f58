CONSTANTS
  Day = 2
  Skew = 1
  HashOrder <- MCHashOrder
  Objects <- MCBrowserObjects
  StartNow = 3
  MaxNow = 4
  MaxListNodes = 9
SPECIFICATION Spec
PROPERTIES KeepsPromise
CHECK_DEADLOCK FALSE
