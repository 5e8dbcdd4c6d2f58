SPECIFICATION Spec
CONSTANTS
  Receipts <- MCReceipts
  Records <- MCRecords
  MaxHeld = 2
  MaxDepth = 2
  MaxNames = 3
  MaxLetters = 1
  Precision = 4
  LeastExponent <- MCLeastExponent
  GreatestExponent = 3
  MaxExponentDigits = 1
  Places = 4
  Tokens <- MCTokens
INVARIANTS
  TypeOK
  VerdictIsOfOneInstant
  ResultFollowsTheFormat
  ScannersFollowTheParser
  NumbersAreSound
CHECK_DEADLOCK FALSE
