CONSTANTS
  Day = 2
  Skew = 1
  HashOrder <- MCHashOrder
  Invocations <- MCInvocations
  StartNow = 4
  MaxNow = 5
SPECIFICATION FairSpec
INVARIANTS
  TypeOK
  Accounting
  VerifiedStaysVerified
  ExitStatusIsMerited
  LinkedDaysAreDisjoint
  CommitmentIsExact
PROPERTIES FirstLineWins Terminates
CHECK_DEADLOCK FALSE
