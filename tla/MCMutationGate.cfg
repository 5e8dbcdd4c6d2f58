SPECIFICATION Spec
CONSTANTS
  Content <- MCContent
  ProvenFor = "t2"
  Scores <- MCScores
INVARIANTS
  PassIsEarned
  CheckoutIsNeverInstrumented
PROPERTIES
  EndsCleanly
CHECK_DEADLOCK FALSE
