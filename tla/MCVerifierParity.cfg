CONSTANTS
  Day = 2
  Skew = 1
  MCBases <- MCEveryBase
  MCFaults <- MCEveryFault
  Inputs <- MCInputs
  Graphs <- MCGraphs
  CodePoints <- MCCodePoints
  IndexNames <- MCIndexNames
  MaxDepth = 3
  MaxNodes = 5
SPECIFICATION ParitySpec
INVARIANTS SameAcceptance PythonFollowsTheFormat TreesAreSound TextIsOfTheValue
CHECK_DEADLOCK FALSE
