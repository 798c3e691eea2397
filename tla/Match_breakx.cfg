SPECIFICATION Spec
CONSTANTS
  Compiled <- Nodes
  Problems <- BreakxProblems
  Value <- MCValue
  After <- MCAfter
  Calling = {"x", "e"}
  Failing = {"e"}
  NotInteger = 99
  MaxHistory = 40
INVARIANT Answers
CHECK_DEADLOCK FALSE
