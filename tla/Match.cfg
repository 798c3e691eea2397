SPECIFICATION FairSpec
CONSTANTS
  Compiled <- Nodes
  Problems <- MCProblems
  Value <- MCValue
  After <- MCAfter
  Calling = {"x", "e"}
  Failing = {"e"}
  NotInteger = 99
  MaxHistory = 40
INVARIANT StackOwned
INVARIANT LinksOwned
INVARIANT HistoryUndoes
INVARIANT Answers
PROPERTY Terminates
CHECK_DEADLOCK FALSE
