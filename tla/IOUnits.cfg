SPECIFICATION FairSpec
CONSTANTS
  UNITI = u5
  UNITO = u6
  Units = {u5, u6, u7}
  Files = {f1, f2, f3, f4, f5}
  NULL = null
  Names = {n1}
  Sources = 3
  Rflag = FALSE
  Lflag = TRUE
  OptionErrors = FALSE
  EndInInclude = TRUE
  MallocFails = FALSE
INVARIANT TypeOK
INVARIANT NoDangling
INVARIANT NoSharing
INVARIANT NoLeak
INVARIANT UnreadWithinKept
INVARIANT IncludeStackInSync
PROPERTY ReadTerminates
PROPERTY ListsSpec
CHECK_DEADLOCK FALSE
