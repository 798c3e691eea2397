SPECIFICATION Spec
CONSTANTS
  f = f
  x = x
  l = l
  Names = {f, x}
  Strings = {x}
  Null = null
  Defs <- TwoDefs
  Labels = {l}
  Main = main
  Expr = expr
  End = end
  None = none
  NotCode = notcode
  StmtsPer = 2
  Limits <- ThreeLimits
  Defects = {}
  MaxFrames = 4
  Givens = {2}
INVARIANT TypeOK
INVARIANT LevelIsDepth
INVARIANT StackOwned
INVARIANT RegistersAgree
INVARIANT FailureExit
INVARIANT HandlerEntered
PROPERTY DynamicScoping
CHECK_DEADLOCK FALSE
