SPECIFICATION FairSpec
CONSTANTS
  f = f
  x = x
  l = l
  Names = {f, x}
  Strings = {x}
  Null = null
  Defs <- TwoDefs
  Labels = {l}
  Main = main
  Expr = expr
  End = end
  None = none
  NotCode = notcode
  StmtsPer = 1
  Limits <- TwoLimits
  Defects = {"inside", "undefined"}
  MaxFrames = 4
  Givens = {2}
PROPERTY Halts
CHECK_DEADLOCK FALSE
