SPECIFICATION Spec
CONSTANTS
  Fns = {f1, f2}
  Pml = {f2}
  LibNames = {n1, n2}
  AbsNames = {n1, n2}
  Libs = {l1, l2}
  Addrs = {a1, a2, a3, a4}
  NULL = null
  UnloadsPml = TRUE
INVARIANT CallsNewest
INVARIANT OpenWhileUsed
INVARIANT OneFilePerName
SYMMETRY Symmetry
CHECK_DEADLOCK FALSE
