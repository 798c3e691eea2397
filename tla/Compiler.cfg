SPECIFICATION Spec
CONSTANTS
    Arity <- arity
    Labels = {l1, l2}
    NoLabel = none
    Operators = {"ASGN", "SCAN", "OR", "EXPOP"}
    Functions = {"LT", "G"}
    PlusOps = {0, 1}
    OCASIZ = 13
    CODELT = 12
    MaxSize = 4
    Defects = {}
INVARIANT BrothersHang
INVARIANT WithinBlocks
INVARIANT TreeRight
INVARIANT CodeRight
INVARIANT LabelsRight
CHECK_DEADLOCK FALSE
