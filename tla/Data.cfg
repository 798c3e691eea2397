SPECIFICATION Spec
CONSTANTS
    Literals <- literals
    Starts <- starts
    Protos <- protos
    Sizes <- sizes
    EXTSIZ = 2
    Exact = 3
    Defs <- protosOfData
    MaxObjects = 3
    MaxTypes = 2
    MaxWait = 2
    Defects = {}
INVARIANT OneSlot
INVARIANT FieldsRight
INVARIANT ConvertsAll
INVARIANT SortRight
PROPERTY MapsSpec
CHECK_DEADLOCK FALSE
