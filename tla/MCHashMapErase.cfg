SPECIFICATION Spec
CONSTANTS
    a = a
    b = b
    NULL = NULL
    Kinds = {"open"}
    Keys = {0, 3, 7, 8}
    Values = {a, b}
    InitBuckets = 4
    NodesPool = 4
    MaxBuckets = 8

INVARIANT ErasedIsGone
