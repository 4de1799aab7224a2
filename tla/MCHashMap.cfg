SPECIFICATION MCSpec
CONSTANTS
    a = a
    b = b
    NULL = NULL
    Kinds = {"chaining", "fixed", "open"}
    Keys = {0, 3, 7, 8}
    Values = {a, b}
    InitBuckets = 4
    NodesPool = 4
    MaxBuckets = 8
    Libraries = {"map", "table"}
    TableKeys = {0, 3, 8}
    EMPTY = EMPTY
    REUSABLE = REUSABLE
    HashThreads = {0, 2, 4}
    InitialSize = 2
    Leaving = {2}
    MaxExits = 1
SYMMETRY ValueSymmetry
INVARIANTS Accounting LiveKeysFound ExactUnlessReinserted FixedTableIsMapOfQueues OneThreadPerProducer ProbesEnd
