SPECIFICATION MCSpec
CONSTANTS
    t1 = t1
    t2 = t2
    Threads = {t1, t2}
    N = 3
    HalfMod = 4
    TagMod = 4
    MaxInUse = 3
    a = a
    d = d
    Kinds = {"locked", "stack", "ring"}
    Allocators = {a}
    Deallocators = {d}
    Messages = {0, 1, 2}
INVARIANTS FreeListIntact EachMessageOnce
PROPERTY ImplementsMessagePool
