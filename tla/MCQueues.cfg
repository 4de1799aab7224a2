SPECIFICATION MCSpec
CONSTANTS
    m1 = m1
    m2 = m2
    m3 = m3
    NULL = NULL
    Msgs = {m1, m2, m3}
    Capacity = 2
    IndexMod = 8
    c1 = c1
    c2 = c2
    b1 = b1
    b2 = b2
    b3 = b3
    Kinds = {"implicit", "explicit"}
    Consumers = {c1, c2}
    Blocks = {b1, b2, b3}
    BlockSize = 2
    IndexSize = 2
    MaxBulk = 2
    MaxElements = 5
    FailingBulk = {"implicit"}
    MaxSpurious = 1
    l1 = l1
    l2 = l2
    l3 = l3
    n1 = n1
    n2 = n2
    ListThreads = {l1, l2, l3}
    Nodes = {n1, n2}
    SHOULD_BE_ON_FREELIST = 16
SYMMETRY Symmetry
INVARIANTS TypeOK NeverOverfull OverwrittenOnlyWhenFull NeverPastTail ReadsItsOwn BlocksOwnedOnce FreeListExact
PROPERTY ImplementsRingQueue
CHECK_DEADLOCK FALSE
