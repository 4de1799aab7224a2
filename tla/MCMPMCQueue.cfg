SPECIFICATION MCSpec
CONSTANTS
    t1 = t1
    t2 = t2
    t3 = t3
    m1 = m1
    m2 = m2
    NULL = NULL
    Threads = {t1, t2, t3}
    Msgs = {m1, m2}
    Capacity = 2
    MaxPos = 3
    p1 = p1
    k1 = k1
    Plain = {p1}
    TokenUsers = {k1}
    Quota = 2
    OffsetWidth = 4
    MaxBulk = 2
    MaxProducers = 2
    MaxElements = 2
    MaxGivenBack = 0
INVARIANTS TypeOK CellOwnership NeverOverrun NothingOverlooked
PROPERTIES FullIsFull EmptyIsEmpty ImplementsBoundedFIFO
