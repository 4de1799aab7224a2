SPECIFICATION MCSpec
CONSTANTS
    t1 = t1
    t2 = t2
    Logger = Logger
    s1 = s1
    s2 = s2
    s3 = s3
    NULL = NULL
    Threads = {t1, t2}
    Slots = {s1, s2, s3}
    Capacity = 2
    MaxCalls = 2
    p1 = p1
    p2 = p2
    c1 = c1
    c2 = c2
    Kinds = {"bounded", "locked", "study"}
    Producers = {p1, p2}
    Consumers = {c1, c2}
    Calls = 2
    Room = 1
INVARIANTS OneHolder CallOrderKept Accounted
PROPERTIES EventuallyWritten EveryCallReturns
CHECK_DEADLOCK FALSE
