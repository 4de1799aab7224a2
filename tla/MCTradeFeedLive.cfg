SPECIFICATION Spec
CONSTANTS
    s1 = s1
    s2 = s2
    s3 = s3
    NULL = NULL
    FRAG = FRAG
    StoreSize = 3
    Slots = {s1, s2, s3}
    RecvCap = 2
    SendCap = 2
    FaultKinds = {}
    PastOverrun = FALSE
PROPERTY CatchesUp
CHECK_DEADLOCK FALSE
