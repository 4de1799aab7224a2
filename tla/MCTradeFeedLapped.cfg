SPECIFICATION Spec
CONSTANTS
    s1 = s1
    s2 = s2
    s3 = s3
    s4 = s4
    NULL = NULL
    FRAG = FRAG
    StoreSize = 3
    Slots = {s1, s2, s3, s4}
    RecvCap = 2
    SendCap = 4
    FaultKinds = {}
    PastOverrun = TRUE
INVARIANT InSequence
CHECK_DEADLOCK FALSE
