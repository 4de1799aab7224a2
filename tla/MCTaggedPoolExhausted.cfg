SPECIFICATION Spec
CONSTANTS
    t1 = t1
    t2 = t2
    Threads = {t1, t2}
    N = 3
    HalfMod = 4
    TagMod = 4
    MaxInUse = 4
INVARIANT NoFault
