SPECIFICATION Spec
CONSTANTS
    t1 = t1
    t2 = t2
    Kinds = {"stack"}
    Allocators = {t1, t2}
    Deallocators = {t1, t2}
    Messages = {0, 1, 2}
INVARIANT EachMessageOnce
