SPECIFICATION MCSpec
CONSTANTS
    o1 = o1
    o2 = o2
    NULL = NULL
    Kinds = {"hft", "pooled", "zerocopy"}
    OrderIds = {o1, o2}
    MaxPriceLevels = 4
    Quantities = {0, 1, 2}
    FallsShort = {2}
    PoolSize = 2
    MaxGhosts = 1
    s1 = s1
    s2 = s2
    s3 = s3
    w1 = w1
    w2 = w2
    b1 = b1
    b2 = b2
    NONE = NONE
    SharedPtrs = {s1, s2, s3}
    WeakPtrs = {w1, w2}
    ControlBlocks = {b1, b2}
    v1 = v1
    v2 = v2
    a1 = a1
    a2 = a2
    a3 = a3
    e1 = e1
    e2 = e2
    Vecs = {v1, v2}
    Allocations = {a1, a2, a3}
    Elements = {e1, e2}
    Sizes = {0, 2}
    MaxCapacity = 4
    n1 = n1
    n2 = n2
    Names = {n1, n2}
    Newest = 2
    MaxPosts = 4
    MaxFeed = 4
SYMMETRY Symmetry
INVARIANTS LevelsMatchOrders BestIsTop QuoteRests DeletedWithLastPointer ElementsAccounted FeedsAgree
CHECK_DEADLOCK FALSE
