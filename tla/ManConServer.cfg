SPECIFICATION Spec
CONSTANTS
    Threads = {t1, t2, t3}
    PointerSize = 8
    MaxRequests = 5
    NULL = NULL
    Junk = Junk
SYMMETRY PoolSymmetry
INVARIANTS
    TypeOK
    CountsAddUp
    RepliesAsked
CHECK_DEADLOCK FALSE
