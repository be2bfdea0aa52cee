SPECIFICATION Spec
CONSTANTS
    Threads = {t1, t2, t3}
    PointerSize = 8
    MaxRequests = 7
    NULL = NULL
    Junk = Junk
SYMMETRY PoolSymmetry
INVARIANTS
  HandedToFreeThread
CHECK_DEADLOCK FALSE
