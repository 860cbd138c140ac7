SPECIFICATION Spec
CONSTANTS
    Threads = {t1, t2}
    k1 = k1
    k2 = k2
    v1 = v1
    v2 = v2
    Keys = {k1, k2}
    NULL = NULL
    Freed = Freed
    Requests <- MCRequests
    Loaded <- MCLoaded
    MaxRequests = 2
INVARIANTS
    NoBrokenRead
    StatsExact
    LocksHeldInside
    ServerInv
PROPERTIES
    ReadsAnswered
    WritesGetThrough
    ImplementsAtomicStore
