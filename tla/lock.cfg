SPECIFICATION Spec
CONSTANTS
    Threads = {t1, t2, t3, t4}
    HeapValues = {0}
INVARIANTS
    LockInv
    MutualExclusion
    NoLostWakeup
    FreeLockAdmits
PROPERTIES
    SomeoneEnters
    Drains
    ImplementsReadersWriters
