SPECIFICATION Safety
CONSTANTS
    s1 = s1
    s2 = s2
    s3 = s3
    a1 = a1
    a2 = a2
    a3 = a3
    None = None
    Mixture = Mixture
    Servers = {s1, s2, s3}
    Addresses = {a1, a2, a3}
    Address <- OwnAddress
    InitialChain <- NoChain
    Writes = {w1}
    Deletes = {}
    MaxClients = 1
    MaxFailures = 2
SYMMETRY AllAlike
INVARIANTS
    TypeOK
    ForwardUp
    TailReadSafe
    SettledLink
    SpreadInv
PROPERTIES
    ExitsHaveCause
CHECK_DEADLOCK FALSE
