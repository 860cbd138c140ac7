SPECIFICATION Spec
CONSTANTS
    s1 = s1
    s2 = s2
    s3 = s3
    a1 = a1
    a2 = a2
    a3 = a3
    None = None
    Mixture = Mixture
    Servers = {s1, s2, s3}
    Addresses = {a1, a2, a3}
    Address <- OwnAddress
    InitialChain <- ThreeServers
    Writes = {w1, w2, w3}
    Deletes = {w3}
    MaxClients = 2
    MaxFailures = 0
INVARIANTS
    AcksCovered
    AcksInv
PROPERTIES
    WriteSpreads
CHECK_DEADLOCK FALSE
