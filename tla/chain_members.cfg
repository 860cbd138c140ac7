SPECIFICATION Spec
CONSTANTS
    s1 = s1
    s2 = s2
    s3 = s3
    a1 = a1
    a2 = a2
    a3 = a3
    None = None
    Mixture = Mixture
    Servers = {s1, s2, s3}
    Addresses = {a1, a2, a3}
    Address <- OwnAddress
    InitialChain <- OneServer
    Writes = {}
    Deletes = {}
    MaxClients = 1
    MaxFailures = 2
PROPERTIES
    JoinCompletes
    ChainHeals
    RacedEnd
CHECK_DEADLOCK FALSE
