SPECIFICATION Spec
CONSTANTS
    s1 = s1
    s2 = s2
    s3 = s3
    a1 = a1
    a2 = a2
    a3 = a3
    None = None
    Mixture = Mixture
    Servers = {s1, s2, s3}
    Addresses = {a1, a2, a3}
    Address <- OwnAddress
    InitialChain <- TwoServers
    Writes = {w1, w2}
    Deletes = {}
    MaxClients = 2
    MaxFailures = 0
INVARIANT
    QuietReplicasAgree
CHECK_DEADLOCK FALSE
