SPECIFICATION Spec
CONSTANTS
    s1 = s1
    s2 = s2
    s3 = s3
    Servers <- MCServers
    None = None
    Cut = Cut
    Width <- MCWidth
    Listings <- MCListings
    MaxFailures = 1
PROPERTIES
    CommandReturns
CHECK_DEADLOCK FALSE
