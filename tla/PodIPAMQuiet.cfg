CONSTANTS
    Pods = {"p", "q"}
    NamespaceOf <- OtherNamespace
    IPs = {"x", "y", "r"}
    ReservedIPs = {"r"}
    Strategies <- StatefulQ
    IPPoolOf <- PoolAnnotation
    NoPod = NoPod
    None = None
    MaxUID = 2
    MaxLag = 0
    MaxFaults = 0
    MaxRefreshes = 0
    MaxCrashes = 0
    MayComplete = FALSE
    RemovalAnyTime = FALSE
SPECIFICATION FairSpec
INVARIANTS
    NoDuplicateAddress
    MemoryCoversPods
PROPERTIES
    RetainsAddress
    Converges
CHECK_DEADLOCK FALSE
