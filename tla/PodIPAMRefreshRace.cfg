CONSTANTS
    Pods = {"p", "q"}
    NamespaceOf <- OtherNamespace
    IPs = {"x", "y"}
    ReservedIPs = {}
    Strategies <- AllPlain
    IPPoolOf <- PoolAnnotation
    NoPod = NoPod
    None = None
    MaxUID = 2
    MaxLag = 0
    MaxFaults = 0
    MaxRefreshes = 1
    MaxCrashes = 0
    MayComplete = TRUE
    RemovalAnyTime = FALSE
SPECIFICATION Spec
INVARIANT
    NoDuplicateAddress
CHECK_DEADLOCK FALSE
