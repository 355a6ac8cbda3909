CONSTANTS
    Pods = {"p"}
    NamespaceOf <- OneNamespace
    IPs = {"x"}
    ReservedIPs = {}
    Strategies <- AllPlain
    IPPoolOf <- PoolAnnotation
    NoPod = NoPod
    None = None
    MaxUID = 3
    MaxLag = 0
    MaxFaults = 2
    MaxRefreshes = 0
    MaxCrashes = 1
    MayComplete = TRUE
    RemovalAnyTime = TRUE
SPECIFICATION FairSpec
PROPERTY
    Reclaimed
CHECK_DEADLOCK FALSE
