CONSTANTS
    Pods = {p, q}
    NamespaceOf <- OneNamespace
    IPs = {x, y}
    ReservedIPs = {}
    Strategies <- AllPlain
    IPPoolOf <- PoolAnnotation
    NoPod = NoPod
    None = None
    MaxUID = 2
    MaxLag = 1
    MaxFaults = 1
    MaxRefreshes = 1
    MaxCrashes = 0
    MayComplete = FALSE
    RemovalAnyTime = FALSE
SPECIFICATION Spec
SYMMETRY Symmetry
INVARIANTS
    NoDuplicateAddress
    InstanceBacksPod
    OneInstancePerPod
CHECK_DEADLOCK FALSE
