SPECIFICATION FairSpec
CONSTANTS
    Pods = {"p1"}
    IPs = {"i4", "i6"}
    Plans <- DualStack
    PodIPs <- AllIPs
    OverlayIf = None
    Manual = {}
    Sandboxes = {1, 2}
    LateGC = FALSE
    FaultPoints = {"neigh", "bgp"}
    None = None
    MaxPods = 1
    MaxFaults = 0
PROPERTY PodsStart
CHECK_DEADLOCK FALSE
