SPECIFICATION FairSpec
CONSTANTS
    Pods = {"p1"}
    IPs = {"i1", "i2"}
    Plans <- SingleStack
    PodIPs <- EachIP
    OverlayIf = None
    Manual = {}
    Sandboxes = {1, 2}
    LateGC = FALSE
    FaultPoints = {"neigh", "bgp"}
    None = None
    MaxPods = 2
    MaxFaults = 1
INVARIANTS RunningReachable   AnnouncesOwnPods
PROPERTY PodsStart
CHECK_DEADLOCK FALSE
