SPECIFICATION FairSpec
CONSTANTS
    Nodes = {"n0", "n1"}
    This = "n0"
    Pods = {"x"}
    Remotes = {"r1", "r2"}
    AddrsOf <- MCAddrsOf
    EndpointsOf <- MCEndpointsOf
    Dests = {"x", "y", "a1"}
    None = None
    MaxChanges = 2
INVARIANTS
    FramesReach
PROPERTIES
    WrongEntriesGo
    
CHECK_DEADLOCK FALSE
