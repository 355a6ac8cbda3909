SPECIFICATION FairSpec
CONSTANTS
    Width = 5
    Networks = {"overlay", "vlan", "bgp"}
    Subnets = {"o2", "v1", "b1"}
    RemoteSubnets = {"r1"}
    Mode <- MCMode
    Spec0s <- MCSpec0s
    Remote0 <- MCRemote0
    Relabelled = {"vlan"}
    Permanent = {"v1", "b1"}
    Labels0 <- MCLabels0
    Specs <- MCSpecs
    RemoteSpecs <- MCRemoteSpecs
    VlanIf <- MCVlanIf
    Peer = 30
    LocalPods = {9, 17}
    Destinations <- MCDestinations
    ForeignRules = {2}
    TableCount = 5
    MaxRulePriority = 12
    None = None
    MaxEdits = 1
    MaxRelabels = 1
    MaxFaults = 1
    MaxFlaps = 1
INVARIANTS LookupAsSpecified  RuleOrder  ExcludeBlocksExact
PROPERTIES Converges
CHECK_DEADLOCK FALSE
