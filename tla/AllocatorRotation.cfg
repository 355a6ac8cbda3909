CONSTANTS
    NoPod = NoPod
    NetworkNames = {"net"}
    SubnetNames = {"large", "small"}
    Pods = {"p"}
    Addresses = {2, 3, 4, 5, 6, 10}
    DualStackEnabled = FALSE
    NetworkSpecs <- MCNetworkSpecs
    SubnetLists <- MCSubnetLists
    IPSets <- MCIPSets
    WatchedNetwork = "net"
    WatchedSubnet = "large"
SPECIFICATION RotationSpec
INVARIANTS
    NoAddressPassedOver
