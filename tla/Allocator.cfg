CONSTANTS
    NoPod = NoPod
    NetworkNames = {"net"}
    SubnetNames <- MCSubnetNames
    Pods = {"p", "q"}
    Addresses = {2, 4, 5, 17}
    DualStackEnabled = TRUE
    NetworkSpecs <- MCNetworkSpecs
    SubnetLists <- MCSubnetLists
    IPSets <- MCIPSets
SPECIFICATION Spec
INVARIANTS
    TypeOK
    OnlyContainedIPsInUse
    AvailabilityExact
    SelectionFindsFreeIP
    PairSelectionFindsFreeIPs
    DualStackAllOrNothing
PROPERTIES
    
    NoSteal
