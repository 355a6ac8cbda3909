SPECIFICATION FairSpec
CONSTANTS
    Items <- MCItems
    KindOf <- MCKindOf
    ModeOf <- MCModeOf
    NetworkOf <- MCNetworkOf
    Starts <- MCStarts
    NoSet = NoSet
    MaxChanges = 2
    MaxFaults = 1
INVARIANTS
    TypeOK
    Prompt
PROPERTIES
    FlowsKept
    Converges
CHECK_DEADLOCK FALSE
