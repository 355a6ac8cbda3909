SPECIFICATION FairSpec
CONSTANTS
    Names = {a, b}
    UUIDs = {u, l}
    LocalUUID = l
    LocalCluster = local
    Invalid = invalid
    None = none
    Capacity = 1
    MaxEdits = 3
    MaxLag = 1
    MaxFaults = 1
    MaxTicks = 1
    MaxRestarts = 1
    MaxEvents = 3
INVARIANTS TypeOK DaemonHoldsUUID RunningIsRegistered RunsOnce
 
CHECK_DEADLOCK FALSE
