SPECIFICATION Spec
CONSTANTS
    c1 = c1
    c2 = c2
    Call <- MCCall
    Workloads <- MCHandOff
    Registered <- MCRegistered
    Council = FALSE
    Beginnings <- MCNoSamples
    MinSamples = 3
    BoostThreshold = 600
    MaxFaults = 0
INVARIANT HandOffPreservesHistory
CHECK_DEADLOCK FALSE
