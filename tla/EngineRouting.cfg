SPECIFICATION FairSpec
CONSTANTS
    c1 = c1
    c2 = c2
    Call <- MCCall
    Workloads <- MCWorkloads
    Registered <- MCRegistered
    Council = TRUE
    Beginnings <- MCBeginnings
    MinSamples = 3
    BoostThreshold = 600
    MaxFaults = 1
INVARIANTS
    OrderOfEngines
    AttemptsExplainAnswer
    ScoresAreEarned
    HistoryIsGenuine
PROPERTIES
    EveryCallIsAnswered
CHECK_DEADLOCK FALSE
