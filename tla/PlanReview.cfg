SPECIFICATION FairSpec
CONSTANTS
    r1 = r1
    r2 = r2
    r3 = r3
    NoRequest = NoRequest
    Request <- MCRequest
    Workloads <- MCWorkloads
    Steps <- MCSteps
    MaxRetries = 1
    MaxCrashes = 1
INVARIANTS
    PlanHasItsTask
PROPERTIES
    DecisionsStick
    
    AnsweredTaskEnds
CHECK_DEADLOCK FALSE
