CONSTANTS
    N = 3
    MaxRetries = 2
    MaxExecutions = 2
    m1 = m1
    m2 = m2
    draft = draft
    NoModel = NoModel
    Model <- MCModel
    Key <- MCKey
    Decompositions <- MCDecompositions
SPECIFICATION FairSpec
INVARIANTS
    DependencyOrder
    EndedSettled
    BlockedHasFailedDependency
    RetryBudget
    CostAccounting
    EventsTellOutcome
    
PROPERTIES
    ImplementsTaskEngine
    ExecutionEnds
CHECK_DEADLOCK FALSE
