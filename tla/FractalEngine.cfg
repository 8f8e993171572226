SPECIFICATION FairSpec
CONSTANTS
    Node <- MCNode
    Parent <- MCParent
    Marked <- MCMarked
    Fallback <- MCFallback
    Suggested <- MCSuggested
    MaxDepth = 1
    MaxRetries = 1
    MaxRounds = 1
    MaxTotal = 20
    Permits = 2
    SkipGate2 = TRUE
INVARIANTS
    StructuredConcurrency
    
    
    VerdictMatchesRows
    ThrottleRespected
PROPERTIES
    NothingStartsLate
    TaskEnds
CHECK_DEADLOCK FALSE
