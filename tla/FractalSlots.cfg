SPECIFICATION Spec
CONSTANTS
    Node <- MCNode
    Parent <- MCParent
    Marked <- MCMarked
    Fallback <- MCFallback
    Suggested <- MCSuggested
    MaxDepth = 1
    MaxRetries = 1
    MaxRounds = 1
    MaxTotal = 20
    Permits = 1
    SkipGate2 = TRUE
PROPERTIES
    HardTimeoutMeansHang
CHECK_DEADLOCK FALSE
