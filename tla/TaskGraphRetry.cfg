CONSTANTS
    N = 3
    MaxRetries = 2
    MaxExecutions = 2
    m1 = m1
    m2 = m2
    draft = draft
    NoModel = NoModel
    Model <- MCModel
    Key <- MCKey
    Decompositions <- MCDecompositions
SPECIFICATION Spec
PROPERTY RetryRunsFailedSubtasks
CHECK_DEADLOCK FALSE
