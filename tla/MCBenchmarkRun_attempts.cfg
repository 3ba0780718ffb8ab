SPECIFICATION FairSpec
CONSTANTS
    A = A
    B = B
    None = None
    Configs <- MCConfigs
    Tasks <- MCTasks
    Plan <- MCPlan
    Comparing = {A}
    Interval = 2
    Workers = 2
    MaxAttempts = 3
INVARIANTS
    CheckpointOrder
    RowsMatchInstances
    LossBounded
    StoppedIsDrained
    CompletedConsistent
    ServesOwnUnlessTorn
PROPERTIES
    RowsKept
    AttemptsEnd
\* The number of attempts is bounded.
CHECK_DEADLOCK FALSE
