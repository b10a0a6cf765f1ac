SPECIFICATION FairSpec
CONSTANTS
    StoredGraphs <- DistinctKeys
    MaxAttempts = 3
INVARIANTS
    TypeOK
    SeesUpstream
    RetryPolicy
    StatusTellsSteps
PROPERTIES
    PipelineSpec
    Terminates
