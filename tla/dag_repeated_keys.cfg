SPECIFICATION Spec
CONSTANTS
    StoredGraphs <- RepeatedKeys
    MaxAttempts = 3
INVARIANTS
    AcceptedIsDag
