SPECIFICATION Spec
CONSTANTS
    Nodes <- MCNodes
    Numbers <- MCNumbers
    Texts <- MCTexts
    Payload <- MCPayload
    Reads <- MCReads
    Deleters = {d1, d2}
    d1 = d1
    d2 = d2
    Statuses <- MCStatuses
    MaxAttempts = 3
    MaxMishaps = 1
INVARIANTS
    TypeOK
    RepeatsHaveCause
    SecretsGoverned
    MappedValuesArrive
\* The action comes to an end, and nothing is left to do.
CHECK_DEADLOCK FALSE
