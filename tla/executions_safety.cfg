SPECIFICATION Spec
CONSTANTS
    Ids = {e1, e2}
    Workflows = {w1}
    Slots = {s1, s2}
    Nobody = Nobody
    MaxStalled = 1
    MaxMishaps = 2
    e1 = e1
    e2 = e2
    w1 = w1
    s1 = s1
    s2 = s2
SYMMETRY Symmetry
INVARIANTS
    TypeOK
    AtMostOnce
    ReportsOutcome
    DeadLettersSound
    AuditSound
    RetryingIsQueued
    LossesHaveCause
PROPERTIES
    ReportsStand
    LedgerSpec
\* Users may stop asking: a state where nothing is left to do is no fault.
CHECK_DEADLOCK FALSE
