SPECIFICATION FairSpec
CONSTANTS
    Ids = {e1, e2}
    Workflows = {w1}
    Slots = {s1}
    Nobody = Nobody
    MaxStalled = 1
    MaxMishaps = 1
    e1 = e1
    e2 = e2
    w1 = w1
    s1 = s1
PROPERTIES
    JobsSettle
    AcceptedRuns
\* Users may stop asking: a state where nothing is left to do is no fault.
CHECK_DEADLOCK FALSE
