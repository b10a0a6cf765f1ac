SPECIFICATION FairSpec
CONSTANTS
    Org = "org"
    Workflows = {"w1"}
    Triggers <- SomeTriggers
    None = None
    Toggles = {u1, u2}
    u1 = u1
    u2 = u2
    Ticks = {t1, t2}
    t1 = t1
    t2 = t2
    MaxChanges = 2
    MaxMishaps = 1
INVARIANTS
    TypeOK
PROPERTIES
    DriftHasCause
    Reconciled
