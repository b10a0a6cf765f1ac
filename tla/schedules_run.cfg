SPECIFICATION FairSpec
CONSTANTS
    Org = "org"
    Workflows = {"w1"}
    Triggers <- OneTrigger
    None = None
    Toggles = {u1}
    u1 = u1
    Ticks = {t1}
    t1 = t1
    MaxChanges = 1
    MaxMishaps = 0
PROPERTIES
    ScheduledWorkflowsRun
