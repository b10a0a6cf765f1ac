SPECIFICATION Spec
CONSTANTS
    Buckets <- AllBuckets
    Capacity <- Tokens
    Period <- Ticks
    Never = Never
    MaxClock = 2
    Requests = {r1, r2}
    r1 = r1
    r2 = r2
    Deliveries <- SomeDeliveries
    Organizations = {"o1"}
    Addresses <- OneEndpoint
    Keys = {"k1", "k2"}
    Bodies = {"b1", "b2"}
    Prefix <- SamePrefix
    None = None
    Second = 2
    MaxAge = 0
    MaxChanges = 1
INVARIANTS
    TypeOK
    RateKept
    JobsArePaidFor
    OnlyGenuine
    AnsweredTruly
CHECK_DEADLOCK FALSE
SYMMETRY RequestSymmetry
