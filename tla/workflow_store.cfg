SPECIFICATION Spec
CONSTANTS
    Workflows = {w1, w2}
    w1 = w1
    w2 = w2
    Handlers = {h1, h2, h3}
    h1 = h1
    h2 = h2
    h3 = h3
    Graphs <- SomeGraphs
    Twice <- DoubledGraphs
    None = None
    MaxMishaps = 1
SYMMETRY Symmetry
INVARIANTS
    TypeOK
    ProjectionAgrees
PROPERTIES
    SecretsKept
    VersionNamesGraph
\* Every request is made once: in the end nothing is left to do.
CHECK_DEADLOCK FALSE
