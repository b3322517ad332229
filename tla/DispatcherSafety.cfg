\* Two submitters, two workers, shutdown() and Drop racing spawn.
CONSTANTS
    None = None
    s1 = s1
    s2 = s2
    r1 = r1
    r2 = r2
    r3 = r3
    r4 = r4
    r5 = r5
    NumWorkers = 2
    MaxQueueDepth = 1
    MaxTraces = 2
    Submitters <- TwoSubmitters
    Requests <- FourRequests
    Healthy <- AllWorkers
SPECIFICATION Spec
SYMMETRY Symmetry
CHECK_DEADLOCK FALSE
INVARIANT OnePlace
INVARIANT EvenDistribution
INVARIANT InFlightCompletes
PROPERTY NoAcceptAfterClose
