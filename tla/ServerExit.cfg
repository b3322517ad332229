\* End of input with requests still queued.
CONSTANTS
    None = None
    s1 = s1
    Reader = s1
    NumLines = 3
    NumWorkers = 2
    MaxQueueDepth = 1
    MaxTraces = 1
    Submitters <- OneReader
    Requests <- Lines
    Healthy <- AllWorkers
SPECIFICATION ServerSpec
CHECK_DEADLOCK FALSE
INVARIANT QueuedWorkCompletes
