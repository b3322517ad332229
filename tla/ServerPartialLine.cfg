\* The last line of stdin without a newline.
CONSTANTS
    None = None
    s1 = s1
    Reader = s1
    NumLines = 2
    NumWorkers = 1
    MaxQueueDepth = 1
    MaxTraces = 1
    Submitters <- OneReader
    Requests <- Lines
    Healthy <- AllWorkers
SPECIFICATION ServerSpec
CHECK_DEADLOCK FALSE
INVARIANT PartialLineHandled
