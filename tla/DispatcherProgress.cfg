\* One of two workers hangs behind its full channel: nobody else waits for it.
CONSTANTS
    None = None
    s1 = s1
    s2 = s2
    r1 = r1
    r2 = r2
    r3 = r3
    r4 = r4
    r5 = r5
    NumWorkers = 2
    MaxQueueDepth = 1
    MaxTraces = 1
    Submitters <- OneSubmitter
    Requests <- FiveRequests
    Healthy <- OnlyLastWorker
SPECIFICATION FairSpec
CHECK_DEADLOCK FALSE
PROPERTY SpawnReturns
PROPERTY ClosingEnds
PROPERTY HealthyProgress
PROPERTY DropReturns
