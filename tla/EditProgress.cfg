\* Two worker threads contending for the clock and the store, with crashes,
\* outside writes and failing I/O.
CONSTANTS
    None = None
    w1 = w1
    w2 = w2
    a = a
    b = b
    c = c
    Workers <- TwoWorkers
    Contents <- TwoContents
    MaxGen = 2
    MaxAdversity = 1
SPECIFICATION FairSpec
CHECK_DEADLOCK FALSE
INVARIANT NoLostUpdate
INVARIANT IrreconcilableOnlyForeign
INVARIANT DurableBeforeLive
PROPERTY OperationsEnd
