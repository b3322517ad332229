\* A recovery beside a running edit: is the edit still recoverable?
CONSTANTS
    None = None
    w1 = w1
    w2 = w2
    a = a
    b = b
    c = c
    Workers <- TwoWorkers
    Contents <- TwoContents
    MaxGen = 3
    MaxAdversity = 2
SPECIFICATION Spec
VIEW View
CHECK_DEADLOCK FALSE
INVARIANT SourceRecoverable
