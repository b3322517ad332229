\* A recovered durable context beside newer commits.
CONSTANTS
    None = None
    w1 = w1
    w2 = w2
    a = a
    b = b
    c = c
    Workers <- TwoWorkers
    Contents <- TwoContents
    MaxGen = 3
    MaxAdversity = 2
SPECIFICATION FairSpec
VIEW View
CHECK_DEADLOCK FALSE
PROPERTY NewerAuthorityWins
