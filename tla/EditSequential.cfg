\* One worker thread: the crash-recovery contract of apply_edit.
CONSTANTS
    None = None
    w1 = w1
    w2 = w2
    a = a
    b = b
    c = c
    Workers <- OneWorker
    Contents <- ThreeContents
    MaxGen = 4
    MaxAdversity = 4
SPECIFICATION Spec
VIEW View
CHECK_DEADLOCK FALSE
INVARIANT SourceRecoverable
