SPECIFICATION Spec
CONSTANTS
    Messages = {m1, m2}
    Workers = {w1, w2}
    NoWorker = NoWorker
    MaxAttempts = 2
    BatchSize = 2
    MaxFaults = 1
    MaxLosses = 1
INVARIANTS
    TypeOK
    RowsAreTrue
    RepeatsTakeFaults
PROPERTY SettlesUnderLock
CHECK_DEADLOCK FALSE
