CONSTANTS
    Work <- MCWork
    Offered <- MCOffered
    NThreads = 3
    MaxBatch = 2
SPECIFICATION CheckerSpec
CHECK_DEADLOCK FALSE
INVARIANTS
    WaitMeansDone
    IdleCounts
    NoLateWork
PROPERTIES
    WaitReturns
    DestroyReturns
