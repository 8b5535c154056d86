CONSTANTS
    t1 = t1
    t2 = t2
    t3 = t3
    Threads <- MainThread
    Interruptible <- MainThread
    Modes <- BothModes
    FaultSets <- Signal
    MaxAttempts = 1
    MaxGeneration = 1
SPECIFICATION FairSpec
PROPERTIES CloseReturns
CHECK_DEADLOCK FALSE
