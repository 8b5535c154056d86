CONSTANTS
    t1 = t1
    t2 = t2
    t3 = t3
    Threads <- TwoThreads
    Interruptible <- MainThread
    Modes <- BothModes
    FaultSets <- NoneOrAll
    MaxAttempts = 1
    MaxGeneration = 2
SPECIFICATION FairSpec
INVARIANTS HandleOutlivesConnect CloseIsComplete
PROPERTIES CallsReturn
CHECK_DEADLOCK FALSE
