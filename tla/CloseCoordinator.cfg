CONSTANTS
    t1 = t1
    t2 = t2
    t3 = t3
    e1 = e1
    e2 = e2
    Threads <- MCThreads
    Interruptible <- MCMain
    Errors <- MCErrors
    MaxGeneration = 3
SPECIFICATION FairSpec
INVARIANT CoordInv
PROPERTIES ImplementsCloseOnce WaitersReturn
CHECK_DEADLOCK FALSE
