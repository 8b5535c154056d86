CONSTANTS
    t1 = t1
    t2 = t2
    t3 = t3
    Threads <- ThreeThreads
    Interruptible <- NoThread
    Modes <- BothModes
    FaultSets <- Faultless
    MaxAttempts = 2
    MaxGeneration = 1
SPECIFICATION Spec
INVARIANTS NoLinkLeftBehind StateMatchesLink AttemptsAreExact
SYMMETRY Symm
CHECK_DEADLOCK FALSE
