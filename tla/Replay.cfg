CONSTANTS
    t1 = t1
    t2 = t2
    k1 = k1
    Threads = {t1, t2}
    Ranges <- TwoRanges
    Times = {0, 1}
    Children = {k1}
    MaxCallbacks = 2
    NativeFails = TRUE
SPECIFICATION FairSpec
INVARIANTS StoppedBeforeDestroyed SeekInsideRange HandleOutlivesUse
PROPERTIES CallsReturn
CHECK_DEADLOCK FALSE
