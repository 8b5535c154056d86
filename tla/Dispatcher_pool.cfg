CONSTANTS
    out1 = out1
    rep = rep
    conn = conn
    Dispatchers = {conn, rep}
    Workers = {w1, w2}
    SdkThreads = {s1, s2}
    AppThreads = {a1}
    Capacity = 1
    FrameCapacity <- PoolFrameCapacity
    Emits <- PoolEmits
    StateValues = {v1}
    Tasks = {k1, k2}
    CallbackCloses <- PoolCloses
    Bound = {}
CHECK_DEADLOCK FALSE
SPECIFICATION FairSpec
INVARIANTS SerialCallbacks NothingStranded TaskRunsOnce
PROPERTIES PoolQuietAfterClose TasksRun CloseReturns
