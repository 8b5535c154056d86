CONSTANTS
    out1 = out1
    rep = rep
    conn = conn
    Dispatchers = {out1}
    Workers = {w1}
    SdkThreads = {s1, s2}
    AppThreads = {a1}
    Capacity = 3
    FrameCapacity <- PolicyFrameCapacity
    Emits <- PolicyEmits
    StateValues = {v1, v2}
    Tasks = {}
    CallbackCloses = {}
    Bound = {}
SYMMETRY Symm
CHECK_DEADLOCK FALSE
SPECIFICATION Spec
INVARIANTS QueueBounds LossIsAnnounced PendingStateIsNewest
