CONSTANTS
    t1 = t1
    t2 = t2
    o1 = o1
    o2 = o2
    c1 = c1
    c2 = c2
    Threads = {t1, t2}
    Connections = {c1, c2}
    OutputSet = {o1, o2}
    Users <- SharedOutput
    CallbackClosers = {o1}
    NativeFails = TRUE
SPECIFICATION Spec
INVARIANTS OutputsLeaveFirst HandlesOutliveUse RecordsAgree
SYMMETRY Symm
CHECK_DEADLOCK FALSE
