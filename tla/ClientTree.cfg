CONSTANTS
    t1 = t1
    t2 = t2
    n1 = n1
    n2 = n2
    n3 = n3
    n4 = n4
    n5 = n5
    Threads = {t1, t2}
    Nodes = {n1, n2, n3, n4, n5}
    Shapes <- BothTrees
    Users <- ClosersAndUser
    Callbackers = {n2}
    MaxFaults = 1
SPECIFICATION FairSpec
INVARIANTS ParentOutlivesChildren RecordingsAccountedFor
PROPERTIES ImplementsLifetimes CallsReturn ClientClosesInTheEnd
CHECK_DEADLOCK FALSE
