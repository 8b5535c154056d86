SPECIFICATION Spec
CONSTANTS
    t1 = t1
    t2 = t2
    r = r
    k = k
    e1 = e1
    e2 = e2
    e3 = e3
    Threads <- TwoThreads
    Leases <- Clients
    Options <- MixedOptions
    Reentrant = TRUE
    MaxForks = 2
SYMMETRY Symm
CHECK_DEADLOCK FALSE
INVARIANTS LeaseAccounts NativeFollowsLeases ForkedChildIsSafe
PROPERTY GivenBackFirst
