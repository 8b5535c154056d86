CONSTANTS
    lister = lister
    user = user
    closer = closer
    e1 = e1
    Listers = {lister}
    Users = {user}
    Closers = {closer}
    Exports = {e1}
    MaxFraction = 2
    Refusals <- MostRefusals
SPECIFICATION FairSpec
INVARIANTS CloudDestroyedLast ExportsAreExact
PROPERTIES ResultStands ProgressNeverGoesBack CloseReturns ListReturns
CHECK_DEADLOCK FALSE
