CONSTANTS
    lister = lister
    user = user
    closer = closer
    e1 = e1
    Listers = {lister}
    Users = {user}
    Closers = {closer}
    Exports = {e1}
    MaxFraction = 2
    Refusals <- NoRefusals
SPECIFICATION Spec
INVARIANT CloseSucceeds
CHECK_DEADLOCK FALSE
