SPECIFICATION Spec
CONSTANTS
    waiter = waiter
    other = other
    Servers = {p1}
    Objects <- MCObjects
    Entries <- MCEntries
    Requests = {waiter, other}
    May <- MCMay
    MaxConns = 1
    NoOne = NoOne
INVARIANTS
    GraceIsGiven
CHECK_DEADLOCK FALSE
