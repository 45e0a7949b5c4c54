SPECIFICATION Spec
CONSTANTS
    waiter = waiter
    other = other
    Servers = {p1, p2}
    Objects <- MCObjects
    Entries <- MCEntries
    Requests = {waiter, other}
    May <- MCMay
    MaxConns = 1
    NoOne = NoOne
INVARIANTS
    TypeOK
    MigrationsAreAtomic
    NeverDegraded
PROPERTIES
    RequestsProceed
    ShutdownEnds
CHECK_DEADLOCK FALSE
