SPECIFICATION Spec
CONSTANTS
    Sessions = {s1, s2}
    job = job
    gap = gap
    jobs = jobs
    anyJob = anyJob
    Tuples = {job, gap}
    Templates <- MCTemplates
    Candidates <- MCCandidates
    Matches <- MCMatches
    Spaces = {jobs}
    SpaceOf <- MCSpaceOf
    Filters <- MCFilters
    CandidateLimit = 1
    MaxId = 2
    NoOne = NoOne
INVARIANTS
    TypeOK
    HeldRowsStay
    TakenOnce
    NoLockLeak
    FoundIsReal
    NotFoundExplained
PROPERTIES
    AnnouncedWhenVisible
    RemovedByLocker
    AbstractSpec
    RequestsEnd
