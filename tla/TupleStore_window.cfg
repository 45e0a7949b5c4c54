SPECIFICATION Spec
CONSTANTS
    Sessions = {s1, s2}
    job = job
    gap = gap
    jobs = jobs
    anyJob = anyJob
    Tuples = {job, gap}
    Templates <- MCTemplates
    Candidates <- MCCandidates
    Matches <- MCMatches
    Spaces = {jobs}
    SpaceOf <- MCSpaceOf
    Filters = {}
    CandidateLimit = 1
    MaxId = 2
    NoOne = NoOne
PROPERTIES
    RdNotFoundMeansNoMatch
