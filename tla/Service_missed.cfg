SPECIFICATION Spec
CONSTANTS
    r1 = r1
    w = w
    job = job
    jobs = jobs
    anyJob = anyJob
    chan = chan
    Sessions = {r1, w}
    Tuples = {job}
    Templates = {anyJob}
    Candidates <- MCCandidates
    Matches <- MCMatches
    Spaces = {jobs}
    SpaceOf <- MCSpaceOf
    Filters = {}
    CandidateLimit = 2
    MaxId = 1
    NoOne = NoOne
    Channels = {chan}
    MaxInbox = 1
    SpaceAsked <- MCSpaceAsked
    ChannelName <- MCChannelName
    May <- Reader
    Faults = {"context", "connection"}
PROPERTIES
    MissedIsRequeried
CHECK_DEADLOCK FALSE
