SPECIFICATION Spec
CONSTANTS
    r1 = r1
    w = w
    job = job
    jobs = jobs
    anyJob = anyJob
    chan = chan
    Sessions = {r1, w}
    Tuples = {job}
    Templates = {anyJob}
    Candidates <- MCCandidates
    Matches <- MCMatches
    Spaces = {jobs}
    SpaceOf <- MCSpaceOf
    Filters = {}
    CandidateLimit = 2
    MaxId = 2
    NoOne = NoOne
    Channels = {chan}
    MaxInbox = 2
    SpaceAsked <- MCSpaceAsked
    ChannelName <- MCChannelName
    May <- Reader
    Faults = {"statement", "context", "connection"}
PROPERTIES
    RequestsAnswered
    ReadersAreServed
CHECK_DEADLOCK FALSE
