SPECIFICATION Spec
CONSTANTS
    Runes <- McRunes
    Numerals = {"42", "042"}
    IntOf <- McIntOf
    Commands <- McCommands
    HalfRange = 8
    Millisecond = 2
    defaultHTTPTimeout = 3
    blockingRequestBuffer = 2
INVARIANTS
    TypeOK
    CommandsAreUnderstood
    EffectsMatchRows
    TimeoutsAreHonest
PROPERTIES
    CommandEnds
CHECK_DEADLOCK FALSE
