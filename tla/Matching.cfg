INIT Init
NEXT Next
CONSTANTS
    Strings = {"a", "b"}
    MinInt <- McMinInt
    MaxInt = 1
    Names = {"x", "y"}
    RawTuples <- McTuples
    RawTemplates <- McTemplates
INVARIANTS
    TypeOK
    MatchIsAssignment
    FilterLosesNothing
    StoredReadsBack
CHECK_DEADLOCK FALSE
