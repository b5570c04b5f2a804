SPECIFICATION FairSpec
CONSTANTS
    Expected = 3
INVARIANTS
    TypeOK
    OkMeansComplete
    CompleteMeansOk
    TimeoutIsArmed
    AbortedReadHasExpired
PROPERTIES
    Returns
