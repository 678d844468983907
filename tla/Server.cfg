SPECIFICATION FairSpec
CONSTANTS
    Call = {r1, r2}
    Signal = {sigterm, sigint}
INVARIANTS
    SilenceMeansAccepted
    ReadyOnlyWhileServing
PROPERTIES
    AwaitedRequestsKeepStores
    ExitCodeIsTrue
    ShutdownEnds
    RequestsEnd
CHECK_DEADLOCK FALSE
