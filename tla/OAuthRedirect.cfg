SPECIFICATION FairSpec
CONSTANTS
    Request = {r1, r2}
    Null = Null
    MaxFailures = 2
INVARIANTS
    ReplayIsRefused
PROPERTIES
    EveryRequestIsAnswered
CHECK_DEADLOCK FALSE
