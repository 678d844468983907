SPECIFICATION FairSpec
CONSTANTS
    Account = {a1}
    Password = {p1, p2}
    Request = {r1, r2}
    Null = Null
    MaxFailures = 1
PROPERTIES
    ResetReachesEverySession
