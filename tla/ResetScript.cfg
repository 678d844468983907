SPECIFICATION FairSpec
CONSTANTS
    User = {u1, u2}
    Row = {s1}
    Key = {k1, k2}
    Null = Null
    Gone = Gone
    Chunk = 1
    MaxFailures = 1
INVARIANTS
    OldDataIsGone
    CleanIsTrue
    SessionsHaveUsers
PROPERTIES
    RowsVanishTogether
    HandlersGoOn
