SPECIFICATION FairSpec
CONSTANTS
    ip = ip
    email = email
    c1 = c1
    c2 = c2
    c3 = c3
    Key <- MCKey
    Caller = {c1, c2, c3}
    Route <- MCRoute
    Limit = 2
    Window = 2
    MaxCount = 4
    MaxFailures = 1
INVARIANTS
    LimitHolds
    NoKeyIsStranded
PROPERTIES
    WindowReopens
    WindowIsFixed
    KeysAreFixedWindows
