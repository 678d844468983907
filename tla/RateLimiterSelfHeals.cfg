SPECIFICATION MissedExpirySpec
CONSTANTS
    ip = ip
    email = email
    c1 = c1
    c2 = c2
    c3 = c3
    Key <- MCKey
    Caller = {c1}
    Route <- MCRoute
    Limit = 1
    Window = 2
    MaxCount = 2
    MaxFailures = 1
PROPERTIES
    MissedExpirySelfHeals
