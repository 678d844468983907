SPECIFICATION Spec
CONSTANTS
    User = {u1, u2}
    Phone = {n1, n2}
    Request = {r1, r2}
    Null = Null
    WrongCode = WrongCode
    OtpTtl = 2
    Cooldown = 1
    MaxAttempts = 2
    MaxFailures = 1
SYMMETRY Symmetry
INVARIANTS
    TypeOK
    CodeIsSingleUse
    GuessesAreBounded
    GuessesDoNotRenew
    NumberIsTheAccounts
PROPERTIES
    OtpIsOneTimeSecret
