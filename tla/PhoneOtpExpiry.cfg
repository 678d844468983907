SPECIFICATION Spec
CONSTANTS
    User = {u1}
    Phone = {n1}
    Request = {r1, r2, r3}
    Null = Null
    WrongCode = WrongCode
    OtpTtl = 2
    Cooldown = 1
    MaxAttempts = 3
    MaxFailures = 0
SYMMETRY Symmetry
INVARIANTS
    EveryChallengeExpires
