SPECIFICATION Spec
CONSTANTS
    Email = {e1}
    Subject = {s1, s2}
    Request = {r1, r2, r3}
    Null = Null
    MaxFailures = 1
SYMMETRY Symmetry
INVARIANTS
    WelcomedAtMostOnce
    VerifiedOnProof
    LinkedIsVerified
    OneEventPerSignIn
PROPERTIES
    AccountsAreADirectory
CHECK_DEADLOCK FALSE
