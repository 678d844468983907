SPECIFICATION ExistingAccountsSpec
CONSTANTS
    Account = {a1}
    Password = {p1, p2}
    Request = {r1, r2, r3}
    Null = Null
    MaxFailures = 0
SYMMETRY Symmetry
PROPERTIES
    OldPasswordOpensNothing
