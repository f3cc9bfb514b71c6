SPECIFICATION Spec
CONSTANTS
    User = {u1, u2}
    Token = {k1, k2, k3, k4}
    Username = {x, y}
    Email = {a, b}
    Request = {r1, r2}
    Unused = Unused
    Gone = Gone
    None = None
SYMMETRY Symmetry
INVARIANTS
    UniqueAccounts
    TokensHaveUser
    SuccessorsBounded
    DeadlockShapes
PROPERTIES
    SpentForGood
