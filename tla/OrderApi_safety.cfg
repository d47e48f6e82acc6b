\* Two creates under up to two keys, two logins of up to two users, tokens of
\* one second.
SPECIFICATION Spec
CONSTANTS
    Creates = {c1, c2}
    Reads = {}
    Logins = {l1, l2}
    Users = {u1, u2}
    Keys = {k1, k2}
    NoOrder = NoOrder
    NoUser = NoUser
    NoLogin = NoLogin
    Forged = Forged
    Lifetime = 2
    Second = 2
    Horizon = 2
SYMMETRY Symmetry
INVARIANTS
    TypeOK
    RefusedHasNoEffect
    OrdersAreEntitled
    AnswersShowTheStoredOrder
