\* One create, one read, one login, under fairness; a token of one second, and
\* calls before, at and after its expiry.
SPECIFICATION FairSpec
CONSTANTS
    Creates = {c1}
    Reads = {g1}
    Logins = {l1}
    Users = {u1, u2}
    Keys = {k1}
    NoOrder = NoOrder
    NoUser = NoUser
    NoLogin = NoLogin
    Forged = Forged
    Lifetime = 2
    Second = 2
    Horizon = 3
INVARIANTS
    TokensLiveOneLifetime
    AnswersShowTheStoredOrder
PROPERTIES
    EveryCallEnds
