\* Does every log line of a request carry a trace id?
SPECIFICATION Spec
CONSTANTS
    Creates = {c1}
    Reads = {g1}
    Logins = {l1}
    Users = {u1, u2}
    Keys = {k1}
    NoOrder = NoOrder
    NoUser = NoUser
    NoLogin = NoLogin
    Forged = Forged
    Lifetime = 2
    Second = 2
    Horizon = 2
INVARIANTS
    EveryLogLineIsTraced
