\* Three requests, three connect attempts; no symmetry under liveness.
SPECIFICATION FairSpec
CONSTANTS
    Requests = {r1, r2, r3}
    ConnAttempts = 3
INVARIANTS
    TypeOK
    NoPoolLeaks
    CleanExitIsGraceful
    DrainKeepsItsPromise
PROPERTIES
    StopsOnSignal
    StopsOnServeError
    StartUpEnds
