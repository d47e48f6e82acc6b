\* Does a signal reach the DB calls of requests, when PostgreSQL is silent?  No
\* symmetry under liveness.
SPECIFICATION FairSpec
CONSTANTS
    Requests = {r1, r2}
    ConnAttempts = 3
PROPERTIES
    SignalReachesDbCalls
