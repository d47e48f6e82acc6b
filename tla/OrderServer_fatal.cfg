\* Does a fatal serve error drain HTTP?
SPECIFICATION Spec
CONSTANTS
    Requests = {r1, r2}
    ConnAttempts = 3
SYMMETRY Symmetry
INVARIANTS
    FatalErrorDrainsToo
