\* Two creates on up to two keys and one read at an instance with two
\* connections, which stops and starts as often as it likes.
SPECIFICATION FairServiceSpec
CONSTANTS
    Creates = {c1, c2}
    Reads = {g1}
    Keys = {k1, k2}
    Instances = {i1}
    PoolMax = 2
    NoOrder = NoOrder
INVARIANTS
    PhaseOK
    NotFoundMeansUnknown
PROPERTIES
    ImplementsIdempotentCreate
    ClosingPoolCloses
    EveryRequestEnds
