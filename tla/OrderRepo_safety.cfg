\* Three creates on up to two keys and one read, sent to two instances with a
\* pool of one connection each.
SPECIFICATION Spec
CONSTANTS
    Creates = {c1, c2, c3}
    Reads = {g1}
    Keys = {k1, k2}
    Instances = {i1, i2}
    PoolMax = 1
    NoOrder = NoOrder
SYMMETRY Symmetry
INVARIANTS
    TypeOK
    AtMostOneOrderPerKey
    SameAnswerPerKey
    AcknowledgedIsStored
    NotFoundMeansUnknown
    PoolAccounting
PROPERTIES
    StoredForever
