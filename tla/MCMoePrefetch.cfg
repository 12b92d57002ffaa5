SPECIFICATION MCSpec
CONSTANTS
    Clients = {c1, c2}
    Tensors = {w1}
    NChunks = 2
    MaxThreads = 2
    MaxQueue = 1
    MaxEpoch = 2
    MaxPools = 2
    MaxCalls = 3
    None = None
SYMMETRY ClientSymmetry
INVARIANTS
    TypeOK
    PendingExact
    UrgentFirst
    LookaheadBounded
    NoCallOnDeadPool
PROPERTY WaitIsBarrier
CHECK_DEADLOCK FALSE
