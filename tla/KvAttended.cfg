SPECIFICATION Spec
CONSTANTS
    NCells = 4
    Pad = 2
    Seqs = {0, 1}
    AnySeq = 9
    MaxPos = 1
    MaxBatch = 2
    MaxOps = 3
    Deltas <- MCDeltas
    Divisor = 2
PROPERTY AttendsOwnSequences
CHECK_DEADLOCK FALSE
