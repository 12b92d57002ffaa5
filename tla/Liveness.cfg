SPECIFICATION MCSpec
CONSTANTS
    Clients = {c1, c2}
    Tensors = {w1}
    NChunks = 1
    MaxThreads = 2
    MaxQueue = 1
    MaxEpoch = 2
    MaxPools = 2
    MaxCalls = 3
    None = None
PROPERTY CallsReturn
CHECK_DEADLOCK FALSE
