SPECIFICATION SplitsSpec
CONSTANTS
    up = up
    down = down
    dev = dev
    dev2 = dev2
    Main = main
    Clients = {main}
    Tensors = {up, dev, dev2}
    NChunks = 2
    MaxThreads = 1
    MaxQueue = 1
    MaxEpoch = 3
    MaxPools = 1
    None = None
    NSplits = 4
    Weights <- MCWeights
    Kind <- MCKind
    Ahead = 2
    NThreads = 1
    Manifest <- MCManifest
    Residents <- MCResidents
INVARIANTS
    SplitsTypeOK
    CopiedWeightsStreamed
    LookaheadWindow
    OncePerPass
PROPERTIES
    PassEnds
CHECK_DEADLOCK FALSE
