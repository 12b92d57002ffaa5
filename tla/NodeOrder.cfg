SPECIFICATION SplitsSpec
CONSTANTS
    up = up
    down = down
    dev = dev
    dev2 = dev2
    Main = main
    Clients = {main}
    Tensors = {up, down, dev}
    NChunks = 2
    MaxThreads = 1
    MaxQueue = 1
    MaxEpoch = 2
    MaxPools = 1
    None = None
    NSplits = 2
    Weights <- TwoNodeWeights
    Kind <- TwoNodeKind
    Ahead = 2
    NThreads = 1
    Manifest <- TwoNodeManifest
    Residents <- MCResidents
INVARIANT NodesStreamInOrder
CHECK_DEADLOCK FALSE
