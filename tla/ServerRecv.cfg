SPECIFICATION MCSpec
CONSTANTS
    Ids = {4}
    NoId = 99
    NSlots = 2
    NCtx = 3
    NBatch = 2
    NUbatch = 2
    NPredict = 2
    ContBatching = TRUE
    Readers = {}
    LegacyClients = {"l"}
    SysPrompt = {}
    Populations <- MCLegacyAlone
    Request <- MCRequest
    TasksOf <- MCTasksOf
    Kinds <- MCKinds
    IdSlots <- MCIdSlots
PROPERTY RecvReturns
CHECK_DEADLOCK FALSE
