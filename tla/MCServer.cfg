SPECIFICATION MCSpec
CONSTANTS
    Ids = {1, 2, 3, 4, 5}
    NoId = 99
    NSlots = 2
    NCtx = 3
    NBatch = 2
    NUbatch = 2
    NPredict = 2
    ContBatching = TRUE
    Readers = {"a", "b", "c"}
    LegacyClients = {"l"}
    SysPrompt = {2, 5}
    Populations <- MCPopulations
    Request <- MCRequest
    TasksOf <- MCTasksOf
    Kinds <- MCKinds
    IdSlots <- MCIdSlots
INVARIANTS
    TypeOK
    OnePlace
    SleepsOnlyIdle
    NeverForgotten
    BatchWellFormed
PROPERTIES
    IsTaskService
    ReaderServed
CHECK_DEADLOCK FALSE
