SPECIFICATION ShadowSpec
CONSTANTS
    Contexts = {x1, x2}
    Keys = {k1, k2, k3}
    Sizes = {1, 3, 6}
    Capacities = {0, 4, 7}
    SizeMax = 7
    KernelEntries <- MCKernelEntries
    TraceLimit = 2
    MaxAccesses = 4
    None = None
SYMMETRY ContextSymmetry
INVARIANTS
    ShadowTypeOK
    IndexMatchesList
    BudgetKept
    OwnerUndisturbed
    TraceAccounts
PROPERTY IsLruPolicy
