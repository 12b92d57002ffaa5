SPECIFICATION Spec
CONSTANTS
    NCells = 7
    Window = 2
    NUbatch = 2
    Pad = 2
    Sinks = 1
    MinSlack = 1
INVARIANTS
    SwaTypeOK
    
    WindowKept
    
    AttendsWindow
    SavedRestorable
CHECK_DEADLOCK FALSE
