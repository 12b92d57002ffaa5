SPECIFICATION Spec
CONSTANTS
    MaxTensors = 5
    Alignment = 2
    MaxSrc = 2
    Huge = 24
    Leading <- MCLeading
    Following <- MCFollowing
    Complete <- MCComplete
    Resized <- MCResized
INVARIANTS
    MemoryTiled
    MemoryGivenBack
    
    
CHECK_DEADLOCK FALSE
