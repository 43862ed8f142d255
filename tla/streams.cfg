SPECIFICATION Spec
CONSTANTS
    None = None
    Values <- SomeValues
CHECK_DEADLOCK FALSE
INVARIANTS
    RequestIsFaithful
    ChunksArrive
    StreamAgreesWithWhole
    
