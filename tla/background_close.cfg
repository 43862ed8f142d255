CONSTANTS
    Callers = {c1}
    Stopping = {"close"}
    Capacity = 2
    MaxBatch = 2
    BySize = FALSE
    FlushSize = 2
    MaxEvents = 1
    MaxStops = 1
    MaxTurns = 0
SPECIFICATION FairSpec
CHECK_DEADLOCK FALSE
PROPERTIES
    CloseReturns
