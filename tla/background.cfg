CONSTANTS
    Callers = {c1}
    Stopping = {"exit", "close", "uninstrument"}
    Capacity = 2
    MaxBatch = 2
    BySize = TRUE
    FlushSize = 2
    MaxEvents = 3
    MaxStops = 2
    MaxTurns = 1
SPECIFICATION Spec
CHECK_DEADLOCK FALSE
INVARIANTS
    Balance
    OneSendAtATime
    HeldOnce
    PauseAfter429
    StopIsSeen
    ChildSendsItsOwn
