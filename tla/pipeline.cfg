CONSTANTS
    Tasks = {t1, t2}
    Closer = Closer
    Unstorable = {2}
    Capacity = 2
    MaxBatch = 1
    BySize = FALSE
    MaxEvents = 3
    MaxRequests = 4
    MaxFailures = 2
SYMMETRY Symmetry
CHECK_DEADLOCK FALSE
SPECIFICATION Spec
INVARIANTS
    TypeOK
    Balance
    NothingLostSilently
    GapIsReal
PROPERTIES
    FiguresNeverRollBack
