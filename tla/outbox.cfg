CONSTANTS
    Workers = {w1, w2}
    Deliveries = {d1}
    Limit = 1
    Concurrency = 1
    ClaimLease = 3
    Timeout = 2
    MaxTimeout = 2
    RetrySchedule <- Schedule
    MaxAttempts = 2
    MaxStall = 1
    MaxWait = 3
    MaxCrashes = 2
    MaxAdmin = 1
SYMMETRY Symmetry
SPECIFICATION Spec
CHECK_DEADLOCK FALSE
INVARIANTS
    TypeOK
    NoOverlap
    PostsAreBounded
PROPERTIES
    OutboxKeepsContract
