CONSTANTS
    MaxPending = 3
    MaxAttempts = 2
    DRAIN_CONCURRENCY = 2
    SafeUrl = TRUE
    Unserializable = {3}
    MaxRetryAfter = 1
    MaxEvents = 3
    MaxFailures = 2
SPECIFICATION FairSpec
CHECK_DEADLOCK FALSE
INVARIANTS
    Balance
    QueueIsDrained
    DrainIsBounded
PROPERTIES
    NothingSentBeforeDeadline
    EverySendResolves
