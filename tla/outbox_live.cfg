CONSTANTS
    Workers = {w1}
    Deliveries = {d1, d2}
    Limit = 2
    Concurrency = 1
    ClaimLease = 2
    Timeout = 3
    MaxTimeout = 1
    RetrySchedule <- Schedule
    MaxAttempts = 2
    MaxStall = 1
    MaxWait = 0
    MaxCrashes = 1
    MaxAdmin = 0
SPECIFICATION FairSpec
CHECK_DEADLOCK FALSE
PROPERTIES
    EveryDeliverySettles
