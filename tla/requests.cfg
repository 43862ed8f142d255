SPECIFICATION Spec
CONSTANTS
    Callers = {u1, u2}
    RoutedCalls = {c1, c2}
    None = None
    RetryLimit = 3
    MaxRetries = 2
    RetryLists <- SomeLists
    UpstreamStatuses <- SomeStatuses
    Route <- TwoCandidates
    FailureThreshold = 1
    HalfOpenMaxProbes = 1
    RateLimitRetries = 1
    MaxBreakers = 1
    Settings <- TheSettings
    MaxTokens = 1
    Early <- Skews
    Lives <- Lifes
    Latency = 1
SYMMETRY Symmetry
CHECK_DEADLOCK FALSE
INVARIANTS
    GuardrailsHold
    AnswerIsJudged
    RoutedCallsAreHonest
    TokensAreOwn
PROPERTIES
    SkipIsFinal
