SPECIFICATION Spec
CONSTANTS
    Callers = {c1, c2}
    None = None
    Torn = Torn
    Mkdir = Mkdir
    Roles = {"r1", "host"}
    HostRole = "host"
    SourceRole = "src"
    Hosts <- SomeHosts
    CredentialTtl = 1
    CredentialLife = 1
    MaxCredentials = 2
    Reports = 3
    MaxLines = 2
    LogQueue = 2
    LogBatch = 2
    LogSlots = 1
    SpanQueue = 2
    SpanBatch = 2
    SinkConfigs = {{"lines"}, {"logs"}, {"spans"}}
    Bundles <- SomeBundles
    LocalBundles <- TwoBundles
    Texts = {"t1", "t2", "t3"}
    BadTexts = {"t3"}
    PolicyCalls = {"c"}
    Pulls = {"p1", "p2"}
    MaxEdits = 2
    LocalEdits = 1
    FileEdits = 2
    MaxFailures = 1
    Kids = {"k1", "k2"}
    Configured = FALSE
    Uris = {"u1", "u2"}
    TTLs = {4}
    Cooldown = 3
    FetchTimeout = 1
    MaxTime = 6
    MaxRotations = 1
SYMMETRY Symmetry
CHECK_DEADLOCK FALSE
INVARIANTS
    CredentialsAreOwn
    CachesAnswerTheirOwn
    SinksKeepEvents
    VerdictsHold
PROPERTIES
    LatestIsInForce
