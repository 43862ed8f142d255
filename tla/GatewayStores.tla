--------------------------- MODULE GatewayStores ----------------------------
(***************************************************************************)
(* What the gateway keeps between requests and the decisions that rest on  *)
(* it, side by side: a behaviour runs one of the units.  They keep no state*)
(* in common, so the behaviours of the gateway are those of its units.     *)
(***************************************************************************)
EXTENDS GatewayStoreUnits, TLC

CONSTANTS Torn, Mkdir

VARIABLES
  unit, \* the unit that this behaviour runs
  simple, entries, partitions, totalBytes, seq, req, begun, up, data, timer, saves, ops,
  crashes, spoilt, hook, ctx, check, read, text, isTransformed, results, deny, drifted,
  invalid, posts, shown

vars == <<unit, config, fileCache, store, caller, now, simple, entries, partitions, totalBytes,
          seq, req, begun, platform, sinks, request, events, spans, lines, scheduled,
          waitingForDrain, written, lineDrops, logQueue, logTimer, logFlights,
          logDelivered, logDropped, spanQueue, spanTimer, spanFlights, spanDelivered,
          spanDropped, phase, late, drainer, up, data, file, timer, saves, ops, crashes,
          spoilt, served, edits, active, failing, rejected, pull, serving, failures,
          fileEdits, loaded, badText, reload, call, idp, rotations, keys, expiresAt,
          lastAttempt, jwksUri, lastError, inflight, fetches, hook, ctx, check, read, text,
          isTransformed, results, deny, drifted, invalid, posts, shown>>

Off == "off"

-----------------------------------------------------------------------------
(* AwsCredentials: hosts with sources of every kind, several or none. *)
SomeHosts == {{}, {"shared"}, {"irsa", "imds"}}

(* ResponseCache: targets with a caller scope, which the semantic cache    *)
(* may serve or not; requests of either mode.                              *)
To(scope) == [scope |-> scope, eligible |-> TRUE]
Ineligible(scope) == [scope |-> scope, eligible |-> FALSE]

ByKey(age, refresh, targets) ==
  [mode |-> "simple", body |-> "b", vector |-> 0, maxAge |-> age, refresh |-> refresh,
   size |-> 1, targets |-> targets]

ByMeaning(v, age, refresh, size, targets) ==
  [mode |-> "semantic", body |-> "b", vector |-> v, maxAge |-> age, refresh |-> refresh,
   size |-> size, targets |-> targets]

\* Two callers, one of which falls back to the other's upstream.
SimpleRequests ==
  {ByKey(1, FALSE, <<To("A")>>), ByKey(0, FALSE, <<To("B"), To("A")>>),
   ByKey(2, TRUE, <<To("B")>>), ByKey(1, FALSE, <<To("C")>>)}

SemanticRequests ==
  {ByMeaning(0, 0, FALSE, 1, <<To("A")>>), ByMeaning(1, 1, FALSE, 2, <<To("A")>>),
   ByMeaning(2, 0, TRUE, 1, <<To("B"), To("A")>>),
   ByMeaning(0, 0, FALSE, 4, <<Ineligible("B"), To("B")>>)}

(* PolicyPull: bundles with a good, an unknown and an invalid section, one *)
(* whose team entry is invalid, and the empty bundle.                      *)
Sections(r, a) == [route |-> r, access |-> a]
Bundle(e, v, tenant, team) == [etag |-> e, version |-> v, tenant |-> tenant, team |-> team]
NoSections == Sections("absent", "absent")
Full == Bundle("e1", "v1", Sections("ok", "ok"), NoSections)
EmptyBundle == Bundle("e0", None, NoSections, NoSections)
SomeBundles ==
  { Full, EmptyBundle,
    Bundle("e2", "v2", Sections("absent", "ok"), Sections("ok", "absent")),
    Bundle("e3", "v3", Sections("ok", "absent"), Sections("absent", "bad")),
    Bundle("e4", "v4", Sections("v2", "ok"), NoSections) }

TwoBundles == {Full, EmptyBundle}

(* Hooks: the kinds of hooks. *)
AnyKind == {"mutator", "sequential", "parallel"}

(* McpProxy: a pinned tool, one that is not, and one that the server's     *)
(* policy denies; the group of r2 may use the second only.                 *)
Tool(name, def, header) == [name |-> name, def |-> def, header |-> header]

SomeLists ==
  { <<Tool("p", "pinned", "none"), Tool("q", "any", "invalid"), Tool("x", "any", "invalid")>>,
    <<Tool("p", "changed", "none"), Tool("p", "pinned", "none"), Tool("q", "any", "none")>>,
    <<Tool("q", "any", "none"), Tool("p", "pinned", "invalid")>> }

TwoGroups == [r \in {"r1", "r2"} |-> IF r = "r1" THEN {"p", "q", "x"} ELSE {"q"}]

-----------------------------------------------------------------------------
Exact == INSTANCE ResponseCache WITH Profiles <- SimpleRequests, Slots <- Callers,
                                     DefaultAge <- 3, SemanticTtl <- 2, Near <- 1,
                                     MaxEntries <- 2, MaxBytes <- 3, MaxPerPartition <- 2,
                                     MaxRequests <- 3, MaxTime <- 2
Semantic == INSTANCE ResponseCache WITH Profiles <- SemanticRequests, Slots <- Callers,
                                        DefaultAge <- 3, SemanticTtl <- 1, Near <- 1,
                                        MaxEntries <- 2, MaxBytes <- 3,
                                        MaxPerPartition <- 2, MaxRequests <- 3, MaxTime <- 1
Files == INSTANCE FileCache WITH Keys <- {"k1", "k2"}, Callers <- {"c"}, Ttl <- 1,
                                 MaxOps <- 3, MaxCrashes <- 1, MaxSaves <- 2
AllKinds == INSTANCE Hooks WITH HookCount <- 2, CheckCount <- 1, Kinds <- AnyKind
Parallel == INSTANCE Hooks WITH HookCount <- 2, CheckCount <- 2, Kinds <- {"parallel"}
OneHook == INSTANCE Hooks WITH HookCount <- 1, CheckCount <- 2, Kinds <- AnyKind
Mcp == INSTANCE McpProxy WITH Requests <- {"r1", "r2"}, Tools <- {"p", "q", "x"},
                              Allowed <- {"p", "q"}, GroupTools <- TwoGroups,
                              Pinned <- {"p"}, Block <- TRUE, Lists <- SomeLists,
                              Kinds <- {"list", "call", "other", "notification", "get", "task"},
                              Conformant <- TRUE, MaxEvents <- 2, MaxPosts <- 2

(* A unit runs with its own variables; the variables of the others are off. *)
Units == {"aws", "exact", "semantic", "sinks", "files", "pull", "local", "keys", "hooks",
           "parallel", "serial", "mcp"}

Init ==
  \/ /\ unit = "aws" /\ Aws!Init
     /\ now = Off /\ simple = Off /\ entries = Off /\ partitions = Off /\
        totalBytes = Off /\ seq = Off /\ req = Off /\ begun = Off /\ platform = Off /\
        sinks = Off /\ request = Off /\ events = Off /\ spans = Off /\ lines = Off /\
        scheduled = Off /\ waitingForDrain = Off /\ written = Off /\ lineDrops = Off /\
        logQueue = Off /\ logTimer = Off /\ logFlights = Off /\ logDelivered = Off /\
        logDropped = Off /\ spanQueue = Off /\ spanTimer = Off /\ spanFlights = Off /\
        spanDelivered = Off /\ spanDropped = Off /\ phase = Off /\ late = Off /\
        drainer = Off /\ up = Off /\ data = Off /\ file = Off /\ timer = Off /\
        saves = Off /\ ops = Off /\ crashes = Off /\ spoilt = Off /\ served = Off /\
        edits = Off /\ active = Off /\ failing = Off /\ rejected = Off /\ pull = Off /\
        serving = Off /\ failures = Off /\ fileEdits = Off /\ loaded = Off /\
        badText = Off /\ reload = Off /\ call = Off /\ idp = Off /\ rotations = Off /\
        keys = Off /\ expiresAt = Off /\ lastAttempt = Off /\ jwksUri = Off /\
        lastError = Off /\ inflight = Off /\ fetches = Off /\ hook = Off /\ ctx = Off /\
        check = Off /\ read = Off /\ text = Off /\ isTransformed = Off /\ results = Off /\
        deny = Off /\ drifted = Off /\ invalid = Off /\ posts = Off /\ shown = Off
  \/ /\ unit = "exact" /\ Exact!Init
     /\ config = Off /\ fileCache = Off /\ store = Off /\ caller = Off /\ platform = Off /\
        sinks = Off /\ request = Off /\ events = Off /\ spans = Off /\ lines = Off /\
        scheduled = Off /\ waitingForDrain = Off /\ written = Off /\ lineDrops = Off /\
        logQueue = Off /\ logTimer = Off /\ logFlights = Off /\ logDelivered = Off /\
        logDropped = Off /\ spanQueue = Off /\ spanTimer = Off /\ spanFlights = Off /\
        spanDelivered = Off /\ spanDropped = Off /\ phase = Off /\ late = Off /\
        drainer = Off /\ up = Off /\ data = Off /\ file = Off /\ timer = Off /\
        saves = Off /\ ops = Off /\ crashes = Off /\ spoilt = Off /\ served = Off /\
        edits = Off /\ active = Off /\ failing = Off /\ rejected = Off /\ pull = Off /\
        serving = Off /\ failures = Off /\ fileEdits = Off /\ loaded = Off /\
        badText = Off /\ reload = Off /\ call = Off /\ idp = Off /\ rotations = Off /\
        keys = Off /\ expiresAt = Off /\ lastAttempt = Off /\ jwksUri = Off /\
        lastError = Off /\ inflight = Off /\ fetches = Off /\ hook = Off /\ ctx = Off /\
        check = Off /\ read = Off /\ text = Off /\ isTransformed = Off /\ results = Off /\
        deny = Off /\ drifted = Off /\ invalid = Off /\ posts = Off /\ shown = Off
  \/ /\ unit = "semantic" /\ Semantic!Init
     /\ config = Off /\ fileCache = Off /\ store = Off /\ caller = Off /\ platform = Off /\
        sinks = Off /\ request = Off /\ events = Off /\ spans = Off /\ lines = Off /\
        scheduled = Off /\ waitingForDrain = Off /\ written = Off /\ lineDrops = Off /\
        logQueue = Off /\ logTimer = Off /\ logFlights = Off /\ logDelivered = Off /\
        logDropped = Off /\ spanQueue = Off /\ spanTimer = Off /\ spanFlights = Off /\
        spanDelivered = Off /\ spanDropped = Off /\ phase = Off /\ late = Off /\
        drainer = Off /\ up = Off /\ data = Off /\ file = Off /\ timer = Off /\
        saves = Off /\ ops = Off /\ crashes = Off /\ spoilt = Off /\ served = Off /\
        edits = Off /\ active = Off /\ failing = Off /\ rejected = Off /\ pull = Off /\
        serving = Off /\ failures = Off /\ fileEdits = Off /\ loaded = Off /\
        badText = Off /\ reload = Off /\ call = Off /\ idp = Off /\ rotations = Off /\
        keys = Off /\ expiresAt = Off /\ lastAttempt = Off /\ jwksUri = Off /\
        lastError = Off /\ inflight = Off /\ fetches = Off /\ hook = Off /\ ctx = Off /\
        check = Off /\ read = Off /\ text = Off /\ isTransformed = Off /\ results = Off /\
        deny = Off /\ drifted = Off /\ invalid = Off /\ posts = Off /\ shown = Off
  \/ /\ unit = "sinks" /\ Sinks!Init
     /\ config = Off /\ fileCache = Off /\ store = Off /\ caller = Off /\ now = Off /\
        simple = Off /\ entries = Off /\ partitions = Off /\ totalBytes = Off /\
        seq = Off /\ req = Off /\ begun = Off /\ up = Off /\ data = Off /\ file = Off /\
        timer = Off /\ saves = Off /\ ops = Off /\ crashes = Off /\ spoilt = Off /\
        served = Off /\ edits = Off /\ active = Off /\ failing = Off /\ rejected = Off /\
        pull = Off /\ serving = Off /\ failures = Off /\ fileEdits = Off /\ loaded = Off /\
        badText = Off /\ reload = Off /\ call = Off /\ idp = Off /\ rotations = Off /\
        keys = Off /\ expiresAt = Off /\ lastAttempt = Off /\ jwksUri = Off /\
        lastError = Off /\ inflight = Off /\ fetches = Off /\ hook = Off /\ ctx = Off /\
        check = Off /\ read = Off /\ text = Off /\ isTransformed = Off /\ results = Off /\
        deny = Off /\ drifted = Off /\ invalid = Off /\ posts = Off /\ shown = Off
  \/ /\ unit = "files" /\ Files!Init
     /\ config = Off /\ fileCache = Off /\ store = Off /\ now = Off /\ simple = Off /\
        entries = Off /\ partitions = Off /\ totalBytes = Off /\ seq = Off /\ req = Off /\
        begun = Off /\ platform = Off /\ sinks = Off /\ request = Off /\ events = Off /\
        spans = Off /\ lines = Off /\ scheduled = Off /\ waitingForDrain = Off /\
        written = Off /\ lineDrops = Off /\ logQueue = Off /\ logTimer = Off /\
        logFlights = Off /\ logDelivered = Off /\ logDropped = Off /\ spanQueue = Off /\
        spanTimer = Off /\ spanFlights = Off /\ spanDelivered = Off /\ spanDropped = Off /\
        phase = Off /\ late = Off /\ drainer = Off /\ served = Off /\ edits = Off /\
        active = Off /\ failing = Off /\ rejected = Off /\ pull = Off /\ serving = Off /\
        failures = Off /\ fileEdits = Off /\ loaded = Off /\ badText = Off /\
        reload = Off /\ call = Off /\ idp = Off /\ rotations = Off /\ keys = Off /\
        expiresAt = Off /\ lastAttempt = Off /\ jwksUri = Off /\ lastError = Off /\
        inflight = Off /\ fetches = Off /\ hook = Off /\ ctx = Off /\ check = Off /\
        read = Off /\ text = Off /\ isTransformed = Off /\ results = Off /\ deny = Off /\
        drifted = Off /\ invalid = Off /\ posts = Off /\ shown = Off
  \/ /\ unit = "pull" /\ Pulled!Init
     /\ config = Off /\ fileCache = Off /\ store = Off /\ caller = Off /\ now = Off /\
        simple = Off /\ entries = Off /\ partitions = Off /\ totalBytes = Off /\
        seq = Off /\ req = Off /\ begun = Off /\ platform = Off /\ sinks = Off /\
        request = Off /\ events = Off /\ spans = Off /\ lines = Off /\ scheduled = Off /\
        waitingForDrain = Off /\ written = Off /\ lineDrops = Off /\ logQueue = Off /\
        logTimer = Off /\ logFlights = Off /\ logDelivered = Off /\ logDropped = Off /\
        spanQueue = Off /\ spanTimer = Off /\ spanFlights = Off /\ spanDelivered = Off /\
        spanDropped = Off /\ phase = Off /\ late = Off /\ drainer = Off /\ up = Off /\
        data = Off /\ timer = Off /\ saves = Off /\ ops = Off /\ crashes = Off /\
        spoilt = Off /\ idp = Off /\ rotations = Off /\ keys = Off /\ expiresAt = Off /\
        lastAttempt = Off /\ jwksUri = Off /\ lastError = Off /\ inflight = Off /\
        fetches = Off /\ hook = Off /\ ctx = Off /\ check = Off /\ read = Off /\
        text = Off /\ isTransformed = Off /\ results = Off /\ deny = Off /\
        drifted = Off /\ invalid = Off /\ posts = Off /\ shown = Off
  \/ /\ unit = "local" /\ Local!Init
     /\ config = Off /\ fileCache = Off /\ store = Off /\ caller = Off /\ now = Off /\
        simple = Off /\ entries = Off /\ partitions = Off /\ totalBytes = Off /\
        seq = Off /\ req = Off /\ begun = Off /\ platform = Off /\ sinks = Off /\
        request = Off /\ events = Off /\ spans = Off /\ lines = Off /\ scheduled = Off /\
        waitingForDrain = Off /\ written = Off /\ lineDrops = Off /\ logQueue = Off /\
        logTimer = Off /\ logFlights = Off /\ logDelivered = Off /\ logDropped = Off /\
        spanQueue = Off /\ spanTimer = Off /\ spanFlights = Off /\ spanDelivered = Off /\
        spanDropped = Off /\ phase = Off /\ late = Off /\ drainer = Off /\ up = Off /\
        data = Off /\ timer = Off /\ saves = Off /\ ops = Off /\ crashes = Off /\
        spoilt = Off /\ idp = Off /\ rotations = Off /\ keys = Off /\ expiresAt = Off /\
        lastAttempt = Off /\ jwksUri = Off /\ lastError = Off /\ inflight = Off /\
        fetches = Off /\ hook = Off /\ ctx = Off /\ check = Off /\ read = Off /\
        text = Off /\ isTransformed = Off /\ results = Off /\ deny = Off /\
        drifted = Off /\ invalid = Off /\ posts = Off /\ shown = Off
  \/ /\ unit = "keys" /\ Jwks!Init
     /\ config = Off /\ fileCache = Off /\ store = Off /\ caller = Off /\ simple = Off /\
        entries = Off /\ partitions = Off /\ totalBytes = Off /\ seq = Off /\ req = Off /\
        begun = Off /\ platform = Off /\ sinks = Off /\ events = Off /\ spans = Off /\
        lines = Off /\ scheduled = Off /\ waitingForDrain = Off /\ written = Off /\
        lineDrops = Off /\ logQueue = Off /\ logTimer = Off /\ logFlights = Off /\
        logDelivered = Off /\ logDropped = Off /\ spanQueue = Off /\ spanTimer = Off /\
        spanFlights = Off /\ spanDelivered = Off /\ spanDropped = Off /\ phase = Off /\
        late = Off /\ drainer = Off /\ up = Off /\ data = Off /\ file = Off /\
        timer = Off /\ saves = Off /\ ops = Off /\ crashes = Off /\ spoilt = Off /\
        served = Off /\ edits = Off /\ active = Off /\ failing = Off /\ rejected = Off /\
        pull = Off /\ serving = Off /\ failures = Off /\ fileEdits = Off /\ loaded = Off /\
        badText = Off /\ reload = Off /\ call = Off /\ hook = Off /\ ctx = Off /\
        check = Off /\ read = Off /\ text = Off /\ isTransformed = Off /\ results = Off /\
        deny = Off /\ drifted = Off /\ invalid = Off /\ posts = Off /\ shown = Off
  \/ /\ unit = "hooks" /\ AllKinds!Init
     /\ config = Off /\ fileCache = Off /\ store = Off /\ caller = Off /\ now = Off /\
        simple = Off /\ entries = Off /\ partitions = Off /\ totalBytes = Off /\
        seq = Off /\ req = Off /\ begun = Off /\ platform = Off /\ sinks = Off /\
        request = Off /\ spans = Off /\ lines = Off /\ scheduled = Off /\
        waitingForDrain = Off /\ written = Off /\ lineDrops = Off /\ logQueue = Off /\
        logTimer = Off /\ logFlights = Off /\ logDelivered = Off /\ logDropped = Off /\
        spanQueue = Off /\ spanTimer = Off /\ spanFlights = Off /\ spanDelivered = Off /\
        spanDropped = Off /\ phase = Off /\ late = Off /\ drainer = Off /\ up = Off /\
        data = Off /\ file = Off /\ timer = Off /\ saves = Off /\ ops = Off /\
        crashes = Off /\ spoilt = Off /\ served = Off /\ edits = Off /\ active = Off /\
        failing = Off /\ rejected = Off /\ pull = Off /\ serving = Off /\ failures = Off /\
        fileEdits = Off /\ loaded = Off /\ badText = Off /\ reload = Off /\ call = Off /\
        idp = Off /\ rotations = Off /\ keys = Off /\ expiresAt = Off /\
        lastAttempt = Off /\ jwksUri = Off /\ lastError = Off /\ inflight = Off /\
        fetches = Off /\ drifted = Off /\ invalid = Off /\ posts = Off /\ shown = Off
  \/ /\ unit = "parallel" /\ Parallel!Init
     /\ config = Off /\ fileCache = Off /\ store = Off /\ caller = Off /\ now = Off /\
        simple = Off /\ entries = Off /\ partitions = Off /\ totalBytes = Off /\
        seq = Off /\ req = Off /\ begun = Off /\ platform = Off /\ sinks = Off /\
        request = Off /\ spans = Off /\ lines = Off /\ scheduled = Off /\
        waitingForDrain = Off /\ written = Off /\ lineDrops = Off /\ logQueue = Off /\
        logTimer = Off /\ logFlights = Off /\ logDelivered = Off /\ logDropped = Off /\
        spanQueue = Off /\ spanTimer = Off /\ spanFlights = Off /\ spanDelivered = Off /\
        spanDropped = Off /\ phase = Off /\ late = Off /\ drainer = Off /\ up = Off /\
        data = Off /\ file = Off /\ timer = Off /\ saves = Off /\ ops = Off /\
        crashes = Off /\ spoilt = Off /\ served = Off /\ edits = Off /\ active = Off /\
        failing = Off /\ rejected = Off /\ pull = Off /\ serving = Off /\ failures = Off /\
        fileEdits = Off /\ loaded = Off /\ badText = Off /\ reload = Off /\ call = Off /\
        idp = Off /\ rotations = Off /\ keys = Off /\ expiresAt = Off /\
        lastAttempt = Off /\ jwksUri = Off /\ lastError = Off /\ inflight = Off /\
        fetches = Off /\ drifted = Off /\ invalid = Off /\ posts = Off /\ shown = Off
  \/ /\ unit = "serial" /\ OneHook!Init
     /\ config = Off /\ fileCache = Off /\ store = Off /\ caller = Off /\ now = Off /\
        simple = Off /\ entries = Off /\ partitions = Off /\ totalBytes = Off /\
        seq = Off /\ req = Off /\ begun = Off /\ platform = Off /\ sinks = Off /\
        request = Off /\ spans = Off /\ lines = Off /\ scheduled = Off /\
        waitingForDrain = Off /\ written = Off /\ lineDrops = Off /\ logQueue = Off /\
        logTimer = Off /\ logFlights = Off /\ logDelivered = Off /\ logDropped = Off /\
        spanQueue = Off /\ spanTimer = Off /\ spanFlights = Off /\ spanDelivered = Off /\
        spanDropped = Off /\ phase = Off /\ late = Off /\ drainer = Off /\ up = Off /\
        data = Off /\ file = Off /\ timer = Off /\ saves = Off /\ ops = Off /\
        crashes = Off /\ spoilt = Off /\ served = Off /\ edits = Off /\ active = Off /\
        failing = Off /\ rejected = Off /\ pull = Off /\ serving = Off /\ failures = Off /\
        fileEdits = Off /\ loaded = Off /\ badText = Off /\ reload = Off /\ call = Off /\
        idp = Off /\ rotations = Off /\ keys = Off /\ expiresAt = Off /\
        lastAttempt = Off /\ jwksUri = Off /\ lastError = Off /\ inflight = Off /\
        fetches = Off /\ drifted = Off /\ invalid = Off /\ posts = Off /\ shown = Off
  \/ /\ unit = "mcp" /\ Mcp!Init
     /\ config = Off /\ fileCache = Off /\ store = Off /\ caller = Off /\ now = Off /\
        simple = Off /\ entries = Off /\ partitions = Off /\ totalBytes = Off /\
        seq = Off /\ begun = Off /\ platform = Off /\ sinks = Off /\ request = Off /\
        events = Off /\ spans = Off /\ lines = Off /\ scheduled = Off /\
        waitingForDrain = Off /\ written = Off /\ lineDrops = Off /\ logQueue = Off /\
        logTimer = Off /\ logFlights = Off /\ logDelivered = Off /\ logDropped = Off /\
        spanQueue = Off /\ spanTimer = Off /\ spanFlights = Off /\ spanDelivered = Off /\
        spanDropped = Off /\ phase = Off /\ late = Off /\ drainer = Off /\ up = Off /\
        data = Off /\ file = Off /\ timer = Off /\ saves = Off /\ ops = Off /\
        crashes = Off /\ spoilt = Off /\ served = Off /\ edits = Off /\ active = Off /\
        failing = Off /\ rejected = Off /\ pull = Off /\ serving = Off /\ failures = Off /\
        fileEdits = Off /\ loaded = Off /\ badText = Off /\ reload = Off /\ call = Off /\
        idp = Off /\ rotations = Off /\ keys = Off /\ expiresAt = Off /\
        lastAttempt = Off /\ jwksUri = Off /\ lastError = Off /\ inflight = Off /\
        fetches = Off /\ hook = Off /\ ctx = Off /\ check = Off /\ read = Off /\
        text = Off /\ isTransformed = Off /\ results = Off /\ deny = Off

Next ==
  \/ /\ unit = "aws" /\ Aws!Next
     /\ UNCHANGED <<unit, now, simple, entries, partitions, totalBytes, seq, req, begun,
                    platform, sinks, request, events, spans, lines, scheduled,
                    waitingForDrain, written, lineDrops, logQueue, logTimer, logFlights,
                    logDelivered, logDropped, spanQueue, spanTimer, spanFlights,
                    spanDelivered, spanDropped, phase, late, drainer, up, data, file,
                    timer, saves, ops, crashes, spoilt, served, edits, active, failing,
                    rejected, pull, serving, failures, fileEdits, loaded, badText, reload,
                    call, idp, rotations, keys, expiresAt, lastAttempt, jwksUri, lastError,
                    inflight, fetches, hook, ctx, check, read, text, isTransformed,
                    results, deny, drifted, invalid, posts, shown>>
  \/ /\ unit = "exact" /\ Exact!Next
     /\ UNCHANGED <<unit, config, fileCache, store, caller, platform, sinks, request,
                    events, spans, lines, scheduled, waitingForDrain, written, lineDrops,
                    logQueue, logTimer, logFlights, logDelivered, logDropped, spanQueue,
                    spanTimer, spanFlights, spanDelivered, spanDropped, phase, late,
                    drainer, up, data, file, timer, saves, ops, crashes, spoilt, served,
                    edits, active, failing, rejected, pull, serving, failures, fileEdits,
                    loaded, badText, reload, call, idp, rotations, keys, expiresAt,
                    lastAttempt, jwksUri, lastError, inflight, fetches, hook, ctx, check,
                    read, text, isTransformed, results, deny, drifted, invalid, posts,
                    shown>>
  \/ /\ unit = "semantic" /\ Semantic!Next
     /\ UNCHANGED <<unit, config, fileCache, store, caller, platform, sinks, request,
                    events, spans, lines, scheduled, waitingForDrain, written, lineDrops,
                    logQueue, logTimer, logFlights, logDelivered, logDropped, spanQueue,
                    spanTimer, spanFlights, spanDelivered, spanDropped, phase, late,
                    drainer, up, data, file, timer, saves, ops, crashes, spoilt, served,
                    edits, active, failing, rejected, pull, serving, failures, fileEdits,
                    loaded, badText, reload, call, idp, rotations, keys, expiresAt,
                    lastAttempt, jwksUri, lastError, inflight, fetches, hook, ctx, check,
                    read, text, isTransformed, results, deny, drifted, invalid, posts,
                    shown>>
  \/ /\ unit = "sinks" /\ Sinks!Next
     /\ UNCHANGED <<unit, config, fileCache, store, caller, now, simple, entries,
                    partitions, totalBytes, seq, req, begun, up, data, file, timer, saves,
                    ops, crashes, spoilt, served, edits, active, failing, rejected, pull,
                    serving, failures, fileEdits, loaded, badText, reload, call, idp,
                    rotations, keys, expiresAt, lastAttempt, jwksUri, lastError, inflight,
                    fetches, hook, ctx, check, read, text, isTransformed, results, deny,
                    drifted, invalid, posts, shown>>
  \/ /\ unit = "files" /\ Files!Next
     /\ UNCHANGED <<unit, config, fileCache, store, now, simple, entries, partitions,
                    totalBytes, seq, req, begun, platform, sinks, request, events, spans,
                    lines, scheduled, waitingForDrain, written, lineDrops, logQueue,
                    logTimer, logFlights, logDelivered, logDropped, spanQueue, spanTimer,
                    spanFlights, spanDelivered, spanDropped, phase, late, drainer, served,
                    edits, active, failing, rejected, pull, serving, failures, fileEdits,
                    loaded, badText, reload, call, idp, rotations, keys, expiresAt,
                    lastAttempt, jwksUri, lastError, inflight, fetches, hook, ctx, check,
                    read, text, isTransformed, results, deny, drifted, invalid, posts,
                    shown>>
  \/ /\ unit = "pull" /\ Pulled!Next
     /\ UNCHANGED <<unit, config, fileCache, store, caller, now, simple, entries,
                    partitions, totalBytes, seq, req, begun, platform, sinks, request,
                    events, spans, lines, scheduled, waitingForDrain, written, lineDrops,
                    logQueue, logTimer, logFlights, logDelivered, logDropped, spanQueue,
                    spanTimer, spanFlights, spanDelivered, spanDropped, phase, late,
                    drainer, up, data, timer, saves, ops, crashes, spoilt, idp, rotations,
                    keys, expiresAt, lastAttempt, jwksUri, lastError, inflight, fetches,
                    hook, ctx, check, read, text, isTransformed, results, deny, drifted,
                    invalid, posts, shown>>
  \/ /\ unit = "local" /\ Local!Next
     /\ UNCHANGED <<unit, config, fileCache, store, caller, now, simple, entries,
                    partitions, totalBytes, seq, req, begun, platform, sinks, request,
                    events, spans, lines, scheduled, waitingForDrain, written, lineDrops,
                    logQueue, logTimer, logFlights, logDelivered, logDropped, spanQueue,
                    spanTimer, spanFlights, spanDelivered, spanDropped, phase, late,
                    drainer, up, data, timer, saves, ops, crashes, spoilt, idp, rotations,
                    keys, expiresAt, lastAttempt, jwksUri, lastError, inflight, fetches,
                    hook, ctx, check, read, text, isTransformed, results, deny, drifted,
                    invalid, posts, shown>>
  \/ /\ unit = "keys" /\ Jwks!Next
     /\ UNCHANGED <<unit, config, fileCache, store, caller, simple, entries, partitions,
                    totalBytes, seq, req, begun, platform, sinks, events, spans, lines,
                    scheduled, waitingForDrain, written, lineDrops, logQueue, logTimer,
                    logFlights, logDelivered, logDropped, spanQueue, spanTimer,
                    spanFlights, spanDelivered, spanDropped, phase, late, drainer, up,
                    data, file, timer, saves, ops, crashes, spoilt, served, edits, active,
                    failing, rejected, pull, serving, failures, fileEdits, loaded, badText,
                    reload, call, hook, ctx, check, read, text, isTransformed, results,
                    deny, drifted, invalid, posts, shown>>
  \/ /\ unit = "hooks" /\ AllKinds!Next
     /\ UNCHANGED <<unit, config, fileCache, store, caller, now, simple, entries,
                    partitions, totalBytes, seq, req, begun, platform, sinks, request,
                    spans, lines, scheduled, waitingForDrain, written, lineDrops, logQueue,
                    logTimer, logFlights, logDelivered, logDropped, spanQueue, spanTimer,
                    spanFlights, spanDelivered, spanDropped, phase, late, drainer, up,
                    data, file, timer, saves, ops, crashes, spoilt, served, edits, active,
                    failing, rejected, pull, serving, failures, fileEdits, loaded, badText,
                    reload, call, idp, rotations, keys, expiresAt, lastAttempt, jwksUri,
                    lastError, inflight, fetches, drifted, invalid, posts, shown>>
  \/ /\ unit = "parallel" /\ Parallel!Next
     /\ UNCHANGED <<unit, config, fileCache, store, caller, now, simple, entries,
                    partitions, totalBytes, seq, req, begun, platform, sinks, request,
                    spans, lines, scheduled, waitingForDrain, written, lineDrops, logQueue,
                    logTimer, logFlights, logDelivered, logDropped, spanQueue, spanTimer,
                    spanFlights, spanDelivered, spanDropped, phase, late, drainer, up,
                    data, file, timer, saves, ops, crashes, spoilt, served, edits, active,
                    failing, rejected, pull, serving, failures, fileEdits, loaded, badText,
                    reload, call, idp, rotations, keys, expiresAt, lastAttempt, jwksUri,
                    lastError, inflight, fetches, drifted, invalid, posts, shown>>
  \/ /\ unit = "serial" /\ OneHook!Next
     /\ UNCHANGED <<unit, config, fileCache, store, caller, now, simple, entries,
                    partitions, totalBytes, seq, req, begun, platform, sinks, request,
                    spans, lines, scheduled, waitingForDrain, written, lineDrops, logQueue,
                    logTimer, logFlights, logDelivered, logDropped, spanQueue, spanTimer,
                    spanFlights, spanDelivered, spanDropped, phase, late, drainer, up,
                    data, file, timer, saves, ops, crashes, spoilt, served, edits, active,
                    failing, rejected, pull, serving, failures, fileEdits, loaded, badText,
                    reload, call, idp, rotations, keys, expiresAt, lastAttempt, jwksUri,
                    lastError, inflight, fetches, drifted, invalid, posts, shown>>
  \/ /\ unit = "mcp" /\ Mcp!Next
     /\ UNCHANGED <<unit, config, fileCache, store, caller, now, simple, entries,
                    partitions, totalBytes, seq, begun, platform, sinks, request, events,
                    spans, lines, scheduled, waitingForDrain, written, lineDrops, logQueue,
                    logTimer, logFlights, logDelivered, logDropped, spanQueue, spanTimer,
                    spanFlights, spanDelivered, spanDropped, phase, late, drainer, up,
                    data, file, timer, saves, ops, crashes, spoilt, served, edits, active,
                    failing, rejected, pull, serving, failures, fileEdits, loaded, badText,
                    reload, call, idp, rotations, keys, expiresAt, lastAttempt, jwksUri,
                    lastError, inflight, fetches, hook, ctx, check, read, text,
                    isTransformed, results, deny>>

Spec == Init /\ [][Next]_vars

-----------------------------------------------------------------------------
(* AwsCredentials and OidcKeys.  Without the operator's consent no answer  *)
(* is the host's own identity or was minted by it, however it came to be   *)
(* cached; a caller that named a role signs as that role or not at all;    *)
(* the cache never hands out expired credentials; and the identity         *)
(* provider sees at most one refresh per cooldown.                         *)
CredentialsAreOwn ==
  /\ unit = "aws" =>
       /\ Aws!TypeOK
       /\ Aws!AmbientNeedsConsent /\ Aws!RoleIsTheOneAsked /\ Aws!CredentialsAreLive
  /\ unit = "keys" => Jwks!TypeOK /\ Jwks!IdpIsSpared

(* ResponseCache and FileCache.  An answer from either cache was given to  *)
(* the same caller scope for the same request, whichever targets failed in *)
(* between; what the stores hold was a complete answer; a semantic hit is  *)
(* live and near, and its store keeps its bounds and its index; and when   *)
(* no save is pending, the file is what is in memory, unless the last      *)
(* write failed, overlapped another or was cut by a crash.                 *)
CachesAnswerTheirOwn ==
  /\ unit = "exact" => Exact!TypeOK /\ Exact!ServedInScope /\ Exact!StoredAnswers
  /\ unit = "semantic" =>
       /\ Semantic!TypeOK
       /\ Semantic!ServedInScope /\ Semantic!StoredAnswers
       /\ Semantic!IndexMatches /\ Semantic!SemanticHitIsLive
  /\ unit = "files" => Files!TypeOK /\ Files!SavedWhenQuiet

(* EventSinks.  Each event and span is in exactly one place of each sink,  *)
(* the batches in flight are bounded, in the shutdown as well, and an exit *)
(* that met its deadlines leaves no event behind.                          *)
SinksKeepEvents ==
  unit = "sinks" =>
    /\ Sinks!TypeOK
    /\ Sinks!EachRecordIsSomewhere /\ Sinks!SendsAreBounded /\ Sinks!GracefulExitKeepsEvents

(* Hooks, McpProxy and PolicyPull.  A request is denied exactly when a     *)
(* check of a hook that denies failed and no hook threw, in whatever order *)
(* hooks and checks finish, and the security events say so; what is        *)
(* rewritten is sent on and marked, and lost only to a rewriting that ran  *)
(* at the same time.  An MCP response reaches the client only where it was *)
(* checked, a call to a tool is decided by one list, the last that shows   *)
(* it or one that overlaps that, and a finished request is recorded once.  *)
(* A policy that does not parse is never in force.                         *)
VerdictsHold ==
  /\ unit = "hooks" =>
       /\ AllKinds!TypeOK
       /\ AllKinds!DenyFollowsTheChecks /\ AllKinds!EventsTellTheOutcome
       /\ AllKinds!LostOnlyToOverlap /\ AllKinds!RewrittenIsMarked
  /\ unit = "parallel" =>
       /\ Parallel!TypeOK
       /\ Parallel!DenyFollowsTheChecks /\ Parallel!EventsTellTheOutcome
       /\ Parallel!LostOnlyToOverlap /\ Parallel!RewrittenIsMarked
  /\ unit = "serial" =>
       /\ OneHook!TypeOK
       /\ OneHook!DenyFollowsTheChecks /\ OneHook!EventsTellTheOutcome
       /\ OneHook!LostOnlyToOverlap /\ OneHook!RewrittenIsMarked
  /\ unit = "mcp" =>
       /\ Mcp!TypeOK
       /\ Mcp!OnlyCheckedIsReleased /\ Mcp!PolicyFollowsTheLists /\ Mcp!RecordedOnce
  /\ unit = "pull" => Pulled!TypeOK /\ Pulled!LastGoodInForce
  /\ unit = "local" => Local!TypeOK /\ Local!LastGoodInForce

(* PolicyPull and OidcKeys.  Overlapping polls never put an earlier policy *)
(* in force; keys past their lifetime verify a token only while a refresh  *)
(* that failed is less than a cooldown old; and a published key is refused *)
(* only within a cooldown of its publication, or while the last refresh    *)
(* failed.                                                                 *)
LatestIsInForce ==
  [][/\ unit = "pull" => Pulled!InOrderStep
     /\ unit = "local" => Local!InOrderStep
     /\ unit = "keys" => Jwks!VerifiedByLiveKeys /\ Jwks!RefusedForARecentKey]_vars

-----------------------------------------------------------------------------
(* The callers of AwsCredentials, ResponseCache and OidcKeys are alike. *)
Symmetry == Permutations(Callers)

-----------------------------------------------------------------------------
\* The composition.

PolicyUnits ==
  /\ unit = "pull" => PolicyInv(Bundles, {})
  /\ unit = "local" => PolicyInv(LocalBundles, Texts)

KeyUnit == unit = "keys" => KeyInv

\* A unit's step, as the composition makes it.
LEMMA PolicyUnitsStep ==
  ASSUME PolicyUnits, [Next]_vars
  PROVE  /\ unit' = unit
         /\ unit = "pull" => PolicyStepIsSafe(Bundles, {})
         /\ unit = "local" => PolicyStepIsSafe(LocalBundles, Texts)
  <1>1. unit' = unit
    BY DEF Next, vars
  <1>2. ASSUME unit = "pull"  PROVE PolicyStepIsSafe(Bundles, {})
    <2>1. CASE Pulled!Next
      BY <1>2, <2>1, PulledStep DEF PolicyUnits
    <2>2. CASE UNCHANGED vars
      BY <1>2, <2>2, PoliciesAlone DEF PolicyUnits, vars
    <2> QED
      BY <1>2, <2>1, <2>2 DEF Next
  <1>3. ASSUME unit = "local"  PROVE PolicyStepIsSafe(LocalBundles, Texts)
    <2>1. CASE Local!Next
      BY <1>3, <2>1, LocalStep DEF PolicyUnits
    <2>2. CASE UNCHANGED vars
      BY <1>3, <2>2, PoliciesAlone DEF PolicyUnits, vars
    <2> QED
      BY <1>3, <2>1, <2>2 DEF Next
  <1> QED
    BY <1>1, <1>2, <1>3

LEMMA KeyUnitStep ==
  ASSUME KeyUnit, [Next]_vars, unit = "keys"
  PROVE  KeyStepIsSafe
  <1>1. CASE Jwks!Next
    BY <1>1, KeysStep DEF KeyUnit
  <1>2. CASE UNCHANGED vars
    BY <1>2, KeysStutter DEF KeyUnit, vars, Jwks!vars, Jwks!source
  <1> QED
    BY <1>1, <1>2 DEF Next

\* The policy in force and what the pulls and reloads under way have read:
\* one pull and one reload at a time, neither older than what is in force.
THEOREM PolicyUnitsAreInvariant == Spec => []PolicyUnits
  <1>1. Init => PolicyUnits
    BY PulledInitially, LocalInitially DEF Init, PolicyUnits
  <1>2. PolicyUnits /\ [Next]_vars => PolicyUnits'
    BY PolicyUnitsStep DEF PolicyUnits, PolicyStepIsSafe
  <1> QED
    BY <1>1, <1>2, PTL DEF Spec

\* The key set, the refresh under way and the requests that wait for it.
THEOREM KeyUnitIsInvariant == Spec => []KeyUnit
  <1>1. Init => KeyUnit
    BY KeysInitially DEF Init, KeyUnit
  <1>2. KeyUnit /\ [Next]_vars => KeyUnit'
    <2> SUFFICES ASSUME KeyUnit, [Next]_vars, unit' = "keys"  PROVE KeyInv'
      BY DEF KeyUnit
    <2>1. unit = "keys"
      BY DEF Next, vars
    <2> QED
      BY <2>1, KeyUnitStep DEF KeyStepIsSafe
  <1> QED
    BY <1>1, <1>2, PTL DEF Spec

\* For every set of bundles, of texts and of overlapping pulls and reloads: a
\* policy in force is never replaced by an older one.  For every lifetime not
\* shorter than the cooldown and every rotation: expired keys verify a token
\* only within a cooldown of a refresh that spoilt, and a published key is
\* refused only within a cooldown of its publication or after a failed refresh
\* (pullOnce, reloadOnce, JwksSource).
THEOREM LatestStaysInForce == Spec => LatestIsInForce
  <1>1. PolicyUnits /\ KeyUnit /\ [Next]_vars =>
          [/\ unit = "pull" => Pulled!InOrderStep
           /\ unit = "local" => Local!InOrderStep
           /\ unit = "keys" => Jwks!VerifiedByLiveKeys /\ Jwks!RefusedForARecentKey]_vars
    BY PolicyUnitsStep, KeyUnitStep DEF PolicyStepIsSafe, KeyStepIsSafe
  <1> QED
    BY <1>1, PolicyUnitsAreInvariant, KeyUnitIsInvariant, PTL DEF Spec, LatestIsInForce

AwsUnit == unit = "aws" => AwsInv

\* What is cached and every resolution under way: trusted, live, and of the role
\* that was asked for.
THEOREM AwsUnitIsInvariant == Spec => []AwsUnit
  <1>1. Init => AwsUnit
    BY AwsInitially DEF Init, AwsUnit
  <1>2. AwsUnit /\ [Next]_vars => AwsUnit'
    <2> SUFFICES ASSUME AwsUnit, [Next]_vars, unit' = "aws"  PROVE AwsInv'
      BY DEF AwsUnit
    <2>1. unit = "aws"
      BY DEF Next, vars
    <2>2. CASE Aws!Next
      BY <2>1, <2>2, AwsStep DEF AwsUnit
    <2>3. CASE UNCHANGED vars
      BY <2>1, <2>3, AwsStutter DEF AwsUnit, vars
    <2> QED
      BY <2>1, <2>2, <2>3 DEF Next
  <1> QED
    BY <1>1, <1>2, PTL DEF Spec

\* For every number of callers, every set of roles and every host: without the
\* operator's consent no answer is the host's own identity or was minted by it,
\* a caller that named a role signs as that role or not at all, and no expired
\* credential is handed out; the identity provider sees at most one refresh per
\* cooldown (getAwsCredentials, JwksSource).
THEOREM CredentialsStayOwn == Spec => []CredentialsAreOwn
  <1>1. AwsUnit /\ KeyUnit => CredentialsAreOwn
    BY AwsIsSafe, KeysAreSafe DEF AwsUnit, KeyUnit, CredentialsAreOwn
  <1> QED
    BY <1>1, AwsUnitIsInvariant, KeyUnitIsInvariant, PTL

SinkUnit == unit = "sinks" => SinksInv

\* Every event and span of each sink in one place; the shutdown.
THEOREM SinkUnitIsInvariant == Spec => []SinkUnit
  <1>1. Init => SinkUnit
    BY SinksInitially DEF Init, SinkUnit
  <1>2. SinkUnit /\ [Next]_vars => SinkUnit'
    <2> SUFFICES ASSUME SinkUnit, [Next]_vars, unit' = "sinks"  PROVE SinksInv'
      BY DEF SinkUnit
    <2>1. unit = "sinks"
      BY DEF Next, vars
    <2>2. CASE Sinks!Next
      BY <2>1, <2>2, SinksStep DEF SinkUnit
    <2>3. CASE UNCHANGED vars
      BY <2>1, <2>3, SinksStutter DEF SinkUnit, vars
    <2> QED
      BY <2>1, <2>2, <2>3 DEF Next
  <1> QED
    BY <1>1, <1>2, PTL DEF Spec

\* For every number of requests, every queue, batch and slot count, and whatever
\* was under way when the signal came: each event and each span is, in each sink,
\* waiting, being sent, out or counted as dropped, and never two of these; the
\* batches in flight never exceed their slots; and an exit that met its deadlines
\* leaves nothing behind (otlp.ts, psOtel.ts, psSecurityEvents/index.ts,
\* psShutdown.ts, start-server.ts).
THEOREM NoEventIsLost == Spec => []SinksKeepEvents
  <1>1. SinkUnit => SinksKeepEvents
    BY SinksAreSafe DEF SinkUnit, SinksKeepEvents
  <1> QED
    BY <1>1, SinkUnitIsInvariant, PTL
=============================================================================
