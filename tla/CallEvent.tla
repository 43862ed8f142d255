----------------------------- MODULE CallEvent -----------------------------
(***************************************************************************)
(* The telemetry event and the metrics of one gateway call.  The handlers  *)
(* note every upstream attempt and the target that served it on the        *)
(* request (psAttempts.ts, psServedTarget.ts); psTelemetry builds the      *)
(* event once the response exists, psMetrics, mounted outside it, counts   *)
(* the same response, and both wait for one summary of a streamed answer   *)
(* (SSEUsageTracker).  psBudget refuses a call before psTelemetry runs and *)
(* sends that call's event itself.                                         *)
(*                                                                         *)
(* Counts are small naturals and Absent where a body does not report them; *)
(* a price is its source.  The races of the stream's ending are those of   *)
(* StreamRelay, the framing of its lines that of StreamFraming.            *)
(***************************************************************************)
EXTENDS Integers, Sequences, FiniteSets, FiniteSetsExt, SequencesExt

CONSTANTS
  Providers,      \* the targets a call may try
  Bodies,         \* what a JSON body or a line of a stream may report
  MaxAttempts,    \* bound: upstream calls of one request
  MaxRecords,     \* MAX_ATTEMPT_RECORDS
  MaxLines,       \* bound: data lines of a stream
  MaxStopReasons, \* MAX_STOP_REASONS
  None

Absent == -1

VARIABLES
  req,       \* the request: what it is, its provider header, whether it was routed
  pc,        \* the middleware that runs next
  attempts,  \* psAttempts: the recorded attempts
  count,     \* psAttemptCount
  served,    \* psServedTarget
  calls,     \* the upstream calls made: target and outcome, in order
  res,       \* the response the handlers produced
  tracker,   \* SSEUsageTracker of a streamed response
  lines,     \* the data lines that passed through it
  ending,    \* how the stream ended
  draft,     \* the event psTelemetry has built for a stream still running
  events,    \* what was sent to the collector
  metrics    \* tokens, stream outcomes, cost counted by psMetrics

vars == <<req, pc, attempts, count, served, calls, res, tracker, lines, ending,
          draft, events, metrics>>

----------------------------------------------------------------------------
(* What a request and its answers look like.                               *)

GenerationKinds == {"chat", "cancel"}
Kinds == GenerationKinds \cup {"embeddings", "mcp", "feedback"}
IsCall(kind) == kind \notin {"mcp", "feedback"}
reportsOwnUsage(kind) == kind # "cancel"

TruncatedReasons == {"length"}
RefusalReasons == {"content_filter"}

ErrorClasses == {"timeout", "rate_limited", "server_error", "client_error", "network_error"}
Outcomes == {"ok"} \cup ErrorClasses

NoTracker == [input |-> Absent, read |-> Absent, write |-> Absent,
              tokensIn |-> Absent, tokensOut |-> Absent, cached |-> Absent,
              cost |-> Absent, stops |-> <<>>, refusal |-> FALSE, terminal |-> FALSE]

NoMetrics == [tokensIn |-> 0, tokensOut |-> 0, outcome |-> None, costs |-> 0]

Max0(n) == IF n = Absent THEN 0 ELSE n
Or(a, b) == IF a # Absent THEN a ELSE b

----------------------------------------------------------------------------
(* Usage of a body.                                                        *)

inputTokensOf(prompt, input, read, write) ==
  IF prompt # Absent THEN prompt
  ELSE IF input = Absent THEN Absent
  ELSE input + Max0(read) + Max0(write)

TokensIn(u) == inputTokensOf(u.prompt, u.input, u.read, u.write)
Cached(u) == Or(u.cached, u.read)

UsageOf(body) ==
  IF body.usage = None
  THEN [tokensIn |-> Absent, tokensOut |-> Absent, cached |-> Absent, cost |-> Absent]
  ELSE [tokensIn |-> TokensIn(body.usage), tokensOut |-> body.usage.output,
        cached |-> Cached(body.usage), cost |-> body.usage.cost]

\* usage: the latest reported value of each count wins; a line that
\* reports a prompt total overrides, one that does not is added up from
\* the latest parts.
TrackUsage(t, u) ==
  LET input == Or(u.input, t.input)
      read == Or(u.read, t.read)
      write == Or(u.write, t.write)
      details == [t EXCEPT !.cached = Or(Cached(u), @), !.cost = Or(u.cost, @),
                           !.tokensOut = Or(u.output, @)]
  IN  IF u.prompt # Absent THEN [details EXCEPT !.tokensIn = u.prompt]
      ELSE [details EXCEPT
              !.input = input, !.read = read, !.write = write,
              !.tokensIn = IF input = Absent THEN @
                           ELSE inputTokensOf(Absent, input, read, write)]

\* line: one data line of the stream.
TrackLine(t, body) ==
  LET counted == IF body.usage = None THEN t ELSE TrackUsage(t, body.usage)
      fresh == SelectSeq(body.stops, LAMBDA r : ~Contains(t.stops, r))
      room == MaxStopReasons - Len(t.stops)
  IN  [counted EXCEPT
         !.stops = @ \o SubSeq(fresh, 1, Min({room, Len(fresh)})),
         !.refusal = @ \/ body.refusal,
         !.terminal = @ \/ body.terminal]

----------------------------------------------------------------------------
(* The parts of the event.                                                 *)

fallbackChainOf(recs) ==
  LET failed == SelectSeq(recs, LAMBDA a : a.class # "ok")
  IN  [i \in DOMAIN failed |-> failed[i].class]

outcomeSignals(stops, refusal, chain, truncated, cancelled) ==
  (IF chain # <<>> THEN {"fallback"} ELSE {})
  \cup (IF ToSet(stops) \cap TruncatedReasons # {} THEN {"max_tokens"} ELSE {})
  \cup (IF refusal \/ ToSet(stops) \cap RefusalReasons # {} THEN {"refusal"} ELSE {})
  \cup (IF cancelled THEN {"abandoned"} ELSE IF truncated THEN {"stream_error"} ELSE {})

\* withCost: a provider's own cost is kept, a call whose usage is known is
\* priced from the table, any other stays unmetered.
CostSource(e) ==
  IF e.cost # Absent THEN "provider_reported"
  ELSE IF Absent \notin {e.tokensIn, e.tokensOut} THEN "pricing_table"
  ELSE None

CacheHit == res.cache = "HIT"

\* priced: withCacheHit or withCost.
Priced(e) ==
  IF CacheHit
  THEN [e EXCEPT !.source = "cache", !.saved = CostSource(e) # None]
  ELSE [e EXCEPT !.source = CostSource(e)]

\* recordCost: a cost above zero is counted.
CostCounted(e) == e.source \in {"provider_reported", "pricing_table"}

\* servedFields: the recorded target, else the request's own provider.
ServedProvider == IF served # None THEN served ELSE req.vendor

BlankEvent == [blocked |-> FALSE, tokensIn |-> Absent, tokensOut |-> Absent,
               cached |-> Absent, cost |-> Absent, source |-> None, saved |-> FALSE,
               provider |-> None, retries |-> 0, chain |-> <<>>, cache |-> None,
               stream |-> FALSE, truncated |-> FALSE, cancelled |-> FALSE,
               signals |-> None]

\* The event psTelemetry builds after the handlers returned.
BuiltEvent ==
  LET own == IF reportsOwnUsage(req.kind) /\ res.type = "json"
             THEN UsageOf(res.body) ELSE UsageOf([usage |-> None])
  IN  [BlankEvent EXCEPT
         !.tokensIn = own.tokensIn, !.tokensOut = own.tokensOut,
         !.cached = IF req.zeroFilled /\ own.cached = 0 THEN Absent ELSE own.cached,
         !.cost = own.cost, !.provider = ServedProvider,
         !.retries = IF attempts = <<>> THEN 0
                     ELSE Max({count, Len(attempts)}) - 1,
         !.chain = fallbackChainOf(attempts),
         !.cache = IF res.cache = "DISABLED" THEN None ELSE res.cache]

Generation == req.kind \in GenerationKinds /\ ~CacheHit

Send(e) ==
  /\ events' = Append(events, e)
  /\ metrics' = [metrics EXCEPT !.costs = @ + (IF CostCounted(e) THEN 1 ELSE 0)]

----------------------------------------------------------------------------

Init ==
  /\ req \in [kind : Kinds, vendor : Providers \cup {None}, zeroFilled : BOOLEAN]
  /\ pc = "budget"
  /\ attempts = <<>> /\ count = 0 /\ served = None /\ calls = <<>>
  /\ res = [type |-> None, cache |-> "DISABLED", body |-> None]
  /\ tracker = NoTracker /\ lines = <<>> /\ ending = None /\ draft = None
  /\ events = <<>> /\ metrics = NoMetrics

\* psBudget answers 429 or 503 itself; psTelemetry never sees the call.
BudgetBlocked ==
  /\ pc = "budget" /\ IsCall(req.kind)
  /\ pc' = "metrics"
  /\ events' = Append(events, [BlankEvent EXCEPT !.blocked = TRUE])
  /\ res' = [type |-> "other", cache |-> "DISABLED", body |-> None]
  /\ UNCHANGED <<req, attempts, count, served, calls, tracker, lines, ending, draft, metrics>>

BudgetAdmits ==
  /\ pc = "budget"
  /\ pc' = "handlers"
  /\ UNCHANGED <<req, attempts, count, served, calls, res, tracker, lines, ending,
                 draft, events, metrics>>

\* recordAttempt: past the cap an attempt is only counted.
recordAttempt(p, o) ==
  /\ count' = (IF count # 0 THEN count ELSE Len(attempts)) + 1
  /\ attempts' =
       IF Len(attempts) >= MaxRecords THEN attempts
       ELSE Append(attempts, [attempt |-> count', provider |-> p, class |-> o])

\* Mutant: an attempt counts as served whatever was answered.
MutRecordServed(p, o) == served' = p

\* recordServedTarget, after an attempt with a 2xx answer.
RecordServed(p, o) == served' = IF o = "ok" THEN p ELSE served

\* One upstream call of the retry loop or the failover walk.  A 2xx answer
\* may be followed by another call (a guardrail denied it).
Attempt(p, o) ==
  /\ pc = "handlers" /\ req.kind # "feedback" /\ Len(calls) < MaxAttempts
  /\ calls' = Append(calls, [provider |-> p, outcome |-> o])
  /\ recordAttempt(p, o)
  /\ RecordServed(p, o)
  /\ UNCHANGED <<req, pc, res, tracker, lines, ending, draft, events, metrics>>

\* The handlers return: an answer of the cache, which a client that asked for
\* a stream gets replayed as one, of the last attempt, or of the gateway itself.
Respond(type, cache, body) ==
  /\ pc = "handlers"
  /\ type = "sse" /\ cache # "HIT" =>
       /\ req.kind \notin {"cancel", "feedback"}
       /\ calls # <<>> /\ Last(calls).outcome = "ok"
  /\ cache = "HIT" => type = "json" \/ (type = "sse" /\ req.kind = "chat")
  /\ type = "json" <=> body # None
  /\ res' = [type |-> type, cache |-> cache, body |-> body]
  /\ pc' = IF IsCall(req.kind) THEN "telemetry" ELSE "metrics"
  /\ UNCHANGED <<req, attempts, count, served, calls, tracker, lines, ending, draft,
                 events, metrics>>

\* psTelemetry after next(): the event of a stream waits for its summary.
psTelemetry ==
  /\ pc = "telemetry"
  /\ pc' = "metrics"
  /\ IF res.type = "sse"
     THEN draft' = BuiltEvent /\ UNCHANGED <<events, metrics>>
     ELSE /\ Send(Priced([BuiltEvent EXCEPT
                    !.signals =
                      IF ~Generation THEN None
                      ELSE IF res.type = "json"
                      THEN outcomeSignals(res.body.stops, res.body.refusal, BuiltEvent.chain,
                                          FALSE, FALSE)
                      ELSE outcomeSignals(<<>>, FALSE, BuiltEvent.chain, FALSE, FALSE)]))
          /\ UNCHANGED draft
  /\ UNCHANGED <<req, attempts, count, served, calls, res, tracker, lines, ending>>

CountTokens(tin, tout) ==
  [metrics EXCEPT !.tokensIn = @ + Max0(tin), !.tokensOut = @ + Max0(tout)]

\* psMetrics after next().
psMetrics ==
  /\ pc = "metrics"
  /\ pc' = IF res.type = "sse" /\ req.kind # "mcp" THEN "stream" ELSE "done"
  /\ metrics' =
       IF req.kind = "mcp" \/ res.type # "json" \/ ~reportsOwnUsage(req.kind) THEN metrics
       ELSE CountTokens(UsageOf(res.body).tokensIn, UsageOf(res.body).tokensOut)
  /\ UNCHANGED <<req, attempts, count, served, calls, res, tracker, lines, ending, draft, events>>

Observed == pc = "stream" /\ ending = None

\* A data line on its way to the client.
StreamLine(body) ==
  /\ Observed /\ Len(lines) < MaxLines
  /\ lines' = Append(lines, body)
  /\ tracker' = TrackLine(tracker, body)
  /\ UNCHANGED <<req, pc, attempts, count, served, calls, res, ending, draft, events, metrics>>

\* finish: the upstream ended or failed, or the client left.
StreamEnds(how) ==
  /\ Observed
  /\ ending' = how
  /\ UNCHANGED <<req, pc, attempts, count, served, calls, res, tracker, lines, draft,
                 events, metrics>>

Truncated == ending \in {"ended", "errored"} /\ ~tracker.terminal
Cancelled == ending = "cancelled"

\* withStreamSummary and streamOutcome.
Folded ==
  [draft EXCEPT
     !.stream = TRUE, !.tokensIn = Or(tracker.tokensIn, @),
     !.tokensOut = Or(tracker.tokensOut, @),
     !.cached = IF req.zeroFilled /\ tracker.cached = 0 THEN @ ELSE Or(tracker.cached, @),
     !.cost = Or(tracker.cost, @), !.truncated = Truncated, !.cancelled = Cancelled,
     !.signals = IF Generation
                 THEN outcomeSignals(tracker.stops, tracker.refusal, draft.chain,
                                     Truncated, Cancelled)
                 ELSE None]

\* The summary resolves: psTelemetry's and psMetrics' continuations run.
SummaryResolves ==
  /\ pc = "stream" /\ ending # None
  /\ pc' = "done"
  /\ LET e == Priced(Folded)
         counted == CountTokens(tracker.tokensIn, tracker.tokensOut)
     IN  /\ events' = Append(events, e)
         /\ metrics' = [counted EXCEPT
                          !.outcome = IF Cancelled THEN "cancelled"
                                      ELSE IF Truncated THEN "truncated" ELSE "complete",
                          !.costs = @ + (IF CostCounted(e) THEN 1 ELSE 0)]
  /\ draft' = None
  /\ UNCHANGED <<req, attempts, count, served, calls, res, tracker, lines, ending>>

Done == pc = "done" /\ UNCHANGED vars

Next ==
  \/ BudgetBlocked \/ BudgetAdmits
  \/ \E p \in Providers, o \in Outcomes : Attempt(p, o)
  \/ \E type \in {"json", "sse", "other"}, cache \in {"DISABLED", "MISS", "HIT"},
        body \in Bodies \cup {None} : Respond(type, cache, body)
  \/ psTelemetry \/ psMetrics
  \/ \E body \in Bodies : StreamLine(body)
  \/ \E how \in {"ended", "errored", "cancelled"} : StreamEnds(how)
  \/ SummaryResolves
  \/ Done

Spec == Init /\ [][Next]_vars

----------------------------------------------------------------------------
(* Properties.                                                             *)

\* What one call through the gateway leaves behind, step by step.
TypeOK ==
  /\ req.kind \in Kinds /\ req.vendor \in Providers \cup {None}
  /\ pc \in {"budget", "handlers", "telemetry", "metrics", "stream", "done"}
  /\ count \in 0..MaxAttempts /\ Len(attempts) <= MaxRecords
  /\ ending \in {None, "ended", "errored", "cancelled"}
  /\ Len(tracker.stops) <= MaxStopReasons
  /\ metrics.costs \in 0..1

\* psTelemetry "emits one telemetry event per request" and a refused call
\* sends its own: whatever path a call takes it is reported exactly once,
\* and MCP and feedback requests never.
OneEventPerCall ==
  /\ Len(events) <= 1
  /\ pc = "done" => Len(events) = (IF IsCall(req.kind) THEN 1 ELSE 0)

Sent == events[1]
Reported == events # <<>> /\ ~events[1].blocked

\* What the event says of the attempts agrees with the calls made, also past
\* the cap on records: all are counted, the recorded ones are the first, and
\* the fallback chain has the failed ones of these in order.
AttemptsAddUp ==
  Reported =>
    LET kept == SubSeq(calls, 1, Min({MaxRecords, Len(calls)}))
    IN  /\ Sent.retries = (IF calls = <<>> THEN 0 ELSE Len(calls) - 1)
        /\ Sent.chain = [i \in DOMAIN SelectSeq(kept, LAMBDA k : k.outcome # "ok") |->
                           SelectSeq(kept, LAMBDA k : k.outcome # "ok")[i].outcome]

\* served_provider is the target of the last attempt that succeeded, not of
\* a later one that failed.
ServedIsLastSuccess ==
  Reported =>
    LET good == SelectSeq(calls, LAMBDA k : k.outcome = "ok")
    IN  Sent.provider = IF good = <<>> THEN req.vendor ELSE Last(good).provider

\* The last usage any line reported for a field, Absent if none did.
Latest(field) ==
  LET told == SelectSeq(lines, LAMBDA b : b.usage # None /\ b.usage[field] # Absent)
  IN  IF told = <<>> THEN Absent ELSE Last(told).usage[field]

\* A stream's counts are cumulative and come in pieces: the event has the
\* latest output count and, where no line gave a prompt total, the sum of
\* the latest input, cache read and cache write counts.
StreamUsageIsLatest ==
  (Reported /\ Sent.stream) =>
    /\ Sent.tokensOut = Latest("output")
    /\ (Latest("prompt") = Absent /\ Latest("input") # Absent) =>
         Sent.tokensIn = Latest("input") + Max0(Latest("read")) + Max0(Latest("write"))
    /\ (Latest("input") = Absent) => Sent.tokensIn = Latest("prompt")

\* The collector and Prometheus are told the same: tokens, the stream's
\* outcome and whether the call had a cost.
MetricsAgree ==
  (Reported /\ pc = "done") =>
    /\ metrics.tokensIn = Max0(Sent.tokensIn)
    /\ metrics.tokensOut = Max0(Sent.tokensOut)
    /\ metrics.costs = (IF Sent.source \in {None, "cache"} THEN 0 ELSE 1)
    /\ Sent.stream => metrics.outcome = (IF Sent.cancelled THEN "cancelled"
                                         ELSE IF Sent.truncated THEN "truncated"
                                         ELSE "complete")

\* A stream the client left is abandoned and never a stream error, one that
\* the upstream cut off is an error exactly when no terminal event passed.
SignalsTellTheEnding ==
  (Reported /\ Sent.stream) =>
    LET terminal == \E i \in DOMAIN lines : lines[i].terminal
    IN  Sent.signals # None =>
        /\ ("abandoned" \in Sent.signals) = (ending = "cancelled")
        /\ ("stream_error" \in Sent.signals) = (ending # "cancelled" /\ ~terminal)

\* A cache hit is no model call, replayed as a stream or not: it has cost
\* source cache, is not counted as a cost and carries no outcome signals,
\* those belong to the call that filled the cache.  What it saved is told
\* when the answer's usage is known, and a replay that the client leaves or
\* that breaks is marked so.
HitsAreFree ==
  (Reported /\ Sent.cache = "HIT") =>
    /\ Sent.source = "cache" /\ Sent.signals = None /\ metrics.costs = 0
    /\ Sent.saved <=> Sent.cost # Absent \/ Absent \notin {Sent.tokensIn, Sent.tokensOut}
    /\ Sent.stream => /\ Sent.cancelled = (ending = "cancelled")
                      /\ Sent.truncated => \A i \in DOMAIN lines : ~lines[i].terminal

\* A refused call reports no usage, cost or provider, and the upstream was
\* not called for it.
BlockedCallsNobody ==
  (events # <<>> /\ events[1].blocked) => calls = <<>> /\ metrics.costs = 0
=============================================================================
