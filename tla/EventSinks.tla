----------------------------- MODULE EventSinks -----------------------------
(***************************************************************************)
(* Where the gateway's security events and spans go, and what the shutdown *)
(* of the Node server does with them: the non-blocking line writer         *)
(* (psSecurityEvents/index.ts), the two OTLP exporters, the drain of the   *)
(* HTTP server (psShutdown.ts) and the signal handler (start-server.ts).   *)
(*                                                                         *)
(* A request is answered with a refusal that is a security event, with a   *)
(* 429 of a spend budget (which is none) or normally (an LLM call, which   *)
(* has a span).  The event or span of a request carries its number.        *)
(***************************************************************************)
EXTENDS Naturals, Sequences, FiniteSets, Functions

CONSTANTS MaxRequests,  \* bound: requests of a behaviour
          MaxLines,     \* MAX_QUEUE
          LogQueue, LogBatch, LogSlots,   \* OtlpLogsExporter
          SpanQueue, SpanBatch,           \* OtlpJsonExporter
          SinkConfigs,  \* sets of sinks that are on: "lines", "logs", "spans"
          Outcomes,     \* how requests end: "refused", "budget", "called"
          Platforms     \* "node" or "workers"

Requests == 1..MaxRequests

VARIABLES platform, sinks, request, events, spans,
          lines, scheduled, waitingForDrain, written, lineDrops,
          logQueue, logTimer, logFlights, logDelivered, logDropped,
          spanQueue, spanTimer, spanFlights, spanDelivered, spanDropped,
          phase,    \* of the process
          late,     \* which deadlines of the shutdown passed
          drainer   \* where flushSecurityLogsExporter's drain() is

config == <<platform, sinks>>
lineVars == <<lines, scheduled, waitingForDrain, written, lineDrops>>
logVars == <<logQueue, logTimer, logFlights, logDelivered, logDropped>>
spanVars == <<spanQueue, spanTimer, spanFlights, spanDelivered, spanDropped>>
requestVars == <<request, events, spans>>
shutdownVars == <<phase, late, drainer>>
vars == <<config, requestVars, lineVars, logVars, spanVars, shutdownVars>>

Logs == INSTANCE OtlpExporter WITH
    MaxQueue <- LogQueue, MaxBatch <- LogBatch, MaxInFlight <- LogSlots,
    queue <- logQueue, timer <- logTimer, flights <- logFlights,
    delivered <- logDelivered, dropped <- logDropped

\* psOtel's exporter puts no limit on the batches in flight.
Spans == INSTANCE OtlpExporter WITH
    MaxQueue <- SpanQueue, MaxBatch <- SpanBatch, MaxInFlight <- MaxRequests + 1,
    queue <- spanQueue, timer <- spanTimer, flights <- spanFlights,
    delivered <- spanDelivered, dropped <- spanDropped

NotDraining == [at |-> "idle", of |-> {}]

\* A line is an event's, and is waiting, written or counted as dropped.
TypeOK ==
    /\ request \in [Requests -> {"new", "open", "answered", "closed", "turned_away"}]
    /\ events \subseteq Requests /\ spans \subseteq Requests
    /\ Range(lines) \cup written \cup lineDrops \subseteq events
    /\ Len(lines) <= MaxLines
    /\ scheduled \in BOOLEAN /\ waitingForDrain \in BOOLEAN
    /\ Logs!Queued \cup Logs!InFlight \cup logDelivered \cup logDropped \subseteq events
    /\ Spans!Queued \cup Spans!InFlight \cup spanDelivered \cup spanDropped \subseteq spans
    /\ logTimer \in BOOLEAN /\ spanTimer \in BOOLEAN
    /\ phase \in {"serving", "draining", "telemetry", "logs", "exited", "killed"}
    /\ late \subseteq {"http", "logs"}
    /\ drainer.at \in {"idle", "top", "awaiting", "racing", "done"}

Init ==
    /\ platform \in Platforms /\ sinks \in SinkConfigs
    /\ request = [r \in Requests |-> "new"] /\ events = {} /\ spans = {}
    /\ lines = << >> /\ scheduled = FALSE /\ waitingForDrain = FALSE
    /\ written = {} /\ lineDrops = {}
    /\ Logs!ExporterInit /\ Spans!ExporterInit
    /\ phase = "serving" /\ late = {} /\ drainer = NotDraining

Alive == phase \notin {"exited", "killed"}

-----------------------------------------------------------------------------
\* wrapFetch: a request that arrives while draining gets a 503.
Arrive(r) ==
    /\ Alive
    /\ request[r] = "new" /\ \A q \in 1..(r - 1) : request[q] # "new"
    /\ request' = [request EXCEPT ![r] =
                     IF phase = "serving" THEN "open" ELSE "turned_away"]
    /\ UNCHANGED <<config, events, spans, lineVars, logVars, spanVars, shutdownVars>>

\* schedule: one setImmediate at a time, none while the stream is full.
Schedule == scheduled' = (scheduled \/ ~waitingForDrain)

\* enqueue of the line writer: the oldest line makes room, counted.
WriteLine(e) ==
    LET longer == Append(lines, e)
        q == IF Len(longer) > MaxLines THEN Tail(longer) ELSE longer IN
    /\ lines' = q
    /\ lineDrops' = lineDrops \cup (Range(longer) \ Range(q))
    /\ Schedule
    /\ UNCHANGED <<waitingForDrain, written>>

\* enqueue: the event goes to each sink that is on.  On Workers waitUntil
\* keeps an immediate flush alive.
Report(e) ==
    /\ IF "logs" \in sinks THEN Logs!Enqueue(e, platform = "workers") ELSE UNCHANGED logVars
    /\ IF "lines" \in sinks THEN WriteLine(e) ELSE UNCHANGED lineVars

\* psOtel's middleware, after the handler or after the observed stream.
EmitSpan(r) ==
    /\ IF "spans" \in sinks THEN Spans!Enqueue(r, platform = "workers") ELSE UNCHANGED spanVars
    /\ spans' = IF "spans" \in sinks THEN spans \cup {r} ELSE spans

\* A refusal is reported; a budget's 429 only counts in a metric.
Answer(r, outcome) ==
    /\ Alive /\ request[r] = "open"
    /\ request' = [request EXCEPT ![r] = "answered"]
    /\ IF outcome = "refused"
         THEN events' = events \cup {r} /\ Report(r)
         ELSE UNCHANGED <<events, lineVars, logVars>>
    /\ IF outcome = "called" THEN EmitSpan(r) ELSE UNCHANGED <<spans, spanVars>>
    /\ UNCHANGED <<config, shutdownVars>>

Close(r) ==
    /\ Alive /\ request[r] = "answered"
    /\ request' = [request EXCEPT ![r] = "closed"]
    /\ UNCHANGED <<config, events, spans, lineVars, logVars, spanVars, shutdownVars>>

-----------------------------------------------------------------------------
\* flushSecurityEvents: the whole queue in one write; a write that returns
\* false suspends the writer until 'drain', one that throws is counted.
FlushSecurityEvents(force, result) ==
    IF (waitingForDrain /\ ~force) \/ lines = << >>
    THEN UNCHANGED <<lines, waitingForDrain, written, lineDrops>>
    ELSE /\ lines' = << >>
         /\ waitingForDrain' = (waitingForDrain \/ result = "full")
         /\ IF result = "throws"
              THEN lineDrops' = lineDrops \cup Range(lines) /\ UNCHANGED written
              ELSE written' = written \cup Range(lines) /\ UNCHANGED lineDrops

WriteResults == {"ok", "full", "throws"}

Immediate(result) ==
    /\ Alive /\ scheduled
    /\ scheduled' = FALSE
    /\ FlushSecurityEvents(FALSE, result)
    /\ UNCHANGED <<config, requestVars, logVars, spanVars, shutdownVars>>

\* The stream's 'drain' event.
StreamDrains ==
    /\ Alive /\ waitingForDrain
    /\ waitingForDrain' = FALSE /\ scheduled' = TRUE
    /\ UNCHANGED <<lines, written, lineDrops>>
    /\ UNCHANGED <<config, requestVars, logVars, spanVars, shutdownVars>>

LogTimer ==
    /\ Alive /\ Logs!TimerFires
    /\ UNCHANGED <<config, requestVars, lineVars, spanVars, shutdownVars>>

LogSent(batch, ok) ==
    /\ Alive /\ Logs!SendEnds(batch, ok)
    /\ UNCHANGED <<config, requestVars, lineVars, spanVars, shutdownVars>>

SpanTimer ==
    /\ Alive /\ Spans!TimerFires
    /\ UNCHANGED <<config, requestVars, lineVars, logVars, shutdownVars>>

SpanSent(batch, ok) ==
    /\ Alive /\ Spans!SendEnds(batch, ok)
    /\ UNCHANGED <<config, requestVars, lineVars, logVars, shutdownVars>>

-----------------------------------------------------------------------------
\* The first SIGTERM or SIGINT starts the drain; Workers have no process.
Signal ==
    /\ platform = "node" /\ phase = "serving"
    /\ phase' = "draining"
    /\ UNCHANGED <<config, requestVars, lineVars, logVars, spanVars, late, drainer>>

\* A second signal exits at once.
Kill ==
    /\ phase \in {"draining", "telemetry", "logs"}
    /\ phase' = "killed"
    /\ UNCHANGED <<config, requestVars, lineVars, logVars, spanVars, late, drainer>>

\* server.close calls back when no connection is left.
Drained ==
    /\ phase = "draining"
    /\ \A r \in Requests : request[r] \notin {"open", "answered"}
    /\ phase' = "telemetry"
    /\ UNCHANGED <<config, requestVars, lineVars, logVars, spanVars, late, drainer>>

\* The deadline closes what is still open: the handlers go on regardless.
DrainDeadline ==
    /\ phase = "draining"
    /\ \E r \in Requests : request[r] \in {"open", "answered"}
    /\ phase' = "telemetry" /\ late' = late \cup {"http"}
    /\ UNCHANGED <<config, requestVars, lineVars, logVars, spanVars, drainer>>

\* Both telemetry senders have shut down (within their own deadline).
TelemetryFlushed ==
    /\ phase = "telemetry"
    /\ phase' = "logs" /\ drainer' = [NotDraining EXCEPT !.at = "top"]
    /\ UNCHANGED <<config, requestVars, lineVars, logVars, spanVars, late>>

\* drain(): while records are queued or batches in flight, flush.
DrainLoop ==
    /\ phase = "logs" /\ drainer.at = "top"
    /\ IF logQueue = << >> /\ logFlights = {}
         THEN drainer' = [at |-> "done", of |-> {}] /\ UNCHANGED logVars
         ELSE Logs!Flush /\ drainer' = [at |-> "awaiting", of |-> logFlights' \ logFlights]
    /\ UNCHANGED <<config, requestVars, lineVars, spanVars, phase, late>>

\* The flush's own batches are awaited, then the first of any other.
DrainAwaits ==
    /\ phase = "logs"
    /\ \/ /\ drainer.at = "awaiting" /\ drainer.of \cap logFlights = {}
          /\ drainer' = IF logFlights = {} THEN [at |-> "top", of |-> {}]
                        ELSE [at |-> "racing", of |-> logFlights]
       \/ /\ drainer.at = "racing" /\ ~(drainer.of \subseteq logFlights)
          /\ drainer' = [at |-> "top", of |-> {}]
    /\ UNCHANGED <<config, requestVars, lineVars, logVars, spanVars, phase, late>>

\* Mutant: the last lines are written as at any other time.
MutExit(result) ==
    /\ phase = "logs"
    /\ late' = IF drainer.at = "done" THEN late ELSE late \cup {"logs"}
    /\ phase' = "exited"
    /\ FlushSecurityEvents(FALSE, result)
    /\ UNCHANGED <<config, requestVars, scheduled, logVars, spanVars, drainer>>

\* drain() is over or its three seconds are: the last lines are written even
\* to a full stream, and the process exits.
Exit(result) ==
    /\ phase = "logs"
    /\ late' = IF drainer.at = "done" THEN late ELSE late \cup {"logs"}
    /\ phase' = "exited"
    /\ FlushSecurityEvents(TRUE, result)
    /\ UNCHANGED <<config, requestVars, scheduled, logVars, spanVars, drainer>>

\* The process is gone, or a quiet server waits for requests.
Quiet ==
    /\ ~Alive \/ (\A r \in Requests : request[r] \in {"closed", "turned_away"})
    /\ UNCHANGED vars

Next ==
    \/ \E r \in Requests : Arrive(r) \/ Close(r) \/ \E o \in Outcomes : Answer(r, o)
    \/ \E result \in WriteResults : Immediate(result) \/ Exit(result)
    \/ StreamDrains \/ LogTimer \/ SpanTimer
    \/ \E batch \in logFlights, ok \in BOOLEAN : LogSent(batch, ok)
    \/ \E batch \in spanFlights, ok \in BOOLEAN : SpanSent(batch, ok)
    \/ Signal \/ Kill \/ Drained \/ DrainDeadline \/ TelemetryFlushed
    \/ DrainLoop \/ DrainAwaits \/ Quiet

Spec == Init /\ [][Next]_vars

-----------------------------------------------------------------------------
\* Exactly one of the sets holds the record.
InExactlyOne(e, places) == Cardinality({i \in DOMAIN places : e \in places[i]}) = 1

\* Each event and span is, in each sink that is on, in exactly one place:
\* waiting, being sent, out, or counted as dropped.  A record is never sent in
\* two batches, never dropped without being counted and never counted though
\* it went out.
EachRecordIsSomewhere ==
    /\ "lines" \in sinks => \A e \in events :
          InExactlyOne(e, <<Range(lines), written, lineDrops>>)
    /\ "logs" \in sinks => \A e \in events :
          InExactlyOne(e, <<Logs!Queued, Logs!InFlight, logDelivered, logDropped>>)
    /\ \A e \in spans :
          InExactlyOne(e, <<Spans!Queued, Spans!InFlight, spanDelivered, spanDropped>>)

\* "At most MAX_IN_FLIGHT batches are in flight", also while the shutdown
\* drains and requests still report.
SendsAreBounded == Cardinality(logFlights) <= LogSlots

\* An exit that met its deadlines leaves no security event behind, whatever
\* was queued, in flight or waiting for the stream when the signal came; and
\* no exit but a second signal leaves a line unwritten.
GracefulExitKeepsEvents ==
    phase = "exited" =>
        /\ lines = << >>
        /\ late = {} => logQueue = << >> /\ logFlights = {}
=============================================================================
