---------------------------- MODULE OtlpExporter ----------------------------
(***************************************************************************)
(* A batched OTLP/HTTP exporter of the gateway: OtlpLogsExporter           *)
(* (gateway/src/middlewares/psSecurityEvents/otlp.ts) and, with more slots *)
(* than it can fill, OtlpJsonExporter (gateway/src/middlewares/psOtel.ts). *)
(* The module that owns an exporter instantiates this one.                 *)
(*                                                                         *)
(* Records are numbered; a batch in flight is the set of its records.      *)
(***************************************************************************)
EXTENDS Naturals, Sequences, FiniteSets, Functions

CONSTANTS MaxQueue,     \* config.maxQueue
          MaxBatch,     \* config.maxBatch
          MaxInFlight   \* MAX_IN_FLIGHT

VARIABLES queue,      \* this.queue
          timer,      \* this.timer is set
          flights,    \* this.sending: the batches being sent
          delivered,  \* ghost: records of a batch that was answered with 2xx
          dropped     \* ghost: records telemetryDroppedTotal has counted

ExporterInit ==
    /\ queue = << >> /\ timer = FALSE /\ flights = {}
    /\ delivered = {} /\ dropped = {}

-----------------------------------------------------------------------------
Least(a, b) == IF a <= b THEN a ELSE b

\* How many records of q a flush takes, and the batches it makes of them:
\* full ones, as long as there is a free slot.
Taken(q) == Least(Len(q), MaxBatch * (MaxInFlight - Cardinality(flights)))
BatchesOf(s) ==
    {Range(SubSeq(s, i * MaxBatch + 1, Least((i + 1) * MaxBatch, Len(s)))) :
        i \in {j \in 0..Len(s) : j * MaxBatch < Len(s)}}

\* flush: the timer is cleared, what no slot is free for stays queued.
FlushOf(q) ==
    /\ flights' = flights \cup BatchesOf(SubSeq(q, 1, Taken(q)))
    /\ queue' = SubSeq(q, Taken(q) + 1, Len(q))
    /\ timer' = FALSE

Flush == FlushOf(queue) /\ UNCHANGED <<delivered, dropped>>

\* enqueue: the oldest record makes room, counted as queue_full.  With
\* waitUntil the queue is flushed at once, else when a batch is full.
Enqueue(e, atOnce) ==
    LET longer == Append(queue, e)
        q == IF Len(longer) > MaxQueue THEN Tail(longer) ELSE longer IN
    /\ dropped' = dropped \cup (Range(longer) \ Range(q))
    /\ UNCHANGED delivered
    /\ IF atOnce \/ Len(q) >= MaxBatch
         THEN FlushOf(q)
         ELSE queue' = q /\ timer' = TRUE /\ UNCHANGED flights

TimerFires == timer /\ Flush

\* The end of send: a refused or failed batch is counted, never retried, and
\* the records that waited for the slot go out with the next timer.
SendEnds(batch, ok) ==
    /\ batch \in flights
    /\ flights' = flights \ {batch}
    /\ IF ok THEN delivered' = delivered \cup batch /\ UNCHANGED dropped
             ELSE dropped' = dropped \cup batch /\ UNCHANGED delivered
    /\ timer' = (timer \/ queue # << >>)
    /\ UNCHANGED queue

-----------------------------------------------------------------------------
\* Where a record can be.
InFlight == UNION flights
Queued == Range(queue)
=============================================================================
