------------------------- MODULE TelemetryPipeline -------------------------
(***************************************************************************)
(* The asyncio TelemetrySender composed with the collector that receives   *)
(* its batches: several flush tasks of one sender, requests that are       *)
(* answered, refused, answered too late or never, and the collector's      *)
(* loss-accounting row.  Between two awaits a task runs alone, so a step   *)
(* of the sender is what a task does from one await to the next.           *)
(***************************************************************************)
EXTENDS TelemetryCore, FiniteSets, TLC

(***************************************************************************)
(* The collector's loss accounting: one TelemetryClientStats row of a      *)
(* client that sends batch metadata, what a stored and what a refused      *)
(* batch do to it, and the gap GET /telemetry/loss reports from it.        *)
(***************************************************************************)
REJECTIONS == {"rate_limited", "write_failed", "unstorable"}

ClientStats == [ received_events    : Nat,
                 last_seq           : Nat,
                 sdk_enqueued_total : Nat,
                 sdk_dropped        : [DROP_REASONS -> Nat],
                 collector_rejected : [REJECTIONS -> Nat] ]

\* _locked_row inserts the row on first use.
NewRow == [ received_events    |-> 0,
            last_seq           |-> 0,
            sdk_enqueued_total |-> 0,
            sdk_dropped        |-> NoDrops,
            collector_rejected |-> [r \in REJECTIONS |-> 0] ]

\* Mutant: the request handled last has the last word.
MutRecordReceivedAnyOrder(row, meta, received) ==
    [row EXCEPT !.received_events = @ + received,
                !.last_seq = meta.seq,
                !.sdk_enqueued_total = meta.enqueued_total,
                !.sdk_dropped = meta.dropped]

\* record_received, in the transaction that stores the events.  A late retry
\* of an older batch does not replace the client's cumulative figures.
RecordReceived(row, meta, received) ==
    LET counted == [row EXCEPT !.received_events = @ + received]
    IN  IF meta.seq > row.last_seq
        THEN [counted EXCEPT !.last_seq = meta.seq,
                             !.sdk_enqueued_total = meta.enqueued_total,
                             !.sdk_dropped = meta.dropped]
        ELSE counted

\* record_rejected, in a transaction of its own, which may fail: the row is
\* then left as it was and the caller never hears of it.
RecordRejected(row, events, reason) ==
    {row, [row EXCEPT !.collector_rejected[reason] = @ + events]}

\* The gap of _summary: queued, says the client, but neither arrived nor
\* reported dropped.
SdkDroppedTotal(row) ==
    row.sdk_dropped["buffer_overflow"] + row.sdk_dropped["send_failed"] +
    row.sdk_dropped["rate_limited"] + row.sdk_dropped["server_skipped"] +
    row.sdk_dropped["shutdown"]

Unaccounted(row) ==
    LET gap == row.sdk_enqueued_total - row.received_events - SdkDroppedTotal(row)
    IN  IF row.last_seq > 0 /\ gap > 0 THEN gap ELSE 0
-----------------------------------------------------------------------------
(***************************************************************************)
(* The sender and the collector.                                           *)
(***************************************************************************)
CONSTANTS
    Tasks,       \* asyncio tasks that call flush()
    Closer,      \* the task that calls close()
    Unstorable,  \* events the collector's database cannot hold
    MaxEvents,   \* bound: events enqueued
    MaxRequests, \* bound: requests sent
    MaxFailures  \* bound: refusals, failed writes, timeouts and cancellations

ASSUME PipelineAssumption ==
    /\ IsFiniteSet(Tasks) /\ Closer \notin Tasks
    /\ Unstorable \subseteq Nat
    /\ MaxEvents \in Nat /\ MaxRequests \in Nat /\ MaxFailures \in Nat

Flushing == Tasks \cup {Closer}

VARIABLES
    sender,    \* see TelemetryCore
    waiting,   \* per task: the seq of the request it awaits, 0 when in no flush
    chunk,     \* per task: the chunk in that request
    rest,      \* per task: drained events of its later chunks
    closing,   \* close() has begun
    net,       \* requests that are out, with the collector's answer
    row,       \* the collector's TelemetryClientStats row
    \* What the properties look at; the code has none of these.
    stored,    \* events the collector has stored
    abandoned, \* events a cancelled task took with it
    budget     \* what is left of MaxFailures

clientVars == <<sender, waiting, chunk, rest, closing>>
vars == <<clientVars, net, row, stored, abandoned, budget>>

Elements(q) == {q[i] : i \in 1 .. Len(q)}
Storable(events) == Elements(events) \ Unstorable

\* late: nobody waits for the answer any more.
Statuses == {"sent", "late", "200", "429", "500"}
RequestOK(r) ==
    /\ DOMAIN r = {"meta", "events", "status"}
    /\ r.meta.seq \in 1 .. MaxRequests
    /\ r.events \in Seq(1 .. MaxEvents) /\ r.events # << >>
    /\ r.status \in Statuses

\* Types; the buffer never exceeds MAX_BUFFER_SIZE, and a task holds a chunk
\* exactly while it awaits a request.
TypeOK ==
    /\ sender \in Sender /\ Len(sender.buffer) <= Capacity
    /\ waiting \in [Flushing -> 0 .. MaxRequests]
    /\ chunk \in [Flushing -> Seq(1 .. MaxEvents)]
    /\ rest \in [Flushing -> Seq(1 .. MaxEvents)]
    /\ \A t \in Flushing : (waiting[t] = 0) = (chunk[t] = << >>)
    /\ closing \in BOOLEAN
    /\ \A r \in net : RequestOK(r)
    /\ row \in ClientStats
    /\ stored \subseteq 1 .. MaxEvents /\ abandoned \subseteq 1 .. MaxEvents
    /\ budget \in 0 .. MaxFailures

Init ==
    /\ sender = NewSender
    /\ waiting = [t \in Flushing |-> 0]
    /\ chunk = [t \in Flushing |-> << >>]
    /\ rest = [t \in Flushing |-> << >>]
    /\ closing = FALSE
    /\ net = {}
    /\ row = NewRow
    /\ stored = {} /\ abandoned = {}
    /\ budget = MaxFailures

Spend == budget > 0 /\ budget' = budget - 1

-----------------------------------------------------------------------------
\* The sender.

EnqueueEvent ==
    /\ sender.enqueued < MaxEvents
    /\ sender' = Enqueue(sender, sender.enqueued + 1)
    /\ UNCHANGED <<waiting, chunk, rest, closing, net, row, stored, abandoned, budget>>

\* Task t builds the request for the next chunk of `events` and awaits it; s
\* is the sender so far in this step, out the requests that are out.
Launch(t, s, events, out) ==
    /\ s.seq < MaxRequests
    /\ \E n \in ChunkSizes(events) :
         LET numbered == Numbered(s)
             first    == FirstOf(events, n)
         IN  /\ sender' = numbered
             /\ net' = out \cup {[meta |-> Metadata(numbered), events |-> first, status |-> "sent"]}
             /\ waiting' = [waiting EXCEPT ![t] = numbered.seq]
             /\ chunk' = [chunk EXCEPT ![t] = first]
             /\ rest' = [rest EXCEPT ![t] = AfterFirst(events, n)]

\* Task t is done with its flush.  For close() the sender is then closed and
\* what is left in the buffer counted.
Finish(t, s, out) ==
    /\ sender' = IF t = Closer THEN AccountShutdown(s) ELSE s
    /\ net' = out
    /\ waiting' = [waiting EXCEPT ![t] = 0]
    /\ chunk' = [chunk EXCEPT ![t] = << >>]
    /\ rest' = [rest EXCEPT ![t] = << >>]

\* Once close() has closed the HTTP client a request raises without an await,
\* so that all of `events` is back in the buffer.  The numbers _payload gives
\* these requests are left out: none of them is ever sent.
RaisedAtOnce(s, events) == HandleFailed(s, events)

\* After a reply: the next chunk, or the end of the flush.
Proceed(t, s, out) ==
    IF rest[t] = << >>
    THEN Finish(t, s, out)
    ELSE IF s.closed
    THEN Finish(t, RaisedAtOnce(s, rest[t]), out)
    ELSE Launch(t, s, rest[t], out)

\* flush(), up to its first await.
StartFlush(t) ==
    /\ waiting[t] = 0
    /\ MaySend(sender) /\ ~sender.closed
    /\ Launch(t, Taken(sender), sender.buffer, net)
    /\ UNCHANGED <<closing, row, stored, abandoned, budget>>

\* flush() of a closed sender.
FlushClosed(t) ==
    /\ waiting[t] = 0
    /\ sender.closed /\ MaySend(sender)
    /\ sender' = RaisedAtOnce(Taken(sender), sender.buffer)
    /\ UNCHANGED <<waiting, chunk, rest, closing, net, row, stored, abandoned, budget>>

\* close(): the final flush ignores a back-off.
StartClose ==
    /\ ~closing /\ closing' = TRUE
    /\ LET s == IgnoreBackoff(sender)
       IN  IF s.buffer = << >>
           THEN Finish(Closer, s, net)
           ELSE Launch(Closer, Taken(s), s.buffer, net)
    /\ UNCHANGED <<row, stored, abandoned, budget>>

Awaited(t, r) == waiting[t] # 0 /\ r.meta.seq = waiting[t]

\* A 200.  The collector's body has no "skipped": nothing is counted skipped.
ReplyOk(t) ==
    /\ \E r \in net :
          /\ Awaited(t, r) /\ r.status = "200"
          /\ Proceed(t, HandleOk(sender, chunk[t], 0), net \ {r})
    /\ UNCHANGED <<closing, row, stored, abandoned, budget>>

\* A 429: this chunk and, with no await in between, the later ones go back.
ReplyLimited(t) ==
    /\ \E r \in net, wait \in BOOLEAN :
          /\ Awaited(t, r) /\ r.status = "429"
          /\ Finish(t, Rebuffer(HandleLimited(sender, chunk[t], wait), rest[t]), net \ {r})
    /\ UNCHANGED <<closing, row, stored, abandoned, budget>>

\* Any other status.
ReplyFailed(t) ==
    /\ \E r \in net :
          /\ Awaited(t, r) /\ r.status = "500"
          /\ Proceed(t, HandleFailed(sender, chunk[t]), net \ {r})
    /\ UNCHANGED <<closing, row, stored, abandoned, budget>>

\* A request nobody waits for: its answer, if there is one, is lost.
Orphaned(r) ==
    (net \ {r}) \cup (IF r.status = "sent" THEN {[r EXCEPT !.status = "late"]} ELSE {})

\* The client's timeout or a broken connection, before or after the collector
\* has handled the request.
TimeOut(t) ==
    /\ Spend
    /\ \E r \in net :
          /\ Awaited(t, r)
          /\ Proceed(t, HandleFailed(sender, chunk[t]), Orphaned(r))
    /\ UNCHANGED <<closing, row, stored, abandoned>>

\* The task is cancelled in the await: CancelledError is no Exception, so
\* neither handler runs and what the task holds is gone.
Cancel(t) ==
    /\ t # Closer
    /\ Spend
    /\ \E r \in net : Awaited(t, r) /\ net' = Orphaned(r)
    /\ abandoned' = abandoned \cup Elements(chunk[t]) \cup Elements(rest[t])
    /\ waiting' = [waiting EXCEPT ![t] = 0]
    /\ chunk' = [chunk EXCEPT ![t] = << >>]
    /\ rest' = [rest EXCEPT ![t] = << >>]
    /\ UNCHANGED <<sender, closing, row, stored>>

BackoffEnds ==
    /\ sender.backing_off
    /\ sender' = IgnoreBackoff(sender)
    /\ UNCHANGED <<waiting, chunk, rest, closing, net, row, stored, abandoned, budget>>

-----------------------------------------------------------------------------
\* POST /ingest/events.  The row is locked by each transaction, so requests
\* of the client may be handled in any order but not interleaved on it.

Pending(r) == r.status \in {"sent", "late"}
Answered(r, status) ==
    (net \ {r}) \cup (IF r.status = "sent" THEN {[r EXCEPT !.status = status]} ELSE {})

\* Stored and counted in one transaction; what cannot be stored is left out and
\* counted as rejected, in another.  A batch with nothing left is not counted.
Ingest ==
    /\ \E r \in net :
          /\ Pending(r)
          /\ LET kept    == Storable(r.events)
                 skipped == Len(r.events) - Cardinality(kept)
                 counted == IF kept = {} THEN row ELSE RecordReceived(row, r.meta, Cardinality(kept))
             IN  /\ stored' = stored \cup kept
                 /\ row' \in IF skipped = 0 THEN {counted}
                             ELSE RecordRejected(counted, skipped, "unstorable")
          /\ net' = Answered(r, "200")
    /\ UNCHANGED <<clientVars, abandoned, budget>>

Refused(r, reason) ==
    LET events == Cardinality(Storable(r.events))
    IN  IF events = 0 THEN {row} ELSE RecordRejected(row, events, reason)

\* Over the tenant's rate limit.
IngestLimited ==
    /\ Spend
    /\ \E r \in net : /\ Pending(r)
                      /\ row' \in Refused(r, "rate_limited")
                      /\ net' = Answered(r, "429")
    /\ UNCHANGED <<clientVars, stored, abandoned>>

\* Mutant: a failed transaction is answered with a 200.
MutIngestFailsQuietly ==
    /\ Spend
    /\ \E r \in net : /\ Pending(r)
                      /\ row' \in Refused(r, "write_failed")
                      /\ net' = Answered(r, "200")
    /\ UNCHANGED <<clientVars, stored, abandoned>>

\* The transaction fails and is rolled back, counters included.
IngestFails ==
    /\ Spend
    /\ \E r \in net : /\ Pending(r)
                      /\ row' \in Refused(r, "write_failed")
                      /\ net' = Answered(r, "500")
    /\ UNCHANGED <<clientVars, stored, abandoned>>

Next ==
    \/ EnqueueEvent
    \/ \E t \in Tasks : StartFlush(t) \/ FlushClosed(t) \/ Cancel(t)
    \/ StartClose
    \/ \E t \in Flushing : ReplyOk(t) \/ ReplyLimited(t) \/ ReplyFailed(t) \/ TimeOut(t)
    \/ BackoffEnds
    \/ Ingest \/ IngestLimited \/ IngestFails

Spec == Init /\ [][Next]_vars

-----------------------------------------------------------------------------
\* Properties.

InFlight == UNION {Elements(chunk[t]) \cup Elements(rest[t]) : t \in Flushing}
HeldBySender == Elements(sender.buffer) \cup InFlight
InFlightCount ==
    Cardinality(UNION {{t} \X (1 .. Len(chunk[t]) + Len(rest[t])) : t \in Flushing})

\* The counters add up over concurrent flushes and close(): every event is sent,
\* dropped under a reason, buffered, in some task's flush, or was taken along
\* by a cancelled task.
Balance ==
    sender.enqueued = sender.sent + DroppedTotal(sender) + Len(sender.buffer)
                      + InFlightCount + Cardinality(abandoned)

\* End to end: an event that is neither stored by the collector nor held by
\* the sender any more is one the sender counts as dropped, or one of the two
\* known exceptions (a cancelled flush, an event the database cannot hold).
NothingLostSilently ==
    Cardinality({e \in 1 .. sender.enqueued :
                    e \notin stored \cup HeldBySender \cup abandoned \cup Unstorable})
        <= DroppedTotal(sender)

\* record_received: "a late retry of an older batch must not roll them back".
\* Whatever the order requests are handled in, no figure a client reported ever
\* goes down.
FiguresNeverRollBack ==
    [][/\ row'.last_seq >= row.last_seq
       /\ row'.sdk_enqueued_total >= row.sdk_enqueued_total
       /\ \A d \in DROP_REASONS : row'.sdk_dropped[d] >= row.sdk_dropped[d]
       /\ row'.received_events >= row.received_events]_row

\* The reported gap means something: everything the collector has stored is
\* below the total it reports as enqueued, and what it reports as unaccounted
\* are events it really does not have.
GapIsReal ==
    /\ stored \subseteq 1 .. row.sdk_enqueued_total
    /\ Unaccounted(row) <= Cardinality(1 .. row.sdk_enqueued_total \ stored)

-----------------------------------------------------------------------------
(* For TLC: the flush tasks are interchangeable. *)
Symmetry == Permutations(Tasks)
=============================================================================
