--------------------------- MODULE TelemetryCore ---------------------------
(***************************************************************************)
(* The buffer and the loss counters of the Python SDK's TelemetrySender,   *)
(* and what each of its methods does to them, as operators on one record.  *)
(* BackgroundSender runs these methods from threads, TelemetryPipeline     *)
(* from asyncio tasks and against the collector.                           *)
(*                                                                         *)
(* An event is its number in the order of enqueueing; its content is never *)
(* looked at by the sender.  The clock of the 429 back-off is the Boolean  *)
(* backing_off, which the composing module lowers when the time is up.     *)
(***************************************************************************)
EXTENDS Integers, Sequences, SequenceTheorems, TLAPS

CONSTANTS
    Capacity,   \* MAX_BUFFER_SIZE
    MaxBatch,   \* max_batch
    BySize      \* TRUE when max_batch_bytes may also cut a chunk short

ASSUME CapacityAssumption == Capacity \in Nat \ {0}
ASSUME MaxBatchAssumption == MaxBatch \in Nat \ {0}
ASSUME BySizeAssumption == BySize \in BOOLEAN

DROP_REASONS ==
    {"buffer_overflow", "send_failed", "rate_limited", "server_skipped", "shutdown"}

\* _backlog_reason: why the buffer is backing up, "none" while sends succeed.
BacklogReasons == {"none", "send_failed", "rate_limited"}

Sender == [ buffer         : Seq(Nat),
            enqueued       : Nat,
            sent           : Nat,
            dropped        : [DROP_REASONS -> Nat],
            seq            : Nat,
            backlog_reason : BacklogReasons,
            backing_off    : BOOLEAN,
            closed         : BOOLEAN ]

NoDrops == [r \in DROP_REASONS |-> 0]

NewSender == [ buffer         |-> << >>,
               enqueued       |-> 0,
               sent           |-> 0,
               dropped        |-> NoDrops,
               seq            |-> 0,
               backlog_reason |-> "none",
               backing_off    |-> FALSE,
               closed         |-> FALSE ]

\* sum(dropped.values()) of stats().
DroppedTotal(s) ==
    s.dropped["buffer_overflow"] + s.dropped["send_failed"] +
    s.dropped["rate_limited"] + s.dropped["server_skipped"] + s.dropped["shutdown"]

-----------------------------------------------------------------------------
\* _append and the loops over it.

EvictReason(s) ==
    IF s.backlog_reason = "none" THEN "buffer_overflow" ELSE s.backlog_reason

\* Mutant: what is evicted is not counted.
MutRebufferUncounted(s, events) ==
    LET all  == s.buffer \o events
        over == IF Len(all) > Capacity THEN Len(all) - Capacity ELSE 0
    IN  [s EXCEPT !.buffer = SubSeq(all, over + 1, Len(all))]

\* Mutant: a full buffer goes on growing.
MutRebufferNeverEvicts(s, events) ==
    [s EXCEPT !.buffer = @ \o events]

\* _rebuffer: every event is appended, the front of a full buffer leaves and
\* is counted under the reason of the moment.  What one _append after the
\* other does is, in one step, to keep the last Capacity events.
Rebuffer(s, events) ==
    LET all  == s.buffer \o events
        over == IF Len(all) > Capacity THEN Len(all) - Capacity ELSE 0
    IN  [s EXCEPT !.buffer = SubSeq(all, over + 1, Len(all)),
                  !.dropped[EvictReason(s)] = @ + over]

Enqueue(s, event) ==
    Rebuffer([s EXCEPT !.enqueued = @ + 1], <<event>>)

-----------------------------------------------------------------------------
\* Sending.

\* Mutant: what is drained also stays in the buffer.
MutTakenKeepsBuffer(s) == s

\* _take_buffered
Taken(s) == [s EXCEPT !.buffer = << >>]

\* _drain_chunks: how many of the drained events still to send the next
\* request takes.
ChunkSizes(events) ==
    LET most == IF Len(events) < MaxBatch THEN Len(events) ELSE MaxBatch
    IN  IF BySize THEN 1 .. most ELSE {most}

FirstOf(events, n) == SubSeq(events, 1, n)
AfterFirst(events, n) == SubSeq(events, n + 1, Len(events))

\* The guard that flush, flush_sync and flush_at_exit start with.
MaySend(s) == s.buffer # << >> /\ ~s.backing_off

\* _payload, with report_loss on: the metadata is read when the request is built.
Numbered(s) == [s EXCEPT !.seq = @ + 1]
Metadata(s) == [seq |-> s.seq, enqueued_total |-> s.enqueued, dropped |-> s.dropped]

\* _handle_response, status 200: final, whatever the server says it skipped.
HandleOk(s, chunk, skipped) ==
    [s EXCEPT !.backlog_reason = "none",
              !.sent = @ + (Len(chunk) - skipped),
              !.dropped["server_skipped"] = @ + skipped]

\* _handle_response, status 429; wait says whether Retry-After is above zero.
HandleLimited(s, chunk, wait) ==
    Rebuffer([s EXCEPT !.backlog_reason = "rate_limited", !.backing_off = wait], chunk)

\* _handle_response, any other status, and _handle_error.
HandleFailed(s, chunk) ==
    Rebuffer([s EXCEPT !.backlog_reason = "send_failed"], chunk)

-----------------------------------------------------------------------------
\* The end of a sender's life.

\* close and close_sync before the final flush: _retry_at = 0.0.
IgnoreBackoff(s) == [s EXCEPT !.backing_off = FALSE]

\* Mutant: what was counted stays in the buffer.
MutAccountShutdownKeepsBuffer(s) ==
    IF s.closed THEN s
    ELSE [s EXCEPT !.closed = TRUE, !.dropped["shutdown"] = @ + Len(s.buffer)]

\* _account_shutdown
AccountShutdown(s) ==
    IF s.closed THEN s
    ELSE [s EXCEPT !.closed = TRUE,
                   !.dropped["shutdown"] = @ + Len(s.buffer),
                   !.buffer = << >>]

\* Mutant: the child keeps what it inherited.
MutResetKeepsBuffer(s) ==
    [s EXCEPT !.enqueued = 0, !.sent = 0, !.dropped = NoDrops,
              !.seq = 0, !.backlog_reason = "none"]

\* _reset_after_fork, in the child.  The back-off and the closed flag stay.
ResetAfterFork(s) ==
    [s EXCEPT !.buffer = << >>, !.enqueued = 0, !.sent = 0, !.dropped = NoDrops,
              !.seq = 0, !.backlog_reason = "none"]

-----------------------------------------------------------------------------
(* What the methods do to the counters, for every buffer size: each keeps  *)
(* the record well typed and the buffer within its bound, and changes the  *)
(* number of accounted events by exactly the events it was given.          *)

\* The events the counters and the buffer account for.
Accounted(s) == s.sent + DroppedTotal(s) + Len(s.buffer)

\* A sender the code can produce: a deque with maxlen never exceeds it.
Bounded == {s \in Sender : Len(s.buffer) <= Capacity}

\* The counters are natural numbers, and so are their sums.
LEMMA CountersNat ==
    ASSUME NEW s \in Sender
    PROVE  /\ s.enqueued \in Nat /\ s.sent \in Nat /\ s.buffer \in Seq(Nat)
           /\ Len(s.buffer) \in Nat /\ DroppedTotal(s) \in Nat /\ Accounted(s) \in Nat
  <1>1. s.enqueued \in Nat /\ s.sent \in Nat /\ s.buffer \in Seq(Nat)
        /\ s.dropped \in [DROP_REASONS -> Nat]
    BY DEF Sender
  <1>2. Len(s.buffer) \in Nat
    BY <1>1
  <1>3. DroppedTotal(s) \in Nat
    BY <1>1 DEF DroppedTotal, DROP_REASONS
  <1> QED
    BY <1>1, <1>2, <1>3 DEF Accounted

\* One drop counter raised by n raises the total by n.
LEMMA DroppedBump ==
    ASSUME NEW s \in Sender, NEW r \in DROP_REASONS, NEW n \in Nat
    PROVE  LET t == [s EXCEPT !.dropped[r] = @ + n]
           IN  t \in Sender /\ DroppedTotal(t) = DroppedTotal(s) + n
  <1> DEFINE t == [s EXCEPT !.dropped[r] = @ + n]
  <1>1. s.dropped \in [DROP_REASONS -> Nat]
    BY DEF Sender
  <1>2. t.dropped = [s.dropped EXCEPT ![r] = @ + n]
    BY DEF Sender
  <1>3. t \in Sender
    <2>1. t.dropped \in [DROP_REASONS -> Nat]
      BY <1>1, <1>2
    <2>2. t = [s EXCEPT !.dropped = [s.dropped EXCEPT ![r] = @ + n]]
      BY DEF Sender
    <2> QED
      BY <1>2, <2>1, <2>2 DEF Sender
  <1>4. DroppedTotal(t) = DroppedTotal(s) + n
    BY <1>1, <1>2 DEF DroppedTotal, DROP_REASONS
  <1> QED
    BY <1>3, <1>4

\* _rebuffer loses no event uncounted: what does not stay in the buffer is
\* counted as dropped, and the buffer stays within MAX_BUFFER_SIZE.
LEMMA RebufferAccounts ==
    ASSUME NEW s \in Bounded, NEW events \in Seq(Nat)
    PROVE  /\ Rebuffer(s, events) \in Bounded
           /\ Accounted(Rebuffer(s, events)) = Accounted(s) + Len(events)
           /\ Rebuffer(s, events).enqueued = s.enqueued
  <1> USE CapacityAssumption
  <1> DEFINE all  == s.buffer \o events
             over == IF Len(all) > Capacity THEN Len(all) - Capacity ELSE 0
             kept == SubSeq(all, over + 1, Len(all))
             u    == [s EXCEPT !.dropped[EvictReason(s)] = @ + over]
             r    == Rebuffer(s, events)
  <1>1. s \in Sender /\ s.buffer \in Seq(Nat) /\ Len(s.buffer) <= Capacity
    BY DEF Bounded, Sender
  <1>2. all \in Seq(Nat) /\ Len(all) = Len(s.buffer) + Len(events) /\ over \in Nat
    BY <1>1
  <1>3. kept \in Seq(Nat) /\ Len(kept) = Len(all) - over /\ Len(kept) <= Capacity
    <2>1. over <= Len(all) /\ Len(all) - over <= Capacity
      BY <1>2
    <2> HIDE DEF all, over
    <2> QED
      BY <1>2, <2>1
  <1>4. EvictReason(s) \in DROP_REASONS
    BY <1>1 DEF EvictReason, Sender, BacklogReasons, DROP_REASONS
  <1>5. u \in Sender /\ DroppedTotal(u) = DroppedTotal(s) + over
    BY <1>1, <1>2, <1>4, DroppedBump
  <1>6. r = [u EXCEPT !.buffer = kept]
    BY <1>1 DEF Rebuffer, Sender
  <1>7. r \in Sender /\ r.buffer = kept /\ r.dropped = u.dropped
        /\ r.sent = s.sent /\ r.enqueued = s.enqueued
    <2>1. u.sent = s.sent /\ u.enqueued = s.enqueued
      BY <1>1 DEF Sender
    <2> HIDE DEF kept, u, r
    <2>2. r \in Sender
      BY <1>3, <1>5, <1>6 DEF Sender
    <2>3. r.buffer = kept /\ r.dropped = u.dropped /\ r.sent = u.sent /\ r.enqueued = u.enqueued
      BY <1>5, <1>6 DEF Sender
    <2> QED
      BY <2>1, <2>2, <2>3
  <1>8. DroppedTotal(r) = DroppedTotal(s) + over
    BY <1>5, <1>7 DEF DroppedTotal
  <1>9. DroppedTotal(s) \in Nat
    BY <1>1 DEF DroppedTotal, Sender, DROP_REASONS
  <1>10. s.sent \in Nat
    BY <1>1 DEF Sender
  <1>11. Accounted(r) = s.sent + (DroppedTotal(s) + over) + (Len(s.buffer) + Len(events) - over)
    BY <1>2, <1>3, <1>7, <1>8 DEF Accounted
  <1>12. Accounted(r) = Accounted(s) + Len(events)
    <2>1. Len(s.buffer) \in Nat /\ Len(events) \in Nat
      BY <1>1
    <2>2. Accounted(s) = s.sent + DroppedTotal(s) + Len(s.buffer)
      BY DEF Accounted
    <2> HIDE DEF over, r
    <2> QED
      BY <1>2, <1>9, <1>10, <1>11, <2>1, <2>2
  <1> QED
    BY <1>3, <1>7, <1>12 DEF Bounded

\* enqueue counts the event it buffers, also when it evicts another one.
LEMMA EnqueueAccounts ==
    ASSUME NEW s \in Bounded, NEW event \in Nat
    PROVE  /\ Enqueue(s, event) \in Bounded
           /\ Enqueue(s, event).enqueued = s.enqueued + 1
           /\ Accounted(Enqueue(s, event)) = Accounted(s) + 1
  <1> DEFINE u == [s EXCEPT !.enqueued = @ + 1]
  <1>1. u \in Bounded /\ u.enqueued = s.enqueued + 1 /\ u.buffer = s.buffer
        /\ u.sent = s.sent /\ u.dropped = s.dropped
    <2>1. s \in Sender /\ s.enqueued \in Nat /\ s.enqueued + 1 \in Nat
      BY DEF Bounded, Sender
    <2>2. u.enqueued = s.enqueued + 1 /\ u.buffer = s.buffer
          /\ u.sent = s.sent /\ u.dropped = s.dropped
      BY <2>1 DEF Sender
    <2>3. u \in Sender
      BY <2>1 DEF Sender
    <2> QED
      BY <2>2, <2>3 DEF Bounded
  <1>2. Accounted(u) = Accounted(s)
    BY <1>1 DEF Accounted, DroppedTotal
  <1>3. <<event>> \in Seq(Nat) /\ Len(<<event>>) = 1
    OBVIOUS
  <1> QED
    BY <1>1, <1>2, <1>3, RebufferAccounts DEF Enqueue

\* A 200 settles the whole chunk: what is not sent is counted as skipped.
LEMMA HandleOkAccounts ==
    ASSUME NEW s \in Bounded, NEW chunk \in Seq(Nat), NEW skipped \in 0 .. Len(chunk)
    PROVE  /\ HandleOk(s, chunk, skipped) \in Bounded
           /\ HandleOk(s, chunk, skipped).enqueued = s.enqueued
           /\ Accounted(HandleOk(s, chunk, skipped)) = Accounted(s) + Len(chunk)
  <1> DEFINE u == [s EXCEPT !.dropped["server_skipped"] = @ + skipped]
             r == HandleOk(s, chunk, skipped)
  <1>1. s \in Sender /\ s.sent \in Nat /\ Len(s.buffer) \in Nat /\ Len(s.buffer) <= Capacity
    BY DEF Bounded, Sender
  <1>2. skipped \in Nat /\ Len(chunk) \in Nat /\ Len(chunk) - skipped \in Nat
    OBVIOUS
  <1>3. "server_skipped" \in DROP_REASONS
    BY DEF DROP_REASONS
  <1>4. u \in Sender /\ DroppedTotal(u) = DroppedTotal(s) + skipped
    BY <1>1, <1>2, <1>3, DroppedBump
  <1>5. r = [u EXCEPT !.backlog_reason = "none", !.sent = @ + (Len(chunk) - skipped)]
    BY <1>1 DEF HandleOk, Sender
  <1>9. s.sent + (Len(chunk) - skipped) \in Nat
    BY <1>1, <1>2
  <1>6. /\ r.buffer = s.buffer /\ r.dropped = u.dropped /\ r.enqueued = s.enqueued
        /\ r.sent = s.sent + (Len(chunk) - skipped)
    BY <1>1, <1>4, <1>5 DEF Sender
  <1>10. r \in Sender
    <2>1. u.sent = s.sent
      BY <1>1 DEF Sender
    <2>2. r = [u EXCEPT !.backlog_reason = "none", !.sent = s.sent + (Len(chunk) - skipped)]
      BY <1>5, <2>1
    <2> HIDE DEF u, r
    <2> QED
      BY <1>4, <1>9, <2>2 DEF Sender, BacklogReasons
  <1>7. DroppedTotal(r) = DroppedTotal(s) + skipped
    BY <1>4, <1>6 DEF DroppedTotal
  <1>8. DroppedTotal(s) \in Nat
    BY <1>1 DEF DroppedTotal, Sender, DROP_REASONS
  <1> HIDE DEF r
  <1>11. r \in Bounded
    BY <1>1, <1>6, <1>10 DEF Bounded
  <1>12. Accounted(r) = Accounted(s) + Len(chunk)
    BY <1>1, <1>2, <1>6, <1>7, <1>8 DEF Accounted
  <1> QED
    BY <1>6, <1>11, <1>12 DEF r

\* A 429 and a failure put the whole chunk back or count it.
LEMMA HandleLimitedAccounts ==
    ASSUME NEW s \in Bounded, NEW chunk \in Seq(Nat), NEW wait \in BOOLEAN
    PROVE  /\ HandleLimited(s, chunk, wait) \in Bounded
           /\ HandleLimited(s, chunk, wait).enqueued = s.enqueued
           /\ Accounted(HandleLimited(s, chunk, wait)) = Accounted(s) + Len(chunk)
  <1> DEFINE u == [s EXCEPT !.backlog_reason = "rate_limited", !.backing_off = wait]
  <1>1. u \in Bounded /\ u.enqueued = s.enqueued /\ u.buffer = s.buffer
        /\ u.sent = s.sent /\ u.dropped = s.dropped
    BY DEF Bounded, Sender, BacklogReasons
  <1>2. Accounted(u) = Accounted(s)
    BY <1>1 DEF Accounted, DroppedTotal
  <1> QED
    BY <1>1, <1>2, RebufferAccounts DEF HandleLimited

\* A failed request: its chunk is back in the buffer or counted.
LEMMA HandleFailedAccounts ==
    ASSUME NEW s \in Bounded, NEW chunk \in Seq(Nat)
    PROVE  /\ HandleFailed(s, chunk) \in Bounded
           /\ HandleFailed(s, chunk).enqueued = s.enqueued
           /\ Accounted(HandleFailed(s, chunk)) = Accounted(s) + Len(chunk)
  <1> DEFINE u == [s EXCEPT !.backlog_reason = "send_failed"]
  <1>1. u \in Bounded /\ u.enqueued = s.enqueued /\ u.buffer = s.buffer
        /\ u.sent = s.sent /\ u.dropped = s.dropped
    BY DEF Bounded, Sender, BacklogReasons
  <1>2. Accounted(u) = Accounted(s)
    BY <1>1 DEF Accounted, DroppedTotal
  <1> QED
    BY <1>1, <1>2, RebufferAccounts DEF HandleFailed

\* Draining moves the buffered events out; nothing else changes.
LEMMA TakenAccounts ==
    ASSUME NEW s \in Bounded
    PROVE  /\ Taken(s) \in Bounded
           /\ Taken(s).enqueued = s.enqueued
           /\ Accounted(Taken(s)) = Accounted(s) - Len(s.buffer)
  <1>1. s \in Sender /\ s.sent \in Nat /\ s.buffer \in Seq(Nat)
    BY DEF Bounded, Sender
  <1>2. << >> \in Seq(Nat) /\ Len(<< >>) = 0
    OBVIOUS
  <1> DEFINE t == Taken(s)
  <1>5. t.buffer = << >> /\ t.enqueued = s.enqueued /\ t.sent = s.sent /\ t.dropped = s.dropped
    BY <1>1 DEF Taken, Sender
  <1>6. t \in Sender
    BY <1>1, <1>2 DEF Taken, Sender
  <1>3. DroppedTotal(t) = DroppedTotal(s)
    BY <1>5 DEF DroppedTotal
  <1>4. DroppedTotal(s) \in Nat
    BY <1>1 DEF DroppedTotal, Sender, DROP_REASONS
  <1> HIDE DEF t
  <1>7. t \in Bounded
    BY <1>2, <1>5, <1>6, CapacityAssumption DEF Bounded
  <1>8. Accounted(t) = Accounted(s) - Len(s.buffer)
    BY <1>1, <1>2, <1>3, <1>4, <1>5 DEF Accounted
  <1> QED
    BY <1>5, <1>7, <1>8 DEF t

\* Chunks cut the drained events in two without losing or inventing one.
LEMMA ChunkSplits ==
    ASSUME NEW events \in Seq(Nat), events # << >>, NEW n \in ChunkSizes(events)
    PROVE  /\ FirstOf(events, n) \in Seq(Nat) /\ AfterFirst(events, n) \in Seq(Nat)
           /\ Len(FirstOf(events, n)) + Len(AfterFirst(events, n)) = Len(events)
           /\ Len(FirstOf(events, n)) <= MaxBatch
  <1>1. n \in Nat /\ n <= Len(events) /\ n <= MaxBatch
    BY MaxBatchAssumption DEF ChunkSizes
  <1>2. FirstOf(events, n) \in Seq(Nat) /\ Len(FirstOf(events, n)) = n
    BY <1>1 DEF FirstOf
  <1>3. AfterFirst(events, n) \in Seq(Nat) /\ Len(AfterFirst(events, n)) = Len(events) - n
    BY <1>1 DEF AfterFirst
  <1> QED
    BY <1>1, <1>2, <1>3
-----------------------------------------------------------------------------
\* What the sender's methods do to the events themselves, whose sequences hold
\* no event twice.
Once(q) == \A i, j \in 1 .. Len(q) : q[i] = q[j] => i = j

\* A part without repetitions of a concatenation: what is left of it when the
\* middle is taken out, and when a new event is put there.
LEMMA OnceWithout ==
    ASSUME NEW S, NEW a \in Seq(S), NEW b \in Seq(S), NEW c \in Seq(S), Once(a \o (b \o c))
    PROVE  Once(a \o c)
  <1> DEFINE whole == a \o (b \o c)
             at(i) == IF i <= Len(a) THEN i ELSE i + Len(b)
  <1>1. /\ Len(a) \in Nat /\ Len(b) \in Nat /\ Len(c) \in Nat
        /\ Len(whole) = Len(a) + Len(b) + Len(c) /\ Len(a \o c) = Len(a) + Len(c)
    OBVIOUS
  <1>2. ASSUME NEW i \in 1 .. Len(a \o c)
        PROVE  at(i) \in 1 .. Len(whole) /\ (a \o c)[i] = whole[at(i)]
    <2>1. CASE i <= Len(a)
      BY <1>1, <2>1
    <2>2. CASE i > Len(a)
      <3>1. (a \o c)[i] = c[i - Len(a)]
        BY <1>1, <2>2
      <3>2. whole[i + Len(b)] = (b \o c)[i + Len(b) - Len(a)]
        BY <1>1, <2>2
      <3>3. (b \o c)[i + Len(b) - Len(a)] = c[i - Len(a)]
        BY <1>1, <2>2
      <3> QED
        BY <1>1, <2>2, <3>1, <3>2, <3>3
    <2> QED
      BY <1>1, <2>1, <2>2
  <1>3. \A i, j \in 1 .. Len(a \o c) : at(i) = at(j) => i = j
    BY <1>1
  <1> HIDE DEF at, whole
  <1>4. \A i, j \in 1 .. Len(a \o c) : whole[at(i)] = whole[at(j)] => at(i) = at(j)
    BY <1>2 DEF Once, whole
  <1> QED
    BY <1>2, <1>3, <1>4 DEF Once

\* A new event put in the middle repeats nothing.
LEMMA OnceInsert ==
    ASSUME NEW S, NEW a \in Seq(S), NEW e, e \notin S, NEW c \in Seq(S), Once(a \o c)
    PROVE  Once(a \o (<<e>> \o c))
  <1> DEFINE wider == a \o (<<e>> \o c)
             old   == a \o c
             at(i) == IF i <= Len(a) THEN i ELSE i - 1
  <1>1. /\ Len(a) \in Nat /\ Len(c) \in Nat /\ <<e>> \in Seq({e}) /\ Len(<<e>>) = 1
        /\ a \in Seq(S \cup {e}) /\ c \in Seq(S \cup {e}) /\ <<e>> \in Seq(S \cup {e})
    BY SeqMonotonic
  <1>2. Len(wider) = Len(a) + 1 + Len(c) /\ Len(old) = Len(a) + Len(c)
    BY <1>1
  <1>3. wider[Len(a) + 1] = e
    <2>1. wider[Len(a) + 1] = (<<e>> \o c)[1]
      BY <1>1
    <2> QED
      BY <1>1, <2>1
  <1>4. ASSUME NEW i \in 1 .. Len(wider), i # Len(a) + 1
        PROVE  at(i) \in 1 .. Len(old) /\ wider[i] = old[at(i)]
    <2>1. CASE i <= Len(a)
      BY <1>1, <1>2, <2>1
    <2>2. CASE i > Len(a)
      <3>1. i - Len(a) \in 2 .. 1 + Len(c) /\ i - 1 - Len(a) \in 1 .. Len(c)
        BY <1>1, <1>2, <1>4, <2>2
      <3>2. wider[i] = (<<e>> \o c)[i - Len(a)]
        BY <1>1, <1>2, <2>2
      <3>3. (<<e>> \o c)[i - Len(a)] = c[i - Len(a) - 1]
        BY <1>1, <3>1
      <3>4. old[i - 1] = c[i - 1 - Len(a)]
        BY <1>1, <1>2, <3>1
      <3> QED
        BY <1>1, <1>2, <2>2, <3>1, <3>2, <3>3, <3>4
    <2> QED
      BY <1>1, <2>1, <2>2
  <1>5. \A i \in 1 .. Len(old) : old[i] # e
    BY <1>1, <1>2
  <1>6. \A i, j \in 1 .. Len(wider) :
            i # Len(a) + 1 /\ j # Len(a) + 1 /\ at(i) = at(j) => i = j
    BY <1>1, <1>2
  <1> HIDE DEF at, wider, old
  <1>7. \A i, j \in 1 .. Len(wider) :
            i # Len(a) + 1 /\ j # Len(a) + 1 /\ wider[i] = wider[j] => i = j
    BY <1>4, <1>6 DEF Once, old
  <1>8. \A i \in 1 .. Len(wider) : i # Len(a) + 1 => wider[i] # e
    BY <1>4, <1>5
  <1> QED
    BY <1>3, <1>7, <1>8 DEF Once, wider

\* Evicting from the front repeats nothing.
LEMMA OnceSuffix ==
    ASSUME NEW S, NEW all \in Seq(S), NEW n \in 0 .. Len(all),
           NEW others \in Seq(S), Once(all \o others)
    PROVE  Once(SubSeq(all, n + 1, Len(all)) \o others)
  <1> DEFINE kept  == SubSeq(all, n + 1, Len(all))
             whole == all \o others
             left  == kept \o others
  <1>1. Len(all) \in Nat /\ n \in Nat /\ n <= Len(all) /\ Len(others) \in Nat
    OBVIOUS
  <1>2. kept \in Seq(S) /\ Len(kept) = Len(all) - n
        /\ \A i \in 1 .. Len(kept) : kept[i] = all[i + n]
    BY <1>1
  <1> HIDE DEF kept
  <1>3. Len(left) = Len(kept) + Len(others) /\ Len(whole) = Len(all) + Len(others)
    <2>1. Len(kept \o others) = Len(kept) + Len(others)
      BY <1>2, ConcatProperties
    <2> QED
      BY <2>1
  <1>4. ASSUME NEW i \in 1 .. Len(left)
        PROVE  i + n \in 1 .. Len(whole) /\ left[i] = whole[i + n]
    <2>1. CASE i <= Len(kept)
      BY <1>1, <1>2, <1>3, <2>1
    <2>2. CASE i > Len(kept)
      <3>1. left[i] = others[i - Len(kept)]
        BY <1>1, <1>2, <1>3, <2>2
      <3>2. whole[i + n] = others[i + n - Len(all)]
        BY <1>1, <1>2, <1>3, <2>2
      <3> HIDE DEF left, whole
      <3>3. i + n - Len(all) = i - Len(kept) /\ i + n \in 1 .. Len(whole)
        BY <1>1, <1>2, <1>3, <2>2
      <3> QED
        BY <3>1, <3>2, <3>3
    <2> QED
      BY <1>1, <1>2, <1>3, <2>1, <2>2
  <1> HIDE DEF left
  <1>5. \A i, j \in 1 .. Len(left) : i + n = j + n => i = j
    BY <1>1
  <1>6. \A i, j \in 1 .. Len(left) : whole[i + n] = whole[j + n] => i + n = j + n
    BY <1>4 DEF Once
  <1> HIDE DEF whole
  <1> QED
    BY <1>4, <1>5, <1>6 DEF Once, left, kept

\* _rebuffer keeps every event at most once, next to whatever else is held.
LEMMA RebufferOnce ==
    ASSUME NEW s \in Bounded, NEW S, s.buffer \in Seq(S), NEW events \in Seq(S),
           NEW others \in Seq(S), Once(s.buffer \o (events \o others))
    PROVE  /\ Rebuffer(s, events).buffer \in Seq(S)
           /\ Once(Rebuffer(s, events).buffer \o others)
  <1> USE CapacityAssumption
  <1> DEFINE all   == s.buffer \o events
             over  == IF Len(all) > Capacity THEN Len(all) - Capacity ELSE 0
             kept  == SubSeq(all, over + 1, Len(all))
  <1>1. Rebuffer(s, events).buffer = kept
    BY DEF Rebuffer, Bounded, Sender
  <1>2. all \in Seq(S) /\ Len(all) \in Nat /\ over \in 0 .. Len(all)
    OBVIOUS
  <1>3. all \o others = s.buffer \o (events \o others)
    <2>1. PICK a \in Seq(S) : a = s.buffer
      OBVIOUS
    <2>2. (a \o events) \o others = a \o (events \o others)
      BY ConcatAssociative
    <2> QED
      BY <2>1, <2>2
  <1>4. Once(all \o others)
    BY <1>3
  <1> HIDE DEF all, over
  <1>5. kept \in Seq(S)
    BY <1>2
  <1> HIDE DEF kept
  <1>6. Once(kept \o others)
    BY <1>2, <1>4, OnceSuffix DEF kept
  <1> QED
    BY <1>1, <1>5, <1>6

\* Cutting a chunk off moves the events and changes none.
LEMMA ChunkConcat ==
    ASSUME NEW S, NEW events \in Seq(S), events # << >>, NEW n \in ChunkSizes(events)
    PROVE  /\ FirstOf(events, n) \in Seq(S) /\ AfterFirst(events, n) \in Seq(S)
           /\ FirstOf(events, n) \o AfterFirst(events, n) = events
  <1>1. n \in Nat /\ 1 <= n /\ n <= Len(events) /\ Len(events) \in Nat
    BY MaxBatchAssumption DEF ChunkSizes
  <1>2. FirstOf(events, n) \in Seq(S) /\ AfterFirst(events, n) \in Seq(S)
    BY <1>1 DEF FirstOf, AfterFirst
  <1>3. SubSeq(events, 1, n) \o SubSeq(events, n + 1, Len(events))
            = SubSeq(events, 1, Len(events))
    BY <1>1, ConcatAdjacentSubSeq
  <1>4. SubSeq(events, 1, Len(events)) = events
    BY SubSeqFull
  <1> QED
    BY <1>2, <1>3, <1>4 DEF FirstOf, AfterFirst
=============================================================================
