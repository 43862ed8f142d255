------------------------ MODULE GatewaySenderProofs ------------------------
(***************************************************************************)
(* GatewaySender for every bound, queue limit, concurrency and number of   *)
(* attempts.  The inductive invariant is                                   *)
(*   Types     every variable's type, without the sets it is compared with;*)
(*   Items     an event not sent yet is untouched, one that is pending has *)
(*             an attempt left, and shutdown alone abandons one;           *)
(*   Parked    the queue is in order and holds the queued events, and a    *)
(*             loop is there to empty it;                                  *)
(*   Balance   the counters add up, within maxPending;                     *)
(*   Drain     the workers stay within DRAIN_CONCURRENCY, and there is     *)
(*             none before the loop runs;                                  *)
(*   Deadline  without a pause there is no deadline, and the loop's nap    *)
(*             ends with the pause it began in.                            *)
(***************************************************************************)
EXTENDS GatewaySender, FiniteSetTheorems, SequenceTheorems, TLAPS

\* An event whose attempt has returned has its outcome.
Fields == [phase : Phases, attempts : 0 .. MaxAttempts, outcome : Outcomes, drained : BOOLEAN]
Items == {i \in Fields : i.phase = "answered" => i.outcome # "none"}
Loops == [at : {"off", "wait", "run"}, seen : Nat, nap : 0 .. MaxRetryAfter, turns : Nat]

Types ==
    /\ enqueued \in 0 .. MaxEvents /\ sent \in Nat
    /\ dropped \in [DROP_REASONS -> Nat]
    /\ backlogReason \in {"none", "send_failed", "rate_limited"}
    /\ item \in [Events -> Items]
    /\ queue \in Seq(Events)
    /\ paused \in BOOLEAN /\ resumeAt \in 0 .. MaxRetryAfter /\ pauses \in Nat
    /\ loop \in Loops
    /\ closed \in BOOLEAN /\ shutting \in {"no", "waiting", "done"}
    /\ failures \in Nat /\ pauses + failures <= MaxFailures

\* An event waiting for its next attempt, or in it, has one left.
Untouched == \A e \in Events : e > enqueued => item[e] = NoItem
HasTryLeft ==
    \A e \in Events : item[e].phase \in {"queued", "fetching", "answered", "sleeping"}
                          => item[e].attempts < MaxAttempts
NoneAbandoned == shutting # "done" => \A e \in Events : item[e].phase # "abandoned"
ItemsOK == Untouched /\ HasTryLeft /\ NoneAbandoned

Queued == {e \in Events : item[e].phase = "queued"}
InOrder == \A i, j \in 1 .. Len(queue) : i < j => queue[i] < queue[j]
HoldsQueued == {queue[i] : i \in 1 .. Len(queue)} = Queued
Parked == InOrder /\ HoldsQueued /\ (queue # << >> => loop.at # "off")

Counted == Balance /\ Cardinality(Live) <= MaxPending

Drain == DrainIsBounded /\ (loop.at # "run" => Drained = {} /\ loop.turns = 0)

Deadline ==
    /\ ~paused => resumeAt = 0
    /\ loop.at = "wait" => loop.seen <= pauses /\ (loop.seen = pauses => loop.nap = resumeAt)

IInv == Types /\ ItemsOK /\ Parked /\ Counted /\ Drain /\ Deadline

-----------------------------------------------------------------------------
\* What the helpers of the actions do to one event.

\* One event changes: its new phase, attempts and drained.
Only(e, phases, attempts, drained) ==
    /\ item' \in [Events -> Items]
    /\ \A f \in Events : f # e => item'[f] = item[f]
    /\ item'[e].phase \in phases
    /\ item'[e].attempts = attempts
    /\ item'[e].drained = drained

\* attempt() up to its fetch keeps the attempts and notes who drives it.
LEMMA BegunType ==
    ASSUME NEW i \in Items, NEW e, NEW d \in BOOLEAN
    PROVE  /\ Begun(i, e, d) \in Items
           /\ Begun(i, e, d).phase \in {"fetching", "answered"}
           /\ Begun(i, e, d).attempts = i.attempts
           /\ Begun(i, e, d).drained = d
  BY DEF Begun, Items, Fields, Phases, Outcomes

\* The fields of an event.
LEMMA ItemFields ==
    ASSUME Types, NEW e \in Events
    PROVE  /\ item[e] \in Items /\ item[e].phase \in Phases
           /\ item[e].attempts \in 0 .. MaxAttempts /\ item[e].attempts \in Nat
           /\ item[e].outcome \in Outcomes /\ item[e].drained \in BOOLEAN
  BY GatewaySenderAssumption DEF Types, Items, Fields

\* An event changes its phase, or begins its next attempt.
LEMMA PhaseOnly ==
    ASSUME Types, NEW e \in Events, NEW p \in Phases \ {"answered"},
           item' = [item EXCEPT ![e].phase = p]
    PROVE  Only(e, {p}, item[e].attempts, item[e].drained)
  <1>1. item[e] \in Items /\ item \in [Events -> Items]
    BY DEF Types
  <1>2. [item[e] EXCEPT !.phase = p] \in Items
    BY <1>1 DEF Items, Fields
  <1>3. item' = [item EXCEPT ![e] = [item[e] EXCEPT !.phase = p]]
    BY <1>1
  <1> QED
    BY <1>1, <1>2, <1>3 DEF Only, Items, Fields

\* A request begins: the event is fetched, or ends at once for an unsafe URL or
\* a payload that cannot be serialised.
LEMMA BegunOnly ==
    ASSUME Types, NEW e \in Events, NEW d \in BOOLEAN,
           item' = [item EXCEPT ![e] = Begun(item[e], e, d)]
    PROVE  Only(e, {"fetching", "answered"}, item[e].attempts, d)
  <1>1. item[e] \in Items /\ item \in [Events -> Items]
    BY DEF Types
  <1> QED
    BY <1>1, BegunType DEF Only

\* Settling and the next phase after a failed attempt.
LEMMA TriedOnly ==
    ASSUME Types, NEW e \in Events, NEW p \in Phases \ {"answered"},
           item[e].attempts < MaxAttempts,
           item' = [item EXCEPT ![e].phase = p, ![e].attempts = Tried(e)]
    PROVE  Only(e, {p}, item[e].attempts + 1, item[e].drained)
  <1>1. item[e] \in Items /\ item \in [Events -> Items]
    BY DEF Types
  <1>2. item[e].attempts + 1 \in 0 .. MaxAttempts
    BY <1>1, GatewaySenderAssumption DEF Items, Fields
  <1> DEFINE new == [item[e] EXCEPT !.phase = p, !.attempts = item[e].attempts + 1]
  <1>3. new \in Items /\ new.phase = p /\ new.attempts = item[e].attempts + 1
        /\ new.drained = item[e].drained
    BY <1>1, <1>2 DEF Items, Fields
  <1>4. item' = [item EXCEPT ![e] = new]
    BY <1>1 DEF Tried
  <1> HIDE DEF new
  <1> QED
    BY <1>1, <1>3, <1>4 DEF Only

\* A request is answered.
LEMMA AnsweredOnly ==
    ASSUME Types, NEW e \in Events, NEW o \in Outcomes \ {"none"},
           item' = [item EXCEPT ![e].phase = "answered", ![e].outcome = o]
    PROVE  Only(e, {"answered"}, item[e].attempts, item[e].drained)
  <1>1. item[e] \in Items /\ item \in [Events -> Items]
    BY DEF Types
  <1> DEFINE new == [item[e] EXCEPT !.phase = "answered", !.outcome = o]
  <1>3. new \in Items /\ new.phase = "answered" /\ new.attempts = item[e].attempts
        /\ new.drained = item[e].drained
    BY <1>1 DEF Items, Fields, Phases
  <1>4. item' = [item EXCEPT ![e] = new]
    BY <1>1
  <1> HIDE DEF new
  <1> QED
    BY <1>1, <1>3, <1>4 DEF Only

\* A loop that counts its turns, or its nap, differently.
LEMMA LoopEdit ==
    ASSUME NEW l \in Loops
    PROVE  /\ l.seen \in Nat /\ l.nap \in 0 .. MaxRetryAfter /\ l.turns \in Nat
           /\ \A t \in Nat : LET k == [l EXCEPT !.turns = t]
                             IN  /\ k \in Loops /\ k.turns = t /\ k.at = l.at
                                 /\ k.seen = l.seen /\ k.nap = l.nap
           /\ \A n \in 0 .. MaxRetryAfter :
                  LET k == [l EXCEPT !.nap = n]
                  IN  /\ k \in Loops /\ k.nap = n /\ k.at = l.at
                      /\ k.seen = l.seen /\ k.turns = l.turns
  BY DEF Loops

\* The loop as its parts leave it.
LEMMA LoopTypes ==
    ASSUME Types
    PROVE  /\ loop \in Loops /\ NoLoop \in Loops /\ Asleep \in Loops
           /\ [NoLoop EXCEPT !.at = "run"] \in Loops
           /\ \A e \in Events : Returned(e) \in Loops
  <1>1. loop \in Loops /\ 0 \in 0 .. MaxRetryAfter /\ resumeAt \in 0 .. MaxRetryAfter /\ pauses \in Nat
    BY GatewaySenderAssumption DEF Types
  <1>2. NoLoop \in Loops /\ Asleep \in Loops /\ [NoLoop EXCEPT !.at = "run"] \in Loops
    BY <1>1 DEF NoLoop, Asleep, Loops
  <1>3. \A e \in Events : Returned(e) \in Loops
    BY <1>1 DEF Returned, Loops
  <1> QED
    BY <1>1, <1>2, <1>3

-----------------------------------------------------------------------------
\* The queue: requeue keeps the order, and the drain takes from the front.

Elements(q) == {q[i] : i \in 1 .. Len(q)}

\* requeue puts the event where its number belongs.
LEMMA InsertedKeepsOrder ==
    ASSUME queue \in Seq(Events), InOrder, NEW e \in Events, e \notin Elements(queue), Inserted(e)
    PROVE  /\ queue' \in Seq(Events) /\ queue' # << >>
           /\ InOrder'
           /\ Elements(queue)' = Elements(queue) \cup {e}
  <1>1. PICK i \in 0 .. Len(queue) :
            /\ i > 0 => queue[i] <= e
            /\ \A j \in i + 1 .. Len(queue) : queue[j] > e
            /\ queue' = SubSeq(queue, 1, i) \o <<e>> \o SubSeq(queue, i + 1, Len(queue))
    BY DEF Inserted
  <1> DEFINE before == SubSeq(queue, 1, i)
             after  == SubSeq(queue, i + 1, Len(queue))
             new    == before \o <<e>> \o after
  <1>2. Len(queue) \in Nat /\ i \in Nat /\ i <= Len(queue)
    OBVIOUS
  <1>3. before \in Seq(Events) /\ Len(before) = i /\ \A k \in 1 .. i : before[k] = queue[k]
    BY <1>2
  <1>4. after \in Seq(Events) /\ Len(after) = Len(queue) - i
        /\ \A k \in 1 .. Len(queue) - i : after[k] = queue[k + i]
    BY <1>2
  <1> HIDE DEF before, after
  <1> DEFINE upto == before \o <<e>>
  <1>5. <<e>> \in Seq(Events) /\ Len(<<e>>) = 1 /\ <<e>>[1] = e
    OBVIOUS
  <1>6. upto \in Seq(Events) /\ Len(upto) = i + 1 /\ upto[i + 1] = e
         /\ \A k \in 1 .. i : upto[k] = queue[k]
    BY <1>2, <1>3, <1>5
  <1> HIDE DEF upto
  <1>7. new = upto \o after
    BY DEF upto
  <1>8. Len(after) \in Nat /\ Len(upto) \in Nat
    BY <1>4, <1>6
  <1> HIDE DEF new
  <1>9. /\ upto \o after \in Seq(Events) /\ Len(upto \o after) = Len(upto) + Len(after)
         /\ \A k \in 1 .. Len(upto) + Len(after) :
               (upto \o after)[k] = IF k <= Len(upto) THEN upto[k] ELSE after[k - Len(upto)]
    BY <1>4, <1>6, ConcatProperties
  <1>10. new \in Seq(Events) /\ Len(new) = Len(queue) + 1
    BY <1>2, <1>4, <1>6, <1>7, <1>9
  <1>11. \A k \in 1 .. i : new[k] = queue[k]
    BY <1>2, <1>4, <1>6, <1>7, <1>8, <1>9
  <1>12. new[i + 1] = e
    BY <1>2, <1>4, <1>6, <1>7, <1>8, <1>9
  <1>13. ASSUME NEW k \in i + 2 .. Len(queue) + 1 PROVE new[k] = queue[k - 1]
    <2>1. /\ k \in 1 .. Len(upto) + Len(after) /\ ~(k <= Len(upto))
          /\ k - Len(upto) \in 1 .. Len(queue) - i /\ (k - Len(upto)) + i = k - 1
      BY <1>2, <1>4, <1>6, <1>13
    <2>2. new[k] = after[k - Len(upto)]
      BY <1>7, <1>9, <2>1
    <2> QED
      BY <1>4, <2>1, <2>2
  <1>14. queue' = new
    BY <1>1 DEF new, before, after
  <1>15. \A k \in 1 .. Len(queue) : queue[k] \in Events /\ queue[k] \in Nat /\ e \in Nat
    BY GatewaySenderAssumption DEF Events
  <1>16. \A k \in 1 .. i : queue[k] < e
    <2>1. ASSUME NEW k \in 1 .. i PROVE queue[k] < e
      <3>1. queue[i] <= e /\ i > 0
        BY <1>1, <1>2, <2>1
      <3>2. k < i => queue[k] < queue[i]
        BY <1>2, <2>1 DEF InOrder
      <3>3. queue[k] # e
        BY <1>2, <2>1 DEF Elements
      <3> QED
        BY <1>2, <1>15, <2>1, <3>1, <3>2, <3>3
    <2> QED
      BY <2>1
  <1>17. ASSUME NEW k \in 1 .. Len(new), NEW l \in 1 .. Len(new), k < l
         PROVE  new[k] < new[l]
    <2>1. CASE l <= i
      BY <1>2, <1>11, <1>17, <2>1 DEF InOrder
    <2>2. CASE l = i + 1
      BY <1>2, <1>11, <1>12, <1>16, <1>17, <2>2
    <2>3. CASE l > i + 1
      <3>1. new[l] = queue[l - 1] /\ l - 1 \in i + 1 .. Len(queue) /\ queue[l - 1] > e
        BY <1>1, <1>2, <1>10, <1>13, <2>3
      <3>2. CASE k <= i
        BY <1>2, <1>10, <1>11, <1>17, <2>3, <3>1, <3>2 DEF InOrder
      <3>3. CASE k = i + 1
        BY <1>2, <1>12, <1>15, <3>1, <3>3
      <3>4. CASE k > i + 1
        <4>1. new[k] = queue[k - 1] /\ k - 1 \in 1 .. Len(queue) /\ l - 1 \in 1 .. Len(queue)
              /\ k - 1 < l - 1
          BY <1>2, <1>10, <1>13, <1>17, <3>1, <3>4
        <4> QED
          BY <3>1, <4>1 DEF InOrder
      <3> QED
        BY <1>2, <3>2, <3>3, <3>4
    <2> QED
      BY <1>2, <1>10, <2>1, <2>2, <2>3
  <1>18. Elements(new) = Elements(queue) \cup {e}
    <2>1. ASSUME NEW k \in 1 .. Len(new) PROVE new[k] \in Elements(queue) \cup {e}
      <3>1. CASE k <= i
        BY <1>2, <1>11, <3>1 DEF Elements
      <3>2. CASE k = i + 1
        BY <1>12, <3>2
      <3>3. CASE k > i + 1
        <4>1. k - 1 \in 1 .. Len(queue) /\ new[k] = queue[k - 1]
          BY <1>2, <1>10, <1>13, <3>3
        <4> QED
          BY <4>1 DEF Elements
      <3> QED
        BY <1>2, <1>10, <3>1, <3>2, <3>3
    <2>2. ASSUME NEW k \in 1 .. Len(queue) PROVE queue[k] \in Elements(new)
      <3>1. CASE k <= i
        <4>1. k \in 1 .. Len(new) /\ new[k] = queue[k]
          BY <1>2, <1>10, <1>11, <3>1
        <4> QED
          BY <4>1 DEF Elements
      <3>2. CASE k > i
        <4>1. k + 1 \in 1 .. Len(new) /\ new[k + 1] = queue[k]
          BY <1>2, <1>10, <1>13, <3>2
        <4> QED
          BY <4>1 DEF Elements
      <3> QED
        BY <1>2, <3>1, <3>2
    <2>3. e \in Elements(new)
      <3>1. i + 1 \in 1 .. Len(new)
        BY <1>2, <1>10
      <3> QED
        BY <1>12, <3>1 DEF Elements
    <2> QED
      BY <2>1, <2>2, <2>3 DEF Elements
  <1>19. new # << >>
    BY <1>2, <1>10
  <1> QED
    BY <1>10, <1>14, <1>17, <1>18, <1>19 DEF InOrder, Elements

\* The first n of the queue are the ones that leave it.
LEMMA FrontLeaves ==
    ASSUME queue \in Seq(Events), InOrder, NEW n \in 0 .. Len(queue),
           queue' = SubSeq(queue, n + 1, Len(queue))
    PROVE  /\ queue' \in Seq(Events)
           /\ InOrder'
           /\ First(n) \subseteq Elements(queue)
           /\ Elements(queue)' = Elements(queue) \ First(n)
  <1>1. Len(queue) \in Nat /\ n \in Nat /\ n <= Len(queue)
    OBVIOUS
  <1>2. queue' \in Seq(Events) /\ Len(queue') = Len(queue) - n
        /\ \A k \in 1 .. Len(queue) - n : queue'[k] = queue[k + n]
    BY <1>1
  <1>3. \A k \in 1 .. Len(queue) : queue[k] \in Nat
    BY GatewaySenderAssumption DEF Events
  <1>4. InOrder'
    <2>1. ASSUME NEW k \in 1 .. Len(queue'), NEW l \in 1 .. Len(queue'), k < l
          PROVE  queue'[k] < queue'[l]
      <3>1. k + n \in 1 .. Len(queue) /\ l + n \in 1 .. Len(queue) /\ k + n < l + n
        BY <1>1, <1>2, <2>1
      <3>2. queue'[k] = queue[k + n] /\ queue'[l] = queue[l + n]
        BY <1>1, <1>2
      <3> QED
        BY <3>1, <3>2 DEF InOrder
    <2> QED
      BY <2>1 DEF InOrder
  <1>5. First(n) \subseteq Elements(queue)
    BY <1>1 DEF First, Elements
  <1>6. ASSUME NEW k \in 1 .. Len(queue')
        PROVE  queue'[k] \in Elements(queue) \ First(n)
    <2>1. k + n \in 1 .. Len(queue) /\ queue'[k] = queue[k + n]
      BY <1>1, <1>2
    <2>2. \A m \in 1 .. n : queue[m] < queue[k + n]
      BY <1>1, <2>1 DEF InOrder
    <2>3. queue[k + n] \notin First(n)
      BY <1>1, <1>3, <2>1, <2>2 DEF First
    <2> QED
      BY <2>1, <2>3 DEF Elements
  <1>7. ASSUME NEW k \in 1 .. Len(queue), queue[k] \notin First(n)
        PROVE  queue[k] \in Elements(queue')
    <2>1. k > n
      BY <1>1, <1>7 DEF First
    <2>2. k - n \in 1 .. Len(queue') /\ queue'[k - n] = queue[k]
      BY <1>1, <1>2, <2>1
    <2> QED
      BY <2>2 DEF Elements
  <1>8. Elements(queue') = Elements(queue) \ First(n)
    BY <1>6, <1>7 DEF Elements
  <1> QED
    BY <1>2, <1>4, <1>5, <1>8 DEF Elements

\* The head of the queue is its first element.
LEMMA HeadLeaves ==
    ASSUME queue \in Seq(Events), queue # << >>
    PROVE  /\ Tail(queue) = SubSeq(queue, 2, Len(queue))
           /\ 1 \in 0 .. Len(queue) /\ First(1) = {Head(queue)} /\ Head(queue) \in Events
  <1>1. Len(queue) \in Nat /\ Len(queue) >= 1
    OBVIOUS
  <1>2. Tail(queue) = SubSeq(queue, 2, Len(queue))
    BY TailIsSubSeq
  <1>3. Head(queue) = queue[1] /\ Head(queue) \in Events
    BY <1>1
  <1> QED
    BY <1>1, <1>2, <1>3 DEF First

\* At most n events are among the first n.
LEMMA FirstIsSmall ==
    ASSUME queue \in Seq(Events), NEW n \in 0 .. Len(queue)
    PROVE  IsFiniteSet(First(n)) /\ Cardinality(First(n)) <= n
  <1> DEFINE f == [i \in 1 .. n |-> queue[i]]
  <1>1. n \in Nat /\ IsFiniteSet(1 .. n) /\ Cardinality(1 .. n) = n
    BY FS_Interval
  <1>2. f \in Surjection(1 .. n, First(n))
    BY DEF Surjection, First
  <1> HIDE DEF f
  <1> QED
    BY <1>1, <1>2, FS_Surjection

-----------------------------------------------------------------------------
\* What each action does to the events, the queue and the counters.

\* An event that is not queued is not in the queue.
LEMMA NotInQueue ==
    ASSUME IInv, NEW e \in Events, item[e].phase # "queued"
    PROVE  e \notin Elements(queue)
  BY DEF IInv, Parked, HoldsQueued, Queued, Elements

\* One more drop under any reason.
LEMMA DropCounts ==
    ASSUME dropped \in [DROP_REASONS -> Nat], NEW r \in DROP_REASONS, NEW n \in Nat, Drop(r, n)
    PROVE  /\ dropped' \in [DROP_REASONS -> Nat]
           /\ DroppedTotal \in Nat /\ DroppedTotal' = DroppedTotal + n
  <1>1. dropped' = [dropped EXCEPT ![r] = @ + n] /\ dropped[r] \in Nat
    BY DEF Drop
  <1>2. dropped' \in [DROP_REASONS -> Nat]
    BY <1>1
  <1>3. DroppedTotal' = DroppedTotal + n
    BY <1>1 DEF DroppedTotal, DROP_REASONS
  <1>4. DroppedTotal \in Nat
    BY DEF DroppedTotal, DROP_REASONS
  <1> QED
    BY <1>2, <1>3, <1>4

\* send(): the event is dropped, parked or begun; it is a new one.
LEMMA SendEffect ==
    ASSUME IInv, Send
    PROVE  LET e == enqueued + 1
           IN  /\ e \in Events /\ item[e] = NoItem /\ enqueued' = e /\ sent' = sent
               /\ UNCHANGED <<backlogReason, pauseVars, closed, shutting, failures>>
               /\ \/ /\ UNCHANGED <<item, queue, loop>>
                     /\ \E r \in DROP_REASONS : Drop(r, 1)
                  \/ /\ Cardinality(Live) < MaxPending /\ paused
                     /\ Only(e, {"queued"}, 0, FALSE)
                     /\ Requeue(e, loop) /\ UNCHANGED dropped
                  \/ /\ Cardinality(Live) < MaxPending /\ ~paused
                     /\ Only(e, {"fetching", "answered"}, 0, FALSE)
                     /\ UNCHANGED <<queue, loop, dropped>>
  <1> DEFINE e == enqueued + 1
  <1>1. Types /\ Untouched
    BY DEF IInv, ItemsOK
  <1>2. e \in Events /\ enqueued' = e /\ e > enqueued
    BY <1>1, GatewaySenderAssumption DEF Send, Types, Events
  <1>3. item[e] = NoItem /\ item[e].attempts = 0 /\ item[e].drained = FALSE
    BY <1>1, <1>2 DEF Untouched, NoItem
  <1>4. sent' = sent /\ UNCHANGED <<backlogReason, pauseVars, closed, shutting, failures>>
    BY DEF Send
  <1> HIDE DEF e
  <1>5. CASE closed /\ Drop("shutdown", 1) /\ UNCHANGED <<item, queue, loop>>
    BY <1>2, <1>3, <1>4, <1>5 DEF DROP_REASONS, e
  <1>6. CASE /\ Drop(IF backlogReason = "none" THEN "buffer_overflow" ELSE backlogReason, 1)
             /\ UNCHANGED <<item, queue, loop>>
    <2>1. (IF backlogReason = "none" THEN "buffer_overflow" ELSE backlogReason) \in DROP_REASONS
      BY <1>1 DEF Types, DROP_REASONS
    <2> QED
      BY <1>2, <1>3, <1>4, <1>6, <2>1 DEF e
  <1>7. CASE /\ Cardinality(Live) < MaxPending /\ paused
             /\ item' = [item EXCEPT ![enqueued'].phase = "queued"]
             /\ Requeue(enqueued', loop) /\ UNCHANGED dropped
    <2>1. Only(e, {"queued"}, 0, FALSE)
      <3>1. item' = [item EXCEPT ![e].phase = "queued"] /\ "queued" \in Phases \ {"answered"}
        BY <1>2, <1>7 DEF Phases
      <3> QED
        BY <1>1, <1>2, <1>3, <3>1, PhaseOnly
    <2>2. Requeue(e, loop)
      BY <1>2, <1>7
    <2> QED
      BY <1>2, <1>3, <1>4, <1>7, <2>1, <2>2 DEF e
  <1>8. CASE /\ Cardinality(Live) < MaxPending /\ ~paused
             /\ item' = [item EXCEPT ![enqueued'] = Begun(@, enqueued', FALSE)]
             /\ UNCHANGED <<dropped, queue, loop>>
    <2>1. Only(e, {"fetching", "answered"}, 0, FALSE)
      <3>1. item' = [item EXCEPT ![e] = Begun(item[e], e, FALSE)]
        BY <1>2, <1>8
      <3> QED
        BY <1>1, <1>2, <1>3, <3>1, BegunOnly
    <2> QED
      BY <1>2, <1>3, <1>4, <1>8, <2>1 DEF e
  <1> QED
    BY <1>5, <1>6, <1>7, <1>8 DEF Send

\* An answer: its event has its outcome, unless shutdown settled it before.
LEMMA AnswerEffect ==
    ASSUME IInv, NEW e \in Events, AnswerStep(e)
    PROVE  /\ UNCHANGED <<enqueued, sent, dropped, queue, closed, shutting>>
           /\ \/ /\ item[e].phase = "fetching" /\ UNCHANGED loop
                 /\ Only(e, {"answered"}, item[e].attempts, item[e].drained)
              \/ /\ item[e].phase = "abandoned" /\ loop' = Returned(e)
                 /\ Only(e, {"settled"}, item[e].attempts, item[e].drained)
           /\ \/ UNCHANGED <<pauseVars, failures>>
              \/ UNCHANGED pauseVars /\ failures > 0 /\ failures' = failures - 1
              \/ Pause /\ failures > 0 /\ failures' = failures - 1
           /\ backlogReason' \in {"none", "send_failed", "rate_limited"}
  <1>1. Types
    BY DEF IInv
  <1>2. PICK o \in Outcomes \ {"none"} : Answered(e, o)
    BY DEF AnswerStep, AnswerOk, AnswerFailed, AnswerLimited, Outcomes
  <1>3. Fetching(e)
    BY DEF AnswerStep, AnswerOk, AnswerFailed, AnswerLimited
  <1>4. \/ /\ item[e].phase = "fetching" /\ UNCHANGED loop
           /\ Only(e, {"answered"}, item[e].attempts, item[e].drained)
        \/ /\ item[e].phase = "abandoned" /\ loop' = Returned(e)
           /\ Only(e, {"settled"}, item[e].attempts, item[e].drained)
    <2>1. CASE item[e].phase = "abandoned"
      <3>1. item' = [item EXCEPT ![e].phase = "settled"] /\ loop' = Returned(e) /\ "settled" \in Phases \ {"answered"}
        BY <1>2, <2>1 DEF Answered, Settle, Phases
      <3> QED
        BY <1>1, <2>1, <3>1, PhaseOnly
    <2>2. CASE item[e].phase # "abandoned"
      <3>1. item' = [item EXCEPT ![e].phase = "answered", ![e].outcome = o] /\ UNCHANGED loop
        BY <1>2, <2>2 DEF Answered
      <3>2. item[e].phase = "fetching"
        BY <1>3, <2>2 DEF Fetching
      <3> QED
        BY <1>1, <3>1, <3>2, AnsweredOnly
    <2> QED
      BY <2>1, <2>2
  <1>5. UNCHANGED <<enqueued, sent, dropped, queue, closed, shutting>>
    BY DEF AnswerStep, AnswerOk, AnswerFailed, AnswerLimited, countVars
  <1>6. \/ UNCHANGED <<pauseVars, failures>>
        \/ UNCHANGED pauseVars /\ failures > 0 /\ failures' = failures - 1
        \/ Pause /\ failures > 0 /\ failures' = failures - 1
    BY DEF AnswerStep, AnswerOk, AnswerFailed, AnswerLimited
  <1>7. backlogReason' \in {"none", "send_failed", "rate_limited"}
    BY <1>1 DEF AnswerStep, AnswerOk, AnswerFailed, AnswerLimited, countVars, Types
  <1> QED
    BY <1>4, <1>5, <1>6, <1>7

\* process(): the event is settled and counted, parked, asleep or in its next
\* attempt.
LEMMA ProcessEffect ==
    ASSUME IInv, NEW e \in Events, ProcessStep(e)
    PROVE  /\ UNCHANGED <<enqueued, pauseVars, closed, shutting, failures>>
           /\ backlogReason' \in {"none", "send_failed", "rate_limited"}
           /\ \/ /\ item[e].phase = "answered" /\ loop' = Returned(e)
                 /\ \E a \in {item[e].attempts, item[e].attempts + 1} :
                        Only(e, {"settled"}, a, item[e].drained)
                 /\ UNCHANGED queue
                 /\ \/ sent' = sent + 1 /\ UNCHANGED dropped
                    \/ UNCHANGED sent /\ \E r \in DROP_REASONS : Drop(r, 1)
              \/ /\ item[e].phase \in {"answered", "sleeping"} /\ Requeue(e, Returned(e))
                 /\ \E a \in {item[e].attempts, item[e].attempts + 1} :
                        a < MaxAttempts /\ Only(e, {"queued"}, a, item[e].drained)
                 /\ paused /\ UNCHANGED <<sent, dropped>>
              \/ /\ item[e].phase = "answered" /\ item[e].attempts + 1 < MaxAttempts
                 /\ Only(e, {"sleeping"}, item[e].attempts + 1, item[e].drained)
                 /\ UNCHANGED <<sent, dropped, queue, loop>>
              \/ /\ item[e].phase = "sleeping" /\ ~paused
                 /\ Only(e, {"fetching", "answered"}, item[e].attempts, item[e].drained)
                 /\ UNCHANGED <<sent, dropped, queue, loop>>
  <1>1. Types /\ HasTryLeft
    BY DEF IInv, ItemsOK
  <1>2. /\ item[e].outcome \in Outcomes /\ item[e].attempts \in Nat /\ item[e].drained \in BOOLEAN
        /\ backlogReason \in {"none", "send_failed", "rate_limited"}
        /\ {"settled", "queued", "sleeping"} \subseteq Phases \ {"answered"}
        /\ item[e].phase = "answered" => item[e].outcome # "none"
    BY <1>1, ItemFields DEF Types, Items, Phases
  <1>3. CASE ProcessOk(e)
    <2>1. Only(e, {"settled"}, item[e].attempts, item[e].drained)
      BY <1>1, <1>2, <1>3, PhaseOnly DEF ProcessOk, Settle
    <2>2. \/ sent' = sent + 1 /\ UNCHANGED dropped
          \/ UNCHANGED sent /\ Drop("server_skipped", 1)
      <3>1. CASE item[e].outcome = "ok"
        BY <1>3, <3>1 DEF ProcessOk
      <3>2. CASE item[e].outcome # "ok"
        BY <1>3, <3>2 DEF ProcessOk
      <3> QED
        BY <3>1, <3>2
    <2>3. "server_skipped" \in DROP_REASONS
      BY DEF DROP_REASONS
    <2>4. /\ item[e].phase = "answered" /\ loop' = Returned(e) /\ backlogReason' = "none"
          /\ UNCHANGED <<enqueued, queue, pauseVars, closed, shutting, failures>>
      BY <1>3 DEF ProcessOk
    <2> QED
      BY <2>1, <2>2, <2>3, <2>4
  <1>4. CASE GiveUp(e)
    <2>1. item[e].attempts < MaxAttempts
      BY <1>1, <1>4 DEF GiveUp, HasTryLeft
    <2>2. Only(e, {"settled"}, item[e].attempts + 1, item[e].drained)
      BY <1>1, <1>2, <1>4, <2>1, TriedOnly DEF GiveUp
    <2>3. (IF item[e].outcome = "unsafe" THEN "send_failed" ELSE item[e].outcome) \in DROP_REASONS
      BY <1>2, <1>4 DEF GiveUp, Outcomes, DROP_REASONS
    <2>4. \E r \in DROP_REASONS : Drop(r, 1)
      BY <1>4, <2>3 DEF GiveUp
    <2> QED
      BY <1>2, <1>4, <2>2, <2>4 DEF GiveUp, countVars
  <1>5. CASE Retry(e)
    <2>1. item[e].attempts < MaxAttempts /\ item[e].attempts + 1 < MaxAttempts
      BY <1>1, <1>5 DEF Retry, HasTryLeft, Tried
    <2>2. CASE paused /\ Requeue(e, Returned(e))
               /\ item' = [item EXCEPT ![e].phase = "queued", ![e].attempts = Tried(e)]
      <3>1. Only(e, {"queued"}, item[e].attempts + 1, item[e].drained)
        BY <1>1, <1>2, <2>1, <2>2, TriedOnly
      <3>2. /\ UNCHANGED <<enqueued, sent, dropped, backlogReason>>
            /\ UNCHANGED <<pauseVars, closed, shutting, failures>>
            /\ item[e].phase = "answered"
        BY <1>5 DEF Retry, countVars
      <3> QED
        BY <1>2, <2>1, <2>2, <3>1, <3>2
    <2>3. CASE /\ item' = [item EXCEPT ![e].phase = "sleeping", ![e].attempts = Tried(e)]
               /\ UNCHANGED <<queue, loop>>
      <3>1. Only(e, {"sleeping"}, item[e].attempts + 1, item[e].drained)
        BY <1>1, <1>2, <2>1, <2>3, TriedOnly
      <3> QED
        BY <1>2, <1>5, <2>1, <2>3, <3>1 DEF Retry, countVars
    <2> QED
      BY <1>5, <2>2, <2>3 DEF Retry
  <1>6. CASE Wakes(e)
    <2>1. item[e].phase = "sleeping" /\ item[e].attempts < MaxAttempts
      BY <1>1, <1>6 DEF Wakes, HasTryLeft
    <2>2. CASE paused /\ Requeue(e, Returned(e)) /\ item' = [item EXCEPT ![e].phase = "queued"]
      <3>1. Only(e, {"queued"}, item[e].attempts, item[e].drained)
        BY <1>1, <1>2, <2>2, PhaseOnly
      <3> QED
        BY <1>2, <1>6, <2>1, <2>2, <3>1 DEF Wakes, countVars
    <2>3. CASE ~paused /\ item' = [item EXCEPT ![e] = Begun(@, e, @.drained)]
               /\ UNCHANGED <<queue, loop>>
      <3>1. Only(e, {"fetching", "answered"}, item[e].attempts, item[e].drained)
        BY <1>1, <1>2, <2>3, BegunOnly
      <3> QED
        BY <1>2, <1>6, <2>1, <2>3, <3>1 DEF Wakes, countVars
    <2> QED
      BY <1>6, <2>2, <2>3 DEF Wakes
  <1> QED
    BY <1>3, <1>4, <1>5, <1>6 DEF ProcessStep

\* The events that leave the queue for a drain worker.
Picked(picked) ==
    /\ item' \in [Events -> Items]
    /\ \A e \in Events :
          IF e \in picked
          THEN /\ item'[e].phase \in {"fetching", "answered"}
               /\ item'[e].attempts = item[e].attempts /\ item'[e].drained = TRUE
          ELSE item'[e] = item[e]

Takes(n) ==
    /\ n \in 0 .. Len(queue)
    /\ Picked(First(n))
    /\ queue' = SubSeq(queue, n + 1, Len(queue))

\* Nothing is taken from the queue.
LEMMA TakesNone ==
    ASSUME Types, UNCHANGED <<item, queue>>
    PROVE  Takes(0)
  <1>1. First(0) = {}
    BY DEF First
  <1>2. queue' = SubSeq(queue, 1, Len(queue)) /\ 0 \in 0 .. Len(queue)
    BY SubSeqFull DEF Types
  <1> QED
    BY <1>1, <1>2 DEF Takes, Picked, Types

\* The first round of workers.
LEMMA WorkersEffect ==
    ASSUME Types, Workers
    PROVE  \E n \in 0 .. Len(queue) :
              /\ Takes(n) /\ n <= DRAIN_CONCURRENCY
              /\ n = 0 => queue = << >> /\ loop' = NoLoop
              /\ n > 0 => queue # << >> /\ loop' = [NoLoop EXCEPT !.at = "run"]
  <1> DEFINE n == IF Len(queue) < DRAIN_CONCURRENCY THEN Len(queue) ELSE DRAIN_CONCURRENCY
  <1>1. Len(queue) \in Nat /\ DRAIN_CONCURRENCY \in Nat \ {0} /\ item \in [Events -> Items]
    BY GatewaySenderAssumption DEF Types
  <1>2. n \in 0 .. Len(queue) /\ n <= DRAIN_CONCURRENCY /\ (n = 0 => Len(queue) = 0)
        /\ (n > 0 => Len(queue) > 0)
    BY <1>1
  <1>3. /\ item' = [e \in Events |-> IF e \in First(n) THEN Begun(item[e], e, TRUE) ELSE item[e]]
        /\ queue' = SubSeq(queue, n + 1, Len(queue))
        /\ loop' = IF n = 0 THEN NoLoop ELSE [NoLoop EXCEPT !.at = "run"]
    BY DEF Workers
  <1> HIDE DEF n
  <1>4. Picked(First(n))
    <2>1. \A e \in Events : /\ Begun(item[e], e, TRUE) \in Items
                            /\ Begun(item[e], e, TRUE).phase \in {"fetching", "answered"}
                            /\ Begun(item[e], e, TRUE).attempts = item[e].attempts
                            /\ Begun(item[e], e, TRUE).drained = TRUE
      BY <1>1, BegunType
    <2> QED
      BY <1>1, <1>3, <2>1 DEF Picked
  <1>5. Len(queue) = 0 => queue = << >>
    BY DEF Types
  <1>6. Len(queue) > 0 => queue # << >>
    OBVIOUS
  <1> QED
    BY <1>2, <1>3, <1>4, <1>5, <1>6 DEF Takes

\* The drain loop goes to sleep, starts a round, or gives a worker its turn.
Sleeps ==
    /\ paused /\ paused' = paused /\ loop' = Asleep
    /\ UNCHANGED <<item, queue>>
    /\ Drained = {}
Round(n) ==
    /\ Takes(n) /\ n <= DRAIN_CONCURRENCY
    /\ n = 0 => queue = << >> /\ loop' = NoLoop
    /\ n > 0 => queue # << >> /\ loop' = [NoLoop EXCEPT !.at = "run"] /\ paused' = FALSE
    /\ Drained = {}
    /\ paused' = paused \/ (loop.at = "wait" /\ loop.nap = 0 /\ pauses = loop.seen)
Turn(n) ==
    /\ loop.at = "run" /\ loop.turns > 0 /\ loop' = [loop EXCEPT !.turns = @ - 1]
    /\ paused' = paused
    /\ Takes(n)
    /\ n = 1 => ~paused

\* What a step of the drain loop does: it sleeps, or it ends or starts a round.
LEMMA DrainEffect ==
    ASSUME IInv, DrainStep
    PROVE  /\ UNCHANGED <<countVars, resumeAt, pauses, closed, shutting, failures>>
           /\ paused' \in BOOLEAN
           /\ \/ Sleeps
              \/ \E n \in 0 .. Len(queue) : Round(n)
              \/ \E n \in {0, 1} : Turn(n)
  <1>1. Types /\ Drain /\ paused \in BOOLEAN
    BY DEF IInv, Types
  <1>2. CASE Resume
    <2>1. /\ loop.at = "wait" /\ loop.nap = 0 /\ paused' = (paused /\ pauses # loop.seen)
          /\ UNCHANGED <<countVars, resumeAt, pauses, closed, shutting, failures>>
      BY <1>2 DEF Resume
    <2>2. Drained = {}
      BY <1>1, <2>1 DEF Drain
    <2>3. CASE paused'
      <3>1. loop' = Asleep /\ UNCHANGED <<item, queue>>
        BY <1>2, <2>3 DEF Resume
      <3>2. paused /\ paused' = paused
        BY <1>1, <2>1, <2>3
      <3> QED
        BY <1>1, <2>1, <2>2, <3>1, <3>2 DEF Sleeps
    <2>4. CASE ~paused'
      <3>1. Workers
        BY <1>2, <2>4 DEF Resume
      <3>2. PICK n \in 0 .. Len(queue) :
              /\ Takes(n) /\ n <= DRAIN_CONCURRENCY
              /\ n = 0 => queue = << >> /\ loop' = NoLoop
              /\ n > 0 => queue # << >> /\ loop' = [NoLoop EXCEPT !.at = "run"]
        BY <1>1, <3>1, WorkersEffect
      <3>3. paused' = FALSE /\ (paused' = paused \/ pauses = loop.seen)
        BY <1>1, <2>1, <2>4
      <3>4. Round(n)
        BY <2>1, <2>2, <3>2, <3>3 DEF Round
      <3> QED
        BY <2>1, <3>3, <3>4
    <2> QED
      BY <2>3, <2>4
  <1>3. CASE WorkerTurn
    <2>1. /\ loop.at = "run" /\ loop.turns > 0 /\ loop' = [loop EXCEPT !.turns = @ - 1]
          /\ UNCHANGED <<countVars, resumeAt, pauses, closed, shutting, failures>>
          /\ paused' = paused
      BY <1>3 DEF WorkerTurn, pauseVars
    <2>2. CASE queue # << >> /\ ~paused
      <3>1. /\ item' = [item EXCEPT ![Head(queue)] = Begun(@, Head(queue), TRUE)]
            /\ queue' = Tail(queue)
        BY <1>3, <2>2 DEF WorkerTurn
      <3>2. /\ Tail(queue) = SubSeq(queue, 2, Len(queue)) /\ 1 \in 0 .. Len(queue)
            /\ First(1) = {Head(queue)} /\ Head(queue) \in Events
        BY <1>1, <2>2, HeadLeaves DEF Types
      <3>3. Only(Head(queue), {"fetching", "answered"}, item[Head(queue)].attempts, TRUE)
        BY <1>1, <3>1, <3>2, BegunOnly
      <3>4. Picked(First(1))
        BY <3>2, <3>3 DEF Picked, Only
      <3>5. Takes(1)
        BY <3>1, <3>2, <3>4 DEF Takes
      <3>6. Turn(1)
        BY <2>1, <2>2, <3>5 DEF Turn
      <3> QED
        BY <1>1, <2>1, <3>6
    <2>3. CASE ~(queue # << >> /\ ~paused)
      <3>1. UNCHANGED <<item, queue>>
        BY <1>3, <2>3 DEF WorkerTurn
      <3>2. Takes(0)
        BY <1>1, <3>1, TakesNone
      <3>3. Turn(0)
        BY <2>1, <3>2 DEF Turn
      <3> QED
        BY <1>1, <2>1, <3>3
    <2> QED
      BY <2>2, <2>3
  <1>4. CASE NextRound
    <2>1. /\ Drained = {} /\ paused' = paused
          /\ UNCHANGED <<countVars, resumeAt, pauses, closed, shutting, failures>>
      BY <1>4 DEF NextRound, pauseVars
    <2>2. CASE queue # << >> /\ paused
      <3>1. loop' = Asleep /\ UNCHANGED <<item, queue>>
        BY <1>4, <2>2 DEF NextRound
      <3> QED
        BY <1>1, <2>1, <2>2, <3>1 DEF Sleeps
    <2>3. CASE ~(queue # << >> /\ paused)
      <3>1. Workers
        BY <1>4, <2>3 DEF NextRound
      <3>2. PICK n \in 0 .. Len(queue) :
              /\ Takes(n) /\ n <= DRAIN_CONCURRENCY
              /\ n = 0 => queue = << >> /\ loop' = NoLoop
              /\ n > 0 => queue # << >> /\ loop' = [NoLoop EXCEPT !.at = "run"]
        BY <1>1, <3>1, WorkersEffect
      <3>3. n > 0 => paused' = FALSE
        BY <1>1, <2>1, <2>3, <3>2
      <3>4. Round(n)
        BY <2>1, <3>2, <3>3 DEF Round
      <3> QED
        BY <1>1, <2>1, <3>4
    <2> QED
      BY <2>2, <2>3
  <1> QED
    BY <1>2, <1>3, <1>4 DEF DrainStep

-----------------------------------------------------------------------------
\* Each part of the invariant is preserved.  Requeue is the same in all its uses.
LEMMA RequeueEffect ==
    ASSUME IInv, NEW e \in Events, item[e].phase # "queued", NEW running \in Loops,
           Requeue(e, running)
    PROVE  /\ queue' \in Seq(Events) /\ queue' # << >> /\ InOrder'
           /\ Elements(queue)' = Elements(queue) \cup {e}
           /\ loop' \in Loops
           /\ loop' = IF loop.at = "off" THEN Asleep ELSE running
  <1>1. Types /\ InOrder /\ e \notin Elements(queue)
    BY NotInQueue DEF IInv, Parked
  <1>2. Inserted(e) /\ loop' = IF loop.at = "off" THEN Asleep ELSE running
    BY DEF Requeue
  <1>3. /\ queue' \in Seq(Events) /\ queue' # << >> /\ InOrder'
        /\ Elements(queue)' = Elements(queue) \cup {e}
    BY <1>1, <1>2, InsertedKeepsOrder DEF Types
  <1>4. loop' \in Loops
    BY <1>1, <1>2, LoopTypes
  <1> QED
    BY <1>2, <1>3, <1>4

\* Every step keeps the types.
LEMMA StepTypes ==
    ASSUME IInv, Next
    PROVE  Types'
  <1>1. Types /\ Drain
    BY DEF IInv
  <1>2. /\ MaxEvents \in Nat /\ MaxRetryAfter \in Nat /\ MaxFailures \in Nat
    BY GatewaySenderAssumption
  <1>3. CASE Send
    <2> DEFINE e == enqueued + 1
    <2>1. /\ e \in Events /\ item[e] = NoItem /\ enqueued' = e /\ sent' = sent
          /\ UNCHANGED <<backlogReason, pauseVars, closed, shutting, failures>>
          /\ \/ UNCHANGED <<item, queue, loop>> /\ \E r \in DROP_REASONS : Drop(r, 1)
             \/ Only(e, {"queued"}, 0, FALSE) /\ Requeue(e, loop) /\ UNCHANGED dropped
             \/ Only(e, {"fetching", "answered"}, 0, FALSE) /\ UNCHANGED <<queue, loop, dropped>>
      BY <1>3, SendEffect
    <2> HIDE DEF e
    <2>2. enqueued' \in 0 .. MaxEvents
      BY <2>1 DEF Events
    <2>3. CASE UNCHANGED <<item, queue, loop>> /\ \E r \in DROP_REASONS : Drop(r, 1)
      <3>1. dropped' \in [DROP_REASONS -> Nat]
        BY <1>1, <2>3, DropCounts DEF Types
      <3> QED
        BY <1>1, <2>1, <2>2, <2>3, <3>1 DEF Types, pauseVars
    <2>4. CASE Only(e, {"queued"}, 0, FALSE) /\ Requeue(e, loop) /\ UNCHANGED dropped
      <3>1. queue' \in Seq(Events) /\ loop' \in Loops
        BY <1>1, <2>1, <2>4, RequeueEffect DEF NoItem, Types
      <3>2. item' \in [Events -> Items]
        BY <2>4 DEF Only
      <3> QED
        BY <1>1, <2>1, <2>2, <2>4, <3>1, <3>2 DEF Types, pauseVars
    <2>5. CASE Only(e, {"fetching", "answered"}, 0, FALSE) /\ UNCHANGED <<queue, loop, dropped>>
      <3>1. item' \in [Events -> Items]
        BY <2>5 DEF Only
      <3> QED
        BY <1>1, <2>1, <2>2, <2>5, <3>1 DEF Types, pauseVars
    <2> QED
      BY <2>1, <2>3, <2>4, <2>5
  <1>4. ASSUME NEW e \in Events, AnswerStep(e) PROVE Types'
    <2>1. /\ UNCHANGED <<enqueued, sent, dropped, queue, closed, shutting>>
          /\ item' \in [Events -> Items] /\ loop' \in Loops
          /\ backlogReason' \in {"none", "send_failed", "rate_limited"}
      <3>1. /\ UNCHANGED <<enqueued, sent, dropped, queue, closed, shutting>>
            /\ backlogReason' \in {"none", "send_failed", "rate_limited"}
        BY <1>4, AnswerEffect
      <3>2. item' \in [Events -> Items]
        BY <1>4, AnswerEffect DEF Only
      <3>3. loop' = loop \/ loop' = Returned(e)
        BY <1>4, AnswerEffect
      <3> QED
        BY <1>1, <3>1, <3>2, <3>3, LoopTypes
    <2>2. /\ failures' \in Nat /\ pauses' \in Nat /\ pauses' + failures' <= MaxFailures
          /\ paused' \in BOOLEAN /\ resumeAt' \in 0 .. MaxRetryAfter
      <3>1. CASE UNCHANGED <<pauseVars, failures>>
        BY <1>1, <3>1 DEF Types, pauseVars
      <3>2. CASE UNCHANGED pauseVars /\ failures > 0 /\ failures' = failures - 1
        BY <1>1, <1>2, <3>2 DEF Types, pauseVars
      <3>3. CASE Pause /\ failures > 0 /\ failures' = failures - 1
        BY <1>1, <1>2, <3>3 DEF Types, Pause
      <3> QED
        BY <1>4, <3>1, <3>2, <3>3, AnswerEffect
    <2> QED
      BY <1>1, <2>1, <2>2 DEF Types
  <1>5. ASSUME NEW e \in Events, ProcessStep(e) PROVE Types'
    <2>1. /\ UNCHANGED <<enqueued, pauseVars, closed, shutting, failures>>
          /\ backlogReason' \in {"none", "send_failed", "rate_limited"}
          /\ item' \in [Events -> Items]
      BY <1>5, ProcessEffect DEF Only
    <2>2. queue' \in Seq(Events) /\ loop' \in Loops
      <3>1. \/ Requeue(e, Returned(e)) /\ item[e].phase \in {"answered", "sleeping"}
            \/ UNCHANGED queue /\ (loop' = Returned(e) \/ UNCHANGED loop)
        BY <1>5, ProcessEffect
      <3> QED
        BY <1>1, <3>1, RequeueEffect, LoopTypes DEF Types
    <2>3. sent' \in Nat /\ dropped' \in [DROP_REASONS -> Nat]
      <3>1. \/ UNCHANGED <<sent, dropped>>
            \/ sent' = sent + 1 /\ UNCHANGED dropped
            \/ UNCHANGED sent /\ \E r \in DROP_REASONS : Drop(r, 1)
        BY <1>5, ProcessEffect
      <3> QED
        BY <1>1, <3>1, DropCounts DEF Types
    <2> QED
      BY <1>1, <2>1, <2>2, <2>3 DEF Types, pauseVars
  <1>6. CASE DrainStep
    <2>1. /\ UNCHANGED <<countVars, resumeAt, pauses, closed, shutting, failures>>
          /\ paused' \in BOOLEAN
      BY <1>6, DrainEffect
    <2>2. loop' \in Loops
      <3>1. \/ loop' \in {Asleep, NoLoop, [NoLoop EXCEPT !.at = "run"]}
            \/ loop.turns > 0 /\ loop' = [loop EXCEPT !.turns = @ - 1]
        <4>1. CASE Sleeps
          BY <4>1 DEF Sleeps
        <4>2. ASSUME NEW n \in 0 .. Len(queue), Round(n)
              PROVE  loop' \in {NoLoop, [NoLoop EXCEPT !.at = "run"]}
          <5>1. n = 0 \/ n > 0
            BY <1>1 DEF Types
          <5> QED
            BY <4>2, <5>1 DEF Round
        <4>3. CASE \E n \in {0, 1} : Turn(n)
          BY <4>3 DEF Turn
        <4> QED
          BY <1>6, <4>1, <4>2, <4>3, DrainEffect
      <3>2. loop.turns > 0 => [loop EXCEPT !.turns = @ - 1] \in Loops
        <4>1. loop \in Loops /\ loop.turns \in Nat
          BY <1>1, LoopEdit DEF Types
        <4>2. loop.turns > 0 => loop.turns - 1 \in Nat
          BY <4>1
        <4> QED
          BY <4>1, <4>2, LoopEdit
      <3> QED
        BY <1>1, <3>1, <3>2, LoopTypes
    <2>3. item' \in [Events -> Items] /\ queue' \in Seq(Events)
      <3>1. UNCHANGED <<item, queue>> \/ \E n \in 0 .. Len(queue) : Takes(n)
        BY <1>6, DrainEffect DEF Sleeps, Round, Turn, Takes
      <3>2. ASSUME NEW n \in 0 .. Len(queue), Takes(n)
            PROVE  item' \in [Events -> Items] /\ queue' \in Seq(Events)
        <4>1. queue \in Seq(Events) /\ InOrder
          BY <1>1 DEF Types, IInv, Parked
        <4> QED
          BY <3>2, <4>1, FrontLeaves DEF Takes, Picked
      <3> QED
        BY <1>1, <3>1, <3>2 DEF Types
    <2> QED
      BY <1>1, <2>1, <2>2, <2>3 DEF Types, countVars
  <1>7. CASE Shutdown
    <2>1. resumeAt' \in 0 .. MaxRetryAfter /\ 0 \in 0 .. MaxRetryAfter
      BY <1>1, <1>2, <1>7 DEF Shutdown, Types
    <2>2. loop' \in Loops
      <3>1. loop' = loop \/ loop' = [loop EXCEPT !.nap = 0]
        BY <1>7 DEF Shutdown
      <3> QED
        BY <1>1, <2>1, <3>1, LoopEdit DEF Types
    <2> QED
      BY <1>1, <1>7, <2>1, <2>2 DEF Shutdown, Types, countVars
  <1>8. CASE ShutdownEnds
    <2>1. Cardinality(Live) \in Nat /\ Cardinality({e \in Drained : item[e].phase # "fetching"}) \in Nat
      <3>1. IsFiniteSet(Events)
        BY <1>2, FS_Interval DEF Events
      <3>2. Live \in SUBSET Events /\ {e \in Drained : item[e].phase # "fetching"} \in SUBSET Events
        BY DEF Live, Drained
      <3> QED
        BY <3>1, <3>2, FS_Subset, FS_CardinalityType
    <2>2. dropped' \in [DROP_REASONS -> Nat]
      <3>1. "shutdown" \in DROP_REASONS
        BY DEF DROP_REASONS
      <3> QED
        BY <1>1, <1>8, <2>1, <3>1, DropCounts DEF Types, ShutdownEnds
    <2>3. item' \in [Events -> Items]
      <3>1. \A e \in Events : /\ [item[e] EXCEPT !.phase = "abandoned"] \in Items
                              /\ [item[e] EXCEPT !.phase = "settled"] \in Items
        BY <1>1 DEF Types, Items, Fields, Phases
      <3>2. \A e \in Events : item'[e] \in Items
        BY <1>1, <1>8, <3>1 DEF ShutdownEnds, Types
      <3> QED
        BY <1>8, <3>2 DEF ShutdownEnds
    <2>4. loop' \in Loops
      <3> DEFINE t == loop.turns + Cardinality({e \in Drained : item[e].phase # "fetching"})
      <3>1. loop' = [loop EXCEPT !.turns = t]
        BY <1>8 DEF ShutdownEnds
      <3>2. loop \in Loops /\ loop.turns \in Nat
        BY <1>1, LoopEdit DEF Types
      <3>3. t \in Nat
        BY <2>1, <3>2
      <3> HIDE DEF t
      <3> QED
        BY <3>1, <3>2, <3>3, LoopEdit
    <2>5. queue' \in Seq(Events)
      BY <1>8 DEF ShutdownEnds
    <2> QED
      BY <1>1, <1>8, <2>2, <2>3, <2>4, <2>5 DEF ShutdownEnds, Types, pauseVars
  <1>9. CASE Tick
    <2>1. resumeAt' \in 0 .. MaxRetryAfter
      BY <1>1, <1>2, <1>9 DEF Tick, Types
    <2>2. loop' \in Loops
      <3> DEFINE n == IF loop.nap > 0 THEN loop.nap - 1 ELSE 0
      <3>1. loop \in Loops /\ loop.nap \in 0 .. MaxRetryAfter
        BY <1>1, LoopEdit DEF Types
      <3>2. n \in 0 .. MaxRetryAfter
        BY <1>2, <3>1
      <3>3. loop' = [loop EXCEPT !.nap = n]
        BY <1>9 DEF Tick
      <3> HIDE DEF n
      <3> QED
        BY <3>1, <3>2, <3>3, LoopEdit
    <2> QED
      BY <1>1, <1>9, <2>1, <2>2 DEF Tick, Types, countVars
  <1> QED
    BY <1>3, <1>4, <1>5, <1>6, <1>7, <1>8, <1>9 DEF Next

\* A step that changes one event of those that have been sent.
LEMMA OnlyKeepsItems ==
    ASSUME Types, ItemsOK, NEW e \in Events, NEW P, NEW a, NEW d, Only(e, P, a, d),
           enqueued' \in Nat, enqueued <= enqueued', e <= enqueued', shutting' = shutting,
           "abandoned" \notin P,
           a < MaxAttempts \/ P = {"settled"}
    PROVE  ItemsOK'
  <1>1. enqueued \in Nat /\ \A f \in Events : f \in Nat
    BY GatewaySenderAssumption DEF Types, Events
  <1>2. /\ \A f \in Events : f # e => item'[f] = item[f]
        /\ item'[e].phase \in P /\ item'[e].attempts = a
    BY DEF Only
  <1>3. Untouched'
    <2>1. ASSUME NEW f \in Events, f > enqueued' PROVE item'[f] = NoItem
      <3>1. f # e /\ f > enqueued
        BY <1>1, <2>1
      <3> QED
        BY <1>2, <3>1 DEF ItemsOK, Untouched
    <2> QED
      BY <2>1 DEF Untouched, NoItem
  <1>4. HasTryLeft'
    BY <1>2 DEF ItemsOK, HasTryLeft
  <1>5. NoneAbandoned'
    BY <1>2 DEF ItemsOK, NoneAbandoned
  <1> QED
    BY <1>3, <1>4, <1>5 DEF ItemsOK

\* An event that is under way has been sent.
LEMMA WasSent ==
    ASSUME Types, Untouched, NEW e \in Events, item[e].phase # "none"
    PROVE  e <= enqueued /\ enqueued \in Nat
  <1>1. enqueued \in Nat /\ e \in Nat
    BY GatewaySenderAssumption DEF Types, Events
  <1> QED
    BY <1>1 DEF Untouched, NoItem

\* An event in the queue is parked.
LEMMA FrontIsQueued ==
    ASSUME IInv, NEW n \in 0 .. Len(queue)
    PROVE  First(n) \subseteq Queued /\ First(n) \subseteq Events
  <1>1. First(n) \subseteq Elements(queue)
    BY DEF First, Elements, IInv, Types
  <1> QED
    BY <1>1 DEF IInv, Parked, HoldsQueued, Elements, Queued

\* Every step keeps what is known of the single event.
LEMMA StepItems ==
    ASSUME IInv, Next
    PROVE  ItemsOK'
  <1>1. Types /\ ItemsOK /\ Untouched /\ HasTryLeft
    BY DEF IInv, ItemsOK
  <1>2. enqueued \in Nat /\ MaxAttempts \in Nat \ {0} /\ \A f \in Events : f \in Nat
    BY <1>1, GatewaySenderAssumption DEF Types, Events
  <1>3. CASE enqueued' \in Nat /\ enqueued <= enqueued' /\ UNCHANGED <<item, shutting>>
    <2>1. ASSUME NEW f \in Events, f > enqueued' PROVE f > enqueued
      BY <1>2, <1>3, <2>1
    <2> QED
      BY <1>1, <1>3, <2>1 DEF ItemsOK, Untouched, HasTryLeft, NoneAbandoned, NoItem
  <1>4. CASE Send
    <2> DEFINE e == enqueued + 1
    <2>1. /\ e \in Events /\ enqueued' = e /\ UNCHANGED shutting
          /\ \/ UNCHANGED item
             \/ Only(e, {"queued"}, 0, FALSE)
             \/ Only(e, {"fetching", "answered"}, 0, FALSE)
      BY <1>4, SendEffect
    <2>2. enqueued' \in Nat /\ enqueued <= enqueued' /\ e <= enqueued'
      BY <1>2, <2>1
    <2> HIDE DEF e
    <2>3. ASSUME NEW P \in {{"queued"}, {"fetching", "answered"}}, Only(e, P, 0, FALSE)
          PROVE  ItemsOK'
      <3>1. "abandoned" \notin P /\ 0 < MaxAttempts
        BY <1>2, <2>3
      <3> QED
        BY <1>1, <2>1, <2>2, <2>3, <3>1, OnlyKeepsItems
    <2> QED
      BY <1>3, <2>1, <2>2, <2>3
  <1>5. ASSUME NEW e \in Events, NEW P, NEW a, NEW d, Only(e, P, a, d),
               UNCHANGED <<enqueued, shutting>>, item[e].phase # "none",
               "abandoned" \notin P, a < MaxAttempts \/ P = {"settled"}
        PROVE  ItemsOK'
    <2>1. e <= enqueued' /\ enqueued' \in Nat /\ enqueued <= enqueued'
      BY <1>1, <1>2, <1>5, WasSent
    <2> QED
      BY <1>1, <1>5, <2>1, OnlyKeepsItems
  <1>6. ASSUME NEW e \in Events, AnswerStep(e) PROVE ItemsOK'
    <2>1. /\ UNCHANGED <<enqueued, shutting>>
          /\ \/ item[e].phase = "fetching" /\ Only(e, {"answered"}, item[e].attempts, item[e].drained)
             \/ item[e].phase = "abandoned" /\ Only(e, {"settled"}, item[e].attempts, item[e].drained)
      BY <1>6, AnswerEffect
    <2>2. item[e].phase = "fetching" => item[e].attempts < MaxAttempts
      BY <1>1 DEF HasTryLeft
    <2> QED
      BY <1>5, <2>1, <2>2
  <1>7. ASSUME NEW e \in Events, ProcessStep(e) PROVE ItemsOK'
    <2>1. /\ UNCHANGED <<enqueued, shutting>>
          /\ item[e].phase \in {"answered", "sleeping"}
          /\ \E a \in {item[e].attempts, item[e].attempts + 1} :
                \/ Only(e, {"settled"}, a, item[e].drained)
                \/ a < MaxAttempts /\ Only(e, {"queued"}, a, item[e].drained)
                \/ a < MaxAttempts /\ Only(e, {"sleeping"}, a, item[e].drained)
                \/ a = item[e].attempts /\ Only(e, {"fetching", "answered"}, a, item[e].drained)
      BY <1>7, ProcessEffect
    <2>2. item[e].attempts < MaxAttempts
      BY <1>1, <2>1 DEF HasTryLeft
    <2> QED
      BY <1>5, <2>1, <2>2
  <1>8. CASE DrainStep
    <2>1. UNCHANGED <<enqueued, shutting>>
      BY <1>8, DrainEffect DEF countVars
    <2>2. UNCHANGED item \/ \E n \in 0 .. Len(queue) : Takes(n)
      BY <1>8, DrainEffect DEF Sleeps, Round, Turn, Takes
    <2>3. ASSUME NEW n \in 0 .. Len(queue), Takes(n) PROVE ItemsOK'
      <3>1. ASSUME NEW f \in Events, f \in First(n)
            PROVE  /\ f <= enqueued /\ item[f].attempts < MaxAttempts
                   /\ item'[f].phase \in {"fetching", "answered"}
                   /\ item'[f].attempts = item[f].attempts
        <4>1. item[f].phase = "queued"
          BY <3>1, FrontIsQueued DEF Queued
        <4> QED
          BY <1>1, <2>3, <3>1, <4>1, WasSent DEF HasTryLeft, Takes, Picked
      <3>2. \A f \in Events \ First(n) : item'[f] = item[f]
        BY <2>3 DEF Takes, Picked
      <3>3. Untouched'
        BY <1>1, <1>2, <2>1, <3>1, <3>2 DEF Untouched, NoItem
      <3>4. HasTryLeft' /\ NoneAbandoned'
        BY <1>1, <2>1, <3>1, <3>2 DEF ItemsOK, HasTryLeft, NoneAbandoned
      <3> QED
        BY <3>3, <3>4 DEF ItemsOK
    <2> QED
      BY <1>2, <1>3, <2>1, <2>2, <2>3
  <1>9. CASE Shutdown
    <2>1. UNCHANGED <<item, enqueued>> /\ shutting = "no"
      BY <1>9 DEF Shutdown, countVars
    <2> QED
      BY <1>1, <2>1 DEF ItemsOK, Untouched, HasTryLeft, NoneAbandoned, NoItem
  <1>10. CASE ShutdownEnds
    <2>1. ASSUME NEW f \in Events
          PROVE  \/ f \notin Live /\ item'[f] = item[f]
                 \/ f \in Live /\ item'[f].phase \in {"abandoned", "settled"}
      <3>1. item[f] \in Fields
        BY <1>1 DEF Types, Items
      <3> QED
        BY <1>10, <3>1 DEF ShutdownEnds, Fields
    <2>2. UNCHANGED enqueued /\ shutting' = "done"
      BY <1>10 DEF ShutdownEnds
    <2>3. Untouched'
      BY <1>1, <2>1, <2>2 DEF Untouched, NoItem, Live
    <2>4. HasTryLeft' /\ NoneAbandoned'
      BY <1>1, <2>1, <2>2 DEF HasTryLeft, NoneAbandoned
    <2> QED
      BY <2>3, <2>4 DEF ItemsOK
  <1>11. CASE Tick
    BY <1>2, <1>3, <1>11 DEF Tick, countVars
  <1> QED
    BY <1>4, <1>6, <1>7, <1>8, <1>9, <1>10, <1>11 DEF Next

\* The parked events when one event changes.
LEMMA QueuedOnly ==
    ASSUME NEW e \in Events, NEW P, NEW a, NEW d, Only(e, P, a, d), item[e].phase # "queued"
    PROVE  /\ P = {"queued"} => Queued' = Queued \cup {e}
           /\ "queued" \notin P => Queued' = Queued
  BY DEF Only, Queued

\* Every step keeps the queue in order and equal to the parked events.
LEMMA StepParked ==
    ASSUME IInv, Next
    PROVE  Parked'
  <1>1. Types /\ InOrder /\ Elements(queue) = Queued /\ (queue # << >> => loop.at # "off")
    BY DEF IInv, Parked, HoldsQueued, Elements
  <1>2. ASSUME InOrder', Elements(queue)' = Queued', queue' = << >> \/ loop'.at # "off"
        PROVE  Parked'
    BY <1>2 DEF Parked, HoldsQueued, Elements
  <1>3. ASSUME UNCHANGED queue, Queued' = Queued, loop'.at = loop.at \/ loop'.at = "wait"
        PROVE  Parked'
    <2>1. InOrder' /\ Elements(queue)' = Elements(queue)
      BY <1>1, <1>3 DEF InOrder, Elements
    <2> QED
      BY <1>1, <1>2, <1>3, <2>1
  <1>4. ASSUME NEW e \in Events, NEW P, NEW a, NEW d, Only(e, P, a, d),
               item[e].phase # "queued", "queued" \notin P,
               UNCHANGED queue, loop'.at = loop.at
        PROVE  Parked'
    BY <1>3, <1>4, QueuedOnly
  <1>5. ASSUME NEW e \in Events, NEW a, NEW d, Only(e, {"queued"}, a, d), item[e].phase # "queued",
               NEW running \in Loops, running.at = loop.at, Requeue(e, running)
        PROVE  Parked'
    <2>1. /\ InOrder' /\ Elements(queue)' = Elements(queue) \cup {e}
          /\ loop' = IF loop.at = "off" THEN Asleep ELSE running
      BY <1>5, RequeueEffect
    <2>2. loop'.at # "off"
      BY <1>5, <2>1 DEF Asleep, NoLoop
    <2>3. Queued' = Queued \cup {e}
      BY <1>5, QueuedOnly
    <2> QED
      BY <1>1, <1>2, <2>1, <2>2, <2>3
  <1>6. \A e \in Events : Returned(e) \in Loops /\ Returned(e).at = loop.at
    BY <1>1, LoopTypes DEF Returned, Loops
  <1>7. CASE Send
    <2> DEFINE e == enqueued + 1
    <2>1. /\ e \in Events /\ item[e] = NoItem
          /\ \/ UNCHANGED <<item, queue, loop>>
             \/ Only(e, {"queued"}, 0, FALSE) /\ Requeue(e, loop)
             \/ Only(e, {"fetching", "answered"}, 0, FALSE) /\ UNCHANGED <<queue, loop>>
      BY <1>7, SendEffect
    <2> HIDE DEF e
    <2>2. item[e].phase # "queued" /\ loop \in Loops
      BY <1>1, <2>1 DEF NoItem, Types
    <2>3. UNCHANGED item => Queued' = Queued
      BY DEF Queued
    <2> QED
      BY <1>3, <1>4, <1>5, <2>1, <2>2, <2>3
  <1>8. ASSUME NEW e \in Events, AnswerStep(e) PROVE Parked'
    <2>1. /\ UNCHANGED queue /\ (UNCHANGED loop \/ loop' = Returned(e))
          /\ \/ item[e].phase = "fetching" /\ Only(e, {"answered"}, item[e].attempts, item[e].drained)
             \/ item[e].phase = "abandoned" /\ Only(e, {"settled"}, item[e].attempts, item[e].drained)
      BY <1>8, AnswerEffect
    <2>2. loop'.at = loop.at
      BY <1>6, <2>1
    <2> QED
      BY <1>4, <2>1, <2>2
  <1>9. ASSUME NEW e \in Events, ProcessStep(e) PROVE Parked'
    <2>1. item[e].phase # "queued"
      BY <1>9, ProcessEffect
    <2>2. \/ /\ Requeue(e, Returned(e))
             /\ \E a \in {item[e].attempts, item[e].attempts + 1} :
                    Only(e, {"queued"}, a, item[e].drained)
          \/ /\ UNCHANGED queue /\ (UNCHANGED loop \/ loop' = Returned(e))
             /\ \E P \in {{"settled"}, {"sleeping"}, {"fetching", "answered"}},
                   a \in {item[e].attempts, item[e].attempts + 1} : Only(e, P, a, item[e].drained)
      BY <1>9, ProcessEffect
    <2>3. CASE /\ Requeue(e, Returned(e))
               /\ \E a \in {item[e].attempts, item[e].attempts + 1} :
                      Only(e, {"queued"}, a, item[e].drained)
      BY <1>5, <1>6, <2>1, <2>3
    <2>4. CASE /\ UNCHANGED queue /\ (UNCHANGED loop \/ loop' = Returned(e))
               /\ \E P \in {{"settled"}, {"sleeping"}, {"fetching", "answered"}},
                     a \in {item[e].attempts, item[e].attempts + 1} : Only(e, P, a, item[e].drained)
      <3>1. loop'.at = loop.at
        BY <1>6, <2>4
      <3> QED
        BY <1>4, <2>1, <2>4, <3>1
    <2> QED
      BY <2>2, <2>3, <2>4
  <1>10. ASSUME NEW n \in 0 .. Len(queue), Takes(n),
                queue' = << >> \/ loop'.at # "off"
         PROVE  Parked'
    <2>1. InOrder' /\ Elements(queue)' = Elements(queue) \ First(n)
      BY <1>1, <1>10, FrontLeaves DEF Takes, Types
    <2>2. Queued' = Queued \ First(n)
      BY <1>10 DEF Takes, Picked, Queued
    <2> QED
      BY <1>1, <1>2, <1>10, <2>1, <2>2
  <1>11. CASE DrainStep
    <2>1. CASE Sleeps
      <3>1. UNCHANGED queue /\ Queued' = Queued /\ loop'.at = "wait"
        BY <2>1 DEF Sleeps, Queued, Asleep, NoLoop
      <3> QED
        BY <1>3, <3>1
    <2>2. ASSUME NEW n \in 0 .. Len(queue), Round(n) PROVE Parked'
      <3>1. Takes(n) /\ (n > 0 => loop'.at = "run") /\ (n = 0 => queue = << >>)
        BY <2>2 DEF Round, NoLoop
      <3>2. n = 0 => queue' = << >>
        BY <3>1 DEF Takes
      <3>3. n = 0 \/ n > 0
        OBVIOUS
      <3> QED
        BY <1>10, <3>1, <3>2, <3>3
    <2>3. ASSUME NEW n \in {0, 1}, Turn(n) PROVE Parked'
      <3>1. Takes(n) /\ n \in 0 .. Len(queue) /\ loop.at = "run" /\ loop' = [loop EXCEPT !.turns = @ - 1]
        BY <2>3 DEF Turn, Takes
      <3>2. loop'.at = "run"
        BY <1>1, <3>1 DEF Types, Loops
      <3> QED
        BY <1>10, <3>1, <3>2
    <2> QED
      BY <1>11, <2>1, <2>2, <2>3, DrainEffect
  <1>12. CASE Shutdown
    <2>1. UNCHANGED queue /\ Queued' = Queued
      BY <1>12 DEF Shutdown, Queued
    <2>2. loop'.at = loop.at
      BY <1>1, <1>12 DEF Shutdown, Types, Loops
    <2> QED
      BY <1>3, <2>1, <2>2
  <1>13. CASE ShutdownEnds
    <2>1. queue' = << >>
      BY <1>13 DEF ShutdownEnds
    <2>2. \A f \in Events : item'[f].phase # "queued"
      <3>1. ASSUME NEW f \in Events PROVE item'[f].phase # "queued"
        <4>1. item[f] \in Fields
          BY <1>1 DEF Types, Items
        <4>2. CASE f \in Live
          BY <1>13, <4>1, <4>2 DEF ShutdownEnds, Fields
        <4>3. CASE f \notin Live
          BY <1>13, <4>3 DEF ShutdownEnds, Live
        <4> QED
          BY <4>2, <4>3
      <3> QED
        BY <3>1
    <2>3. Elements(queue') = {} /\ Queued' = {} /\ InOrder'
      BY <2>1, <2>2 DEF Elements, Queued, InOrder
    <2> QED
      BY <1>2, <2>1, <2>3 DEF Elements
  <1>14. CASE Tick
    <2>1. UNCHANGED queue /\ Queued' = Queued
      BY <1>14 DEF Tick, Queued
    <2>2. loop'.at = loop.at
      BY <1>1, <1>14 DEF Tick, Types, Loops
    <2> QED
      BY <1>3, <2>1, <2>2
  <1> QED
    BY <1>7, <1>8, <1>9, <1>11, <1>12, <1>13, <1>14 DEF Next

-----------------------------------------------------------------------------
\* The counters.

\* Every set of events is finite.
LEMMA EventsFinite ==
    ASSUME NEW S \in SUBSET Events
    PROVE  IsFiniteSet(S) /\ Cardinality(S) \in Nat
  <1>1. IsFiniteSet(Events)
    BY GatewaySenderAssumption, FS_Interval DEF Events
  <1> QED
    BY <1>1, FS_Subset, FS_CardinalityType

Ended == {"none", "abandoned", "settled"}

\* The pending events when one event changes.
LEMMA LiveOnly ==
    ASSUME NEW e \in Events, NEW P, NEW a, NEW d, Only(e, P, a, d)
    PROVE  /\ P \cap Ended = {} => Live' = Live \cup {e}
           /\ P \subseteq Ended => Live' = Live \ {e}
  BY DEF Only, Live, Ended

\* Every step keeps the books.
LEMMA StepCounted ==
    ASSUME IInv, Next
    PROVE  Counted'
  <1> DEFINE n == Cardinality(Live)
             t == DroppedTotal
  <1>1. Types /\ enqueued = sent + t + n /\ n <= MaxPending
    BY DEF IInv, Counted, Balance
  <1>2. Live \in SUBSET Events /\ IsFiniteSet(Live) /\ n \in Nat
    BY EventsFinite DEF Live
  <1>3. enqueued \in Nat /\ sent \in Nat /\ MaxPending \in Nat \ {0}
        /\ dropped \in [DROP_REASONS -> Nat]
    BY <1>1, GatewaySenderAssumption DEF Types
  <1>4. t \in Nat /\ (UNCHANGED dropped => t' = t)
    BY <1>3 DEF DroppedTotal, DROP_REASONS
  <1>5. (\E r \in DROP_REASONS : Drop(r, 1)) => t' = t + 1
    BY <1>3, DropCounts
  <1>6. Counted' <=> enqueued' = sent' + t' + n' /\ n' <= MaxPending
    BY DEF Counted, Balance
  <1>7. Live' = Live => n' = n
    OBVIOUS
  <1> HIDE DEF n, t
  <1>8. CASE UNCHANGED <<enqueued, sent, dropped>> /\ Live' = Live
    BY <1>1, <1>4, <1>6, <1>7, <1>8
  <1>9. CASE Send
    <2> DEFINE e == enqueued + 1
    <2>1. /\ e \in Events /\ item[e] = NoItem /\ enqueued' = e /\ sent' = sent
          /\ \/ UNCHANGED item /\ \E r \in DROP_REASONS : Drop(r, 1)
             \/ /\ Cardinality(Live) < MaxPending /\ UNCHANGED dropped
                /\ Only(e, {"queued"}, 0, FALSE) \/ Only(e, {"fetching", "answered"}, 0, FALSE)
      BY <1>9, SendEffect
    <2>2. CASE UNCHANGED item /\ \E r \in DROP_REASONS : Drop(r, 1)
      <3>1. Live' = Live
        BY <2>2 DEF Live
      <3> QED
        BY <1>1, <1>2, <1>3, <1>4, <1>5, <1>6, <1>7, <2>1, <2>2, <3>1
    <2>3. CASE /\ Cardinality(Live) < MaxPending /\ UNCHANGED dropped
               /\ Only(e, {"queued"}, 0, FALSE) \/ Only(e, {"fetching", "answered"}, 0, FALSE)
      <3>1. e \notin Live
        BY <2>1 DEF Live, NoItem
      <3> HIDE DEF e
      <3>2. Live' = Live \cup {e}
        <4>1. PICK P \in {{"queued"}, {"fetching", "answered"}} : Only(e, P, 0, FALSE)
          BY <2>3
        <4>2. P \cap Ended = {}
          BY <4>1 DEF Ended
        <4> QED
          BY <2>1, <4>1, <4>2, LiveOnly
      <3>3. n' = n + 1
        BY <1>2, <3>1, <3>2, FS_AddElement DEF n
      <3>4. n < MaxPending
        BY <2>3 DEF n
      <3> QED
        BY <1>1, <1>2, <1>3, <1>4, <1>6, <2>1, <2>3, <3>3, <3>4 DEF e
    <2> QED
      BY <2>1, <2>2, <2>3
  <1>10. ASSUME NEW e \in Events, AnswerStep(e) PROVE Counted'
    <2>1. /\ UNCHANGED <<enqueued, sent, dropped>>
          /\ \/ item[e].phase = "fetching" /\ Only(e, {"answered"}, item[e].attempts, item[e].drained)
             \/ item[e].phase = "abandoned" /\ Only(e, {"settled"}, item[e].attempts, item[e].drained)
      BY <1>10, AnswerEffect
    <2>2. Live' = Live
      <3>1. CASE item[e].phase = "fetching" /\ Only(e, {"answered"}, item[e].attempts, item[e].drained)
        <4>1. Live' = Live \cup {e} /\ e \in Live
          BY <3>1, LiveOnly DEF Ended, Live
        <4> QED
          BY <4>1
      <3>2. CASE item[e].phase = "abandoned" /\ Only(e, {"settled"}, item[e].attempts, item[e].drained)
        <4>1. Live' = Live \ {e} /\ e \notin Live
          BY <3>2, LiveOnly DEF Ended, Live
        <4> QED
          BY <4>1
      <3> QED
        BY <2>1, <3>1, <3>2
    <2> QED
      BY <1>8, <2>1, <2>2
  <1>11. ASSUME NEW e \in Events, ProcessStep(e) PROVE Counted'
    <2>1. /\ UNCHANGED enqueued /\ item[e].phase \in {"answered", "sleeping"}
          /\ \/ /\ \E a \in {item[e].attempts, item[e].attempts + 1} :
                       Only(e, {"settled"}, a, item[e].drained)
                /\ \/ sent' = sent + 1 /\ UNCHANGED dropped
                   \/ UNCHANGED sent /\ \E r \in DROP_REASONS : Drop(r, 1)
             \/ /\ UNCHANGED <<sent, dropped>>
                /\ \E P \in {{"queued"}, {"sleeping"}, {"fetching", "answered"}},
                      a \in {item[e].attempts, item[e].attempts + 1} : Only(e, P, a, item[e].drained)
      BY <1>11, ProcessEffect
    <2>2. e \in Live
      BY <2>1 DEF Live
    <2>3. CASE /\ \E a \in {item[e].attempts, item[e].attempts + 1} :
                      Only(e, {"settled"}, a, item[e].drained)
               /\ \/ sent' = sent + 1 /\ UNCHANGED dropped
                  \/ UNCHANGED sent /\ \E r \in DROP_REASONS : Drop(r, 1)
      <3>1. Live' = Live \ {e}
        BY <2>3, LiveOnly DEF Ended
      <3>2. n' = n - 1
        BY <1>2, <2>2, <3>1, FS_RemoveElement DEF n
      <3> QED
        BY <1>1, <1>2, <1>3, <1>4, <1>5, <1>6, <2>1, <2>3, <3>2
    <2>4. CASE /\ UNCHANGED <<sent, dropped>>
               /\ \E P \in {{"queued"}, {"sleeping"}, {"fetching", "answered"}},
                     a \in {item[e].attempts, item[e].attempts + 1} : Only(e, P, a, item[e].drained)
      <3>1. Live' = Live \cup {e}
        BY <2>4, LiveOnly DEF Ended
      <3>2. Live' = Live
        BY <2>2, <3>1
      <3> QED
        BY <1>8, <2>1, <2>4, <3>2
    <2> QED
      BY <2>1, <2>3, <2>4
  <1>12. CASE DrainStep
    <2>1. UNCHANGED <<enqueued, sent, dropped>>
      BY <1>12, DrainEffect DEF countVars
    <2>2. UNCHANGED item \/ \E k \in 0 .. Len(queue) : Takes(k)
      BY <1>12, DrainEffect DEF Sleeps, Round, Turn, Takes
    <2>3. ASSUME NEW k \in 0 .. Len(queue), Takes(k) PROVE Live' = Live
      <3>1. \A f \in First(k) : item[f].phase = "queued" /\ f \in Events
        BY FrontIsQueued DEF Queued
      <3> QED
        BY <2>3, <3>1 DEF Takes, Picked, Live
    <2>4. UNCHANGED item => Live' = Live
      BY DEF Live
    <2> QED
      BY <1>8, <2>1, <2>2, <2>3, <2>4
  <1>13. CASE Shutdown \/ Tick
    <2>1. UNCHANGED <<enqueued, sent, dropped>> /\ UNCHANGED item
      BY <1>13 DEF Shutdown, Tick, countVars
    <2>2. Live' = Live
      BY <2>1 DEF Live
    <2> QED
      BY <1>8, <2>1, <2>2
  <1>14. CASE ShutdownEnds
    <2>1. Drop("shutdown", n) /\ "shutdown" \in DROP_REASONS /\ UNCHANGED <<enqueued, sent>>
      BY <1>14 DEF ShutdownEnds, DROP_REASONS, n
    <2>2. t' = t + n
      BY <1>2, <1>3, <2>1, DropCounts DEF t
    <2>3. Live' = {}
      <3>1. ASSUME NEW f \in Events PROVE item'[f].phase \in Ended
        <4>1. item[f] \in Fields
          BY <1>1 DEF Types, Items
        <4>2. CASE f \in Live
          BY <1>14, <4>1, <4>2 DEF ShutdownEnds, Fields, Ended
        <4>3. CASE f \notin Live
          BY <1>14, <4>3 DEF ShutdownEnds, Live, Ended
        <4> QED
          BY <4>2, <4>3
      <3> QED
        BY <3>1 DEF Live, Ended
    <2>4. n' = 0
      BY <2>3, FS_EmptySet DEF n
    <2> QED
      BY <1>1, <1>2, <1>3, <1>4, <1>6, <2>1, <2>2, <2>4
  <1> QED
    BY <1>9, <1>10, <1>11, <1>12, <1>13, <1>14 DEF Next

-----------------------------------------------------------------------------
\* The drain workers.

\* The worker's events when one event changes: one that leaves it gives back a turn.
LEMMA DrainedOnly ==
    ASSUME Types, NEW e \in Events, NEW P, NEW a, Only(e, P, a, item[e].drained),
           item[e].phase \in {"fetching", "answered", "sleeping", "abandoned"}
    PROVE  /\ P \subseteq {"fetching", "answered", "sleeping"} => Drained' = Drained
           /\ P \in {{"queued"}, {"settled"}} =>
                  Drained' = IF item[e].drained THEN Drained \ {e} ELSE Drained
           /\ item[e].drained <=> e \in Drained
  BY DEF Only, Drained

\* An event that is new to the drain loop leaves its workers as they are.
LEMMA DrainedNew ==
    ASSUME NEW e \in Events, NEW P, NEW a, Only(e, P, a, FALSE), item[e] = NoItem
    PROVE  Drained' = Drained
  BY DEF Only, Drained, NoItem

\* The workers' turns after an event has returned.
LEMMA ReturnedTurns ==
    ASSUME Types, NEW e \in Events
    PROVE  /\ Returned(e).at = loop.at /\ Returned(e).seen = loop.seen /\ Returned(e).nap = loop.nap
           /\ Returned(e).turns = IF item[e].drained THEN loop.turns + 1 ELSE loop.turns
           /\ loop.turns \in Nat
  <1> DEFINE t == IF item[e].drained THEN loop.turns + 1 ELSE loop.turns
  <1>1. loop \in Loops /\ loop.turns \in Nat
    BY LoopEdit DEF Types
  <1>2. t \in Nat /\ Returned(e) = [loop EXCEPT !.turns = t]
    BY <1>1 DEF Returned
  <1> HIDE DEF t
  <1>3. Returned(e).at = loop.at /\ Returned(e).seen = loop.seen /\ Returned(e).nap = loop.nap
        /\ Returned(e).turns = t
    BY <1>1, <1>2, LoopEdit
  <1> QED
    BY <1>1, <1>3 DEF t

\* Every step keeps the drained events in flight within DRAIN_CONCURRENCY.
LEMMA StepDrain ==
    ASSUME IInv, Next
    PROVE  Drain'
  <1> DEFINE c == Cardinality(Drained)
  <1>1. Types /\ c + loop.turns <= DRAIN_CONCURRENCY
        /\ (loop.at # "run" => Drained = {} /\ loop.turns = 0)
    BY DEF IInv, Drain, DrainIsBounded
  <1>2. Drained \in SUBSET Events /\ IsFiniteSet(Drained) /\ c \in Nat
    BY EventsFinite DEF Drained
  <1>3. loop \in Loops /\ loop.turns \in Nat /\ DRAIN_CONCURRENCY \in Nat \ {0}
    BY <1>1, LoopEdit, GatewaySenderAssumption DEF Types
  <1>4. /\ Drain' <=> /\ c' + loop'.turns <= DRAIN_CONCURRENCY
                      /\ loop'.at # "run" => Drained' = {} /\ loop'.turns = 0
        /\ Drained' = Drained => c' = c
        /\ Drained' = {} => c' = 0
    BY FS_EmptySet DEF Drain, DrainIsBounded
  <1>5. Asleep.at = "wait" /\ Asleep.turns = 0 /\ NoLoop.at = "off" /\ NoLoop.turns = 0
    BY DEF Asleep, NoLoop
  <1> HIDE DEF c
  <1>6. CASE Drained' = Drained /\ loop'.at = loop.at /\ loop'.turns = loop.turns
    BY <1>1, <1>4, <1>6
  <1>7. CASE Drained' = Drained /\ (UNCHANGED loop \/ (loop.at = "off" /\ loop' = Asleep))
    BY <1>1, <1>2, <1>3, <1>4, <1>5, <1>7
  <1>8. ASSUME NEW e \in Events, NEW P, NEW a, Only(e, P, a, item[e].drained),
               P \in {{"queued"}, {"settled"}},
               item[e].phase \in {"fetching", "answered", "sleeping", "abandoned"},
               \/ loop' = Returned(e)
               \/ loop.at = "off" /\ loop' = Asleep
        PROVE  Drain'
    <2>1. /\ Drained' = IF item[e].drained THEN Drained \ {e} ELSE Drained
          /\ item[e].drained <=> e \in Drained
      BY <1>1, <1>8, DrainedOnly
    <2>2. CASE loop' = Returned(e)
      <3>1. /\ loop'.at = loop.at
            /\ loop'.turns = IF item[e].drained THEN loop.turns + 1 ELSE loop.turns
        BY <1>1, <2>2, ReturnedTurns
      <3>2. CASE item[e].drained
        <4>1. c' = c - 1
          BY <1>2, <2>1, <3>2, FS_RemoveElement DEF c
        <4>2. loop.at = "run"
          BY <1>1, <2>1, <3>2
        <4> QED
          BY <1>1, <1>2, <1>3, <1>4, <3>1, <3>2, <4>1, <4>2
      <3>3. CASE ~item[e].drained
        BY <1>6, <2>1, <3>1, <3>3
      <3> QED
        BY <3>2, <3>3
    <2>3. CASE loop.at = "off" /\ loop' = Asleep
      <3>1. Drained' = Drained
        BY <1>1, <2>1, <2>3
      <3> QED
        BY <1>7, <2>3, <3>1
    <2> QED
      BY <1>8, <2>2, <2>3
  <1>9. ASSUME NEW e \in Events, NEW P, NEW a, Only(e, P, a, item[e].drained),
               P \subseteq {"fetching", "answered", "sleeping"},
               item[e].phase \in {"fetching", "answered", "sleeping", "abandoned"}, UNCHANGED loop
        PROVE  Drain'
    BY <1>1, <1>7, <1>9, DrainedOnly
  <1>10. CASE Send
    <2> DEFINE e == enqueued + 1
    <2>1. /\ e \in Events /\ item[e] = NoItem
          /\ \/ UNCHANGED <<item, loop>>
             \/ Only(e, {"queued"}, 0, FALSE) /\ Requeue(e, loop)
             \/ Only(e, {"fetching", "answered"}, 0, FALSE) /\ UNCHANGED loop
      BY <1>10, SendEffect
    <2> HIDE DEF e
    <2>2. UNCHANGED item \/ \E P \in {{"queued"}, {"fetching", "answered"}} : Only(e, P, 0, FALSE)
      BY <2>1
    <2>3. UNCHANGED item => Drained' = Drained
      BY DEF Drained
    <2>4. Drained' = Drained
      BY <2>1, <2>2, <2>3, DrainedNew
    <2>5. UNCHANGED loop \/ (loop.at = "off" /\ loop' = Asleep)
      BY <2>1 DEF Requeue
    <2> QED
      BY <1>7, <2>4, <2>5
  <1>11. ASSUME NEW e \in Events, AnswerStep(e) PROVE Drain'
    <2>1. \/ item[e].phase = "fetching" /\ UNCHANGED loop
                /\ Only(e, {"answered"}, item[e].attempts, item[e].drained)
          \/ item[e].phase = "abandoned" /\ loop' = Returned(e)
                /\ Only(e, {"settled"}, item[e].attempts, item[e].drained)
      BY <1>11, AnswerEffect
    <2>2. CASE item[e].phase = "fetching" /\ UNCHANGED loop
                 /\ Only(e, {"answered"}, item[e].attempts, item[e].drained)
      <3>1. {"answered"} \subseteq {"fetching", "answered", "sleeping"}
        OBVIOUS
      <3> QED
        BY <1>9, <2>2, <3>1
    <2>3. CASE item[e].phase = "abandoned" /\ loop' = Returned(e)
                 /\ Only(e, {"settled"}, item[e].attempts, item[e].drained)
      <3>1. {"settled"} \in {{"queued"}, {"settled"}}
        OBVIOUS
      <3> QED
        BY <1>8, <2>3, <3>1
    <2> QED
      BY <2>1, <2>2, <2>3
  <1>12. ASSUME NEW e \in Events, ProcessStep(e) PROVE Drain'
    <2>1. /\ item[e].phase \in {"answered", "sleeping"}
          /\ \/ /\ \E P \in {{"queued"}, {"settled"}},
                      a \in {item[e].attempts, item[e].attempts + 1} : Only(e, P, a, item[e].drained)
                /\ loop' = Returned(e) \/ Requeue(e, Returned(e))
             \/ /\ \E P \in {{"sleeping"}, {"fetching", "answered"}},
                      a \in {item[e].attempts, item[e].attempts + 1} : Only(e, P, a, item[e].drained)
                /\ UNCHANGED loop
      BY <1>12, ProcessEffect
    <2>2. Requeue(e, Returned(e)) => loop' = Returned(e) \/ (loop.at = "off" /\ loop' = Asleep)
      BY DEF Requeue
    <2>3. \A P \in {{"sleeping"}, {"fetching", "answered"}} : P \subseteq {"fetching", "answered", "sleeping"}
      OBVIOUS
    <2> QED
      BY <1>8, <1>9, <2>1, <2>2, <2>3
  <1>13. CASE DrainStep
    <2>1. CASE Sleeps
      <3>1. Drained' = Drained /\ Drained = {} /\ loop' = Asleep
        BY <2>1 DEF Sleeps, Drained
      <3> QED
        BY <1>3, <1>4, <1>5, <3>1
    <2>2. ASSUME NEW n \in 0 .. Len(queue), Round(n) PROVE Drain'
      <3>1. /\ Drained = {} /\ Picked(First(n)) /\ n <= DRAIN_CONCURRENCY /\ n \in Nat
            /\ (n = 0 => loop' = NoLoop) /\ (n > 0 => loop' = [NoLoop EXCEPT !.at = "run"])
        BY <2>2 DEF Round, Takes
      <3>2. Drained' \subseteq First(n)
        BY <3>1 DEF Picked, Drained
      <3>3. queue \in Seq(Events)
        BY <1>1 DEF Types
      <3>4. IsFiniteSet(First(n)) /\ Cardinality(First(n)) <= n /\ Cardinality(First(n)) \in Nat
        BY <3>3, FirstIsSmall, FS_CardinalityType
      <3>5. c' <= Cardinality(First(n)) /\ c' \in Nat
        BY <3>2, <3>4, FS_Subset, FS_CardinalityType DEF c
      <3>6. loop'.turns = 0 /\ (loop'.at # "run" => n = 0)
        BY <3>1 DEF NoLoop
      <3>7. n = 0 => Drained' = {}
        BY <3>2 DEF First
      <3> QED
        BY <1>3, <1>4, <3>1, <3>4, <3>5, <3>6, <3>7
    <2>3. ASSUME NEW n \in {0, 1}, Turn(n) PROVE Drain'
      <3>1. /\ loop.at = "run" /\ loop.turns > 0 /\ Picked(First(n)) /\ n \in 0 .. Len(queue)
            /\ loop' = [loop EXCEPT !.turns = loop.turns - 1]
        BY <2>3 DEF Turn, Takes
      <3>2. loop'.at = "run" /\ loop'.turns = loop.turns - 1
        <4>1. loop.turns - 1 \in Nat
          BY <1>3, <3>1
        <4> QED
          BY <1>3, <3>1, <4>1, LoopEdit
      <3>3. Drained' \subseteq Drained \cup First(n)
        BY <3>1 DEF Picked, Drained
      <3>4. queue \in Seq(Events)
        BY <1>1 DEF Types
      <3>5. IsFiniteSet(First(n)) /\ Cardinality(First(n)) <= 1 /\ Cardinality(First(n)) \in Nat
        BY <3>1, <3>4, FirstIsSmall, FS_CardinalityType
      <3>6. /\ IsFiniteSet(Drained \cup First(n))
            /\ Cardinality(Drained \cup First(n)) <= c + Cardinality(First(n))
        <4>1. IsFiniteSet(Drained \cap First(n)) /\ Cardinality(Drained \cap First(n)) \in Nat
          BY <1>2, FS_Intersection, FS_CardinalityType
        <4>2. /\ IsFiniteSet(Drained \cup First(n))
              /\ Cardinality(Drained \cup First(n)) =
                     Cardinality(Drained) + Cardinality(First(n)) - Cardinality(Drained \cap First(n))
          BY <1>2, <3>5, FS_Union
        <4> QED
          BY <1>2, <3>5, <4>1, <4>2 DEF c
      <3>7. c' <= Cardinality(Drained \cup First(n)) /\ c' \in Nat
             /\ Cardinality(Drained \cup First(n)) \in Nat
        BY <3>3, <3>6, FS_Subset, FS_CardinalityType DEF c
      <3> QED
        BY <1>1, <1>2, <1>3, <1>4, <3>1, <3>2, <3>5, <3>6, <3>7
    <2> QED
      BY <1>13, <2>1, <2>2, <2>3, DrainEffect
  <1>14. CASE Shutdown
    <2>1. loop'.at = loop.at /\ loop'.turns = loop.turns
      BY <1>3, <1>14 DEF Shutdown, Loops
    <2>2. Drained' = Drained
      BY <1>14 DEF Shutdown, Drained
    <2> QED
      BY <1>6, <2>1, <2>2
  <1>15. CASE ShutdownEnds
    <2> DEFINE back == {f \in Drained : item[f].phase # "fetching"}
               away == {f \in Drained : item[f].phase = "fetching"}
               b    == Cardinality(back)
    <2>1. \A f \in Events : item[f] \in Fields /\ item[f].phase # "abandoned"
      BY <1>1, <1>15 DEF Types, Items, ShutdownEnds, IInv, ItemsOK, NoneAbandoned
    <2>2. Drained' = away
      <3>1. ASSUME NEW f \in Events PROVE f \in Drained' <=> f \in away
        <4>1. CASE f \in Live
          <5>1. item'[f].drained = item[f].drained
                /\ item'[f].phase = IF item[f].phase = "fetching" THEN "abandoned" ELSE "settled"
            BY <1>15, <2>1, <4>1 DEF ShutdownEnds, Fields
          <5> QED
            BY <4>1, <5>1 DEF Drained, Live
        <4>2. CASE f \notin Live
          <5>1. item'[f] = item[f]
            BY <1>15, <4>2 DEF ShutdownEnds
          <5> QED
            BY <2>1, <4>2, <5>1 DEF Drained, Live
        <4> QED
          BY <4>1, <4>2
      <3> QED
        BY <3>1 DEF Drained
    <2>3. back \in SUBSET Events /\ away \in SUBSET Events
      BY DEF Drained
    <2>4. IsFiniteSet(back) /\ b \in Nat /\ IsFiniteSet(away) /\ Cardinality(away) \in Nat
      BY <2>3, EventsFinite
    <2>5. Drained = back \cup away /\ back \cap away = {}
      OBVIOUS
    <2>6. c = b + Cardinality(away)
      <3> HIDE DEF back, away
      <3> QED
        BY <2>4, <2>5, FS_Union, FS_EmptySet DEF c
    <2>7. loop'.at = loop.at /\ loop'.turns = loop.turns + b
      <3>1. loop' = [loop EXCEPT !.turns = loop.turns + b]
        BY <1>15 DEF ShutdownEnds
      <3>2. loop.turns + b \in Nat
        BY <1>3, <2>4
      <3> HIDE DEF b
      <3> QED
        BY <1>3, <3>1, <3>2, LoopEdit
    <2>8. c' = Cardinality(away)
      BY <2>2 DEF c
    <2>9. Drained = {} => away = {} /\ b = 0
      BY FS_EmptySet
    <2> HIDE DEF back, away, b
    <2> QED
      BY <1>1, <1>2, <1>3, <1>4, <2>2, <2>4, <2>6, <2>7, <2>8, <2>9
  <1>16. CASE Tick
    <2>1. loop'.at = loop.at /\ loop'.turns = loop.turns
      BY <1>3, <1>16 DEF Tick, Loops
    <2>2. Drained' = Drained
      BY <1>16 DEF Tick, Drained
    <2> QED
      BY <1>6, <2>1, <2>2
  <1> QED
    BY <1>10, <1>11, <1>12, <1>13, <1>14, <1>15, <1>16 DEF Next

-----------------------------------------------------------------------------
\* The deadline.

\* Every step keeps what the loop knows of the latest deadline.
LEMMA StepDeadline ==
    ASSUME IInv, Next
    PROVE  Deadline'
  <1>1. /\ Types
        /\ ~paused => resumeAt = 0
        /\ loop.at = "wait" => loop.seen <= pauses /\ (loop.seen = pauses => loop.nap = resumeAt)
    BY DEF IInv, Deadline
  <1>2. loop \in Loops /\ loop.seen \in Nat /\ loop.nap \in 0 .. MaxRetryAfter /\ pauses \in Nat
        /\ resumeAt \in 0 .. MaxRetryAfter /\ MaxRetryAfter \in Nat
    BY <1>1, LoopEdit, GatewaySenderAssumption DEF Types
  <1>3. Asleep.at = "wait" /\ Asleep.seen = pauses /\ Asleep.nap = resumeAt /\ NoLoop.at = "off"
        /\ [NoLoop EXCEPT !.at = "run"].at = "run"
    BY DEF Asleep, NoLoop
  <1>4. CASE /\ UNCHANGED pauseVars
             /\ \/ loop' = Asleep
                \/ loop'.at = loop.at /\ loop'.seen = loop.seen /\ loop'.nap = loop.nap
    BY <1>1, <1>2, <1>3, <1>4 DEF Deadline, pauseVars
  <1>5. \A e \in Events : /\ Returned(e).at = loop.at /\ Returned(e).seen = loop.seen
                          /\ Returned(e).nap = loop.nap
    BY <1>1, ReturnedTurns
  <1>6. CASE Send
    <2>1. UNCHANGED pauseVars /\ (loop' = loop \/ loop' = Asleep)
      BY <1>6, SendEffect DEF Requeue
    <2> QED
      BY <1>4, <2>1
  <1>7. ASSUME NEW e \in Events, AnswerStep(e) PROVE Deadline'
    <2>1. /\ loop'.at = loop.at /\ loop'.seen = loop.seen /\ loop'.nap = loop.nap
          /\ UNCHANGED pauseVars \/ Pause
      BY <1>5, <1>7, AnswerEffect
    <2>2. CASE Pause
      BY <1>1, <1>2, <2>1, <2>2 DEF Pause, Deadline
    <2> QED
      BY <1>4, <2>1, <2>2
  <1>8. ASSUME NEW e \in Events, ProcessStep(e) PROVE Deadline'
    <2>1. UNCHANGED pauseVars /\ (loop' = loop \/ loop' = Returned(e) \/ loop' = Asleep)
      BY <1>8, ProcessEffect DEF Requeue
    <2> QED
      BY <1>4, <1>5, <2>1
  <1>9. CASE DrainStep
    <2>1. UNCHANGED <<resumeAt, pauses>>
      BY <1>9, DrainEffect
    <2>2. CASE Sleeps
      BY <1>4, <2>1, <2>2 DEF Sleeps, pauseVars
    <2>3. ASSUME NEW n \in 0 .. Len(queue), Round(n) PROVE Deadline'
      <3>1. loop'.at # "wait"
        <4>1. n = 0 \/ n > 0
          OBVIOUS
        <4> QED
          BY <1>3, <2>3, <4>1 DEF Round
      <3>2. paused' = paused \/ resumeAt = 0
        BY <1>1, <2>3 DEF Round
      <3> QED
        BY <1>1, <2>1, <3>1, <3>2 DEF Deadline
    <2>4. ASSUME NEW n \in {0, 1}, Turn(n) PROVE Deadline'
      <3>1. paused' = paused /\ loop.at = "run" /\ loop' = [loop EXCEPT !.turns = @ - 1]
        BY <2>4 DEF Turn
      <3>2. loop'.at = "run"
        BY <1>2, <3>1 DEF Loops
      <3> QED
        BY <1>1, <2>1, <3>1, <3>2 DEF Deadline
    <2> QED
      BY <1>9, <2>2, <2>3, <2>4, DrainEffect
  <1>10. CASE Shutdown
    <2>1. /\ paused' = FALSE /\ pauses' = pauses /\ resumeAt' = IF paused THEN 0 ELSE resumeAt
          /\ loop' = IF paused /\ loop.at = "wait" THEN [loop EXCEPT !.nap = 0] ELSE loop
      BY <1>10 DEF Shutdown
    <2>2. resumeAt' = 0
      BY <1>1, <2>1
    <2>3. CASE paused /\ loop.at = "wait"
      <3>1. loop'.seen = loop.seen /\ loop'.nap = 0 /\ loop'.at = "wait"
        BY <1>2, <2>1, <2>3 DEF Loops
      <3> QED
        BY <1>1, <2>1, <2>2, <2>3, <3>1 DEF Deadline
    <2>4. CASE ~(paused /\ loop.at = "wait")
      BY <1>1, <2>1, <2>2, <2>4 DEF Deadline
    <2> QED
      BY <2>3, <2>4
  <1>11. CASE ShutdownEnds
    <2>1. /\ UNCHANGED pauseVars
          /\ loop' = [loop EXCEPT !.turns = @ + Cardinality({e \in Drained : item[e].phase # "fetching"})]
      BY <1>11 DEF ShutdownEnds
    <2>2. loop'.at = loop.at /\ loop'.seen = loop.seen /\ loop'.nap = loop.nap
      BY <1>2, <2>1 DEF Loops
    <2> QED
      BY <1>4, <2>1, <2>2
  <1>12. CASE Tick
    <2>1. /\ UNCHANGED <<paused, pauses>>
          /\ resumeAt' = IF resumeAt > 0 THEN resumeAt - 1 ELSE 0
      BY <1>12 DEF Tick
    <2>2. /\ loop'.at = loop.at /\ loop'.seen = loop.seen
          /\ loop'.nap = IF loop.nap > 0 THEN loop.nap - 1 ELSE 0
      BY <1>2, <1>12 DEF Tick, Loops
    <2> QED
      BY <1>1, <1>2, <2>1, <2>2 DEF Deadline
  <1> QED
    BY <1>6, <1>7, <1>8, <1>9, <1>10, <1>11, <1>12 DEF Next

-----------------------------------------------------------------------------
\* The invariant and what follows from it.

\* No event was given to send() yet.
LEMMA InitIInv ==
    Init => IInv
  <1> SUFFICES ASSUME Init PROVE IInv
    OBVIOUS
  <1>1. MaxEvents \in Nat /\ MaxFailures \in Nat /\ MaxRetryAfter \in Nat
        /\ MaxPending \in Nat \ {0} /\ MaxAttempts \in Nat \ {0} /\ DRAIN_CONCURRENCY \in Nat \ {0}
    BY GatewaySenderAssumption
  <1>2. NoItem \in Items /\ NoItem.phase = "none" /\ NoItem.drained = FALSE
    BY <1>1 DEF NoItem, Items, Fields, Phases, Outcomes
  <1>3. \A e \in Events : item[e] = NoItem
    BY DEF Init
  <1>4. NoLoop \in Loops /\ NoLoop.at = "off" /\ NoLoop.turns = 0
    BY <1>1 DEF NoLoop, Loops
  <1>5. Live = {} /\ Drained = {} /\ Queued = {}
    BY <1>2, <1>3 DEF Live, Drained, Queued
  <1>6. Cardinality(Live) = 0 /\ Cardinality(Drained) = 0
    BY <1>5, FS_EmptySet
  <1>7. Types
    <2>1. item \in [Events -> Items] /\ queue \in Seq(Events) /\ dropped \in [DROP_REASONS -> Nat]
      BY <1>2 DEF Init
    <2>2. /\ enqueued \in 0 .. MaxEvents /\ sent \in Nat /\ resumeAt \in 0 .. MaxRetryAfter /\ pauses \in Nat
          /\ failures \in Nat /\ pauses + failures <= MaxFailures
      BY <1>1 DEF Init
    <2> QED
      BY <1>4, <2>1, <2>2 DEF Init, Types
  <1>8. ItemsOK
    BY <1>2, <1>3 DEF ItemsOK, Untouched, HasTryLeft, NoneAbandoned
  <1>9. Parked
    BY <1>5 DEF Init, Parked, InOrder, HoldsQueued
  <1>10. Counted
    <2>1. DroppedTotal = 0
      BY DEF Init, DroppedTotal, DROP_REASONS
    <2> QED
      BY <1>1, <1>6, <2>1 DEF Init, Counted, Balance
  <1>11. Drain
    BY <1>1, <1>4, <1>5, <1>6 DEF Init, Drain, DrainIsBounded
  <1>12. Deadline
    BY <1>4 DEF Init, Deadline
  <1> QED
    BY <1>7, <1>8, <1>9, <1>10, <1>11, <1>12 DEF IInv

\* Every step, and none, keeps the invariant.
LEMMA NextIInv ==
    IInv /\ [Next]_vars => IInv'
  <1> SUFFICES ASSUME IInv, [Next]_vars PROVE IInv'
    OBVIOUS
  <1>1. CASE Next
    BY <1>1, StepTypes, StepItems, StepParked, StepCounted, StepDrain, StepDeadline DEF IInv
  <1>2. CASE UNCHANGED vars
    <2>1. /\ UNCHANGED <<enqueued, sent, dropped, backlogReason>>
          /\ UNCHANGED <<item, queue, paused, resumeAt, pauses, loop, closed, shutting, failures>>
      BY <1>2 DEF vars, countVars, pauseVars
    <2>2. Types' /\ ItemsOK' /\ Deadline'
      BY <2>1 DEF IInv, Types, ItemsOK, Untouched, HasTryLeft, NoneAbandoned, Deadline, NoItem
    <2>3. Live' = Live /\ Drained' = Drained /\ Queued' = Queued /\ DroppedTotal' = DroppedTotal
      BY <2>1 DEF Live, Drained, Queued, DroppedTotal
    <2>4. Parked' /\ Counted' /\ Drain'
      BY <2>1, <2>3 DEF IInv, Parked, InOrder, HoldsQueued, Counted, Balance, Drain, DrainIsBounded
    <2> QED
      BY <2>2, <2>4 DEF IInv
  <1> QED
    BY <1>1, <1>2

\* The inductive invariant holds at every step.
THEOREM Inductive ==
    Spec => []IInv
  BY InitIInv, NextIInv, PTL DEF Spec

\* Every event given to send() is sent, counted under one reason, or pending.
THEOREM SenderBalance ==
    Spec => []Balance
  <1>1. IInv => Balance
    BY DEF IInv, Counted
  <1> QED
    BY <1>1, Inductive, PTL

\* The back-off queue stays in enqueue order, with a loop to empty it.
THEOREM SenderQueue ==
    Spec => []QueueIsDrained
  <1>1. IInv => QueueIsDrained
    <2> SUFFICES ASSUME IInv PROVE QueueIsDrained
      OBVIOUS
    <2>1. InOrder /\ queue \in Seq(Events) /\ (queue # << >> => loop.at # "off")
      BY DEF IInv, Parked, Types
    <2>2. \A i \in 1 .. Len(queue) - 1 : i \in 1 .. Len(queue) /\ i + 1 \in 1 .. Len(queue) /\ i < i + 1
      BY <2>1
    <2> QED
      BY <2>1, <2>2 DEF InOrder, QueueIsDrained
  <1> QED
    BY <1>1, Inductive, PTL

\* Of the events that waited for a back-off, at most DRAIN_CONCURRENCY are in flight.
THEOREM SenderDrain ==
    Spec => []DrainIsBounded
  <1>1. IInv => DrainIsBounded
    BY DEF IInv, Drain
  <1> QED
    BY <1>1, Inductive, PTL

\* No request begins before the deadline of the latest 429.
THEOREM SenderWaits ==
    Spec => NothingSentBeforeDeadline
  <1> DEFINE Waits ==
         \A e \in Events : (item[e].phase # "fetching" /\ item'[e].phase = "fetching") => resumeAt = 0
  <1>1. ASSUME IInv, [Next]_vars PROVE [Waits]_vars
    <2>1. Types /\ (~paused => resumeAt = 0)
          /\ (loop.at = "wait" /\ loop.seen = pauses => loop.nap = resumeAt)
      BY <1>1 DEF IInv, Deadline
    <2>2. ASSUME NEW e \in Events, item[e].phase # "fetching", item'[e].phase = "fetching", Next
          PROVE  resumeAt = 0
      <3>1. CASE Send
        <4>1. UNCHANGED item \/ ~paused
              \/ \E f \in Events : Only(f, {"queued"}, 0, FALSE)
          BY <1>1, <3>1, SendEffect
        <4> QED
          BY <2>1, <2>2, <4>1 DEF Only
      <3>2. CASE \E f \in Events : AnswerStep(f)
        <4>1. PICK f \in Events : \E P \in {{"answered"}, {"settled"}} : \E a, d : Only(f, P, a, d)
          BY <1>1, <3>2, AnswerEffect
        <4> QED
          BY <2>2, <4>1 DEF Only
      <3>3. CASE \E f \in Events : ProcessStep(f)
        <4>1. PICK f \in Events :
                  ~paused \/ \E P \in {{"settled"}, {"queued"}, {"sleeping"}} :
                                 \E a, d : Only(f, P, a, d)
          BY <1>1, <3>3, ProcessEffect
        <4> QED
          BY <2>1, <2>2, <4>1 DEF Only
      <3>4. CASE DrainStep
        <4>1. CASE Sleeps
          BY <2>2, <4>1 DEF Sleeps
        <4>2. ASSUME NEW n \in 0 .. Len(queue), Round(n) PROVE resumeAt = 0
          <5>1. n > 0
            <6>1. n = 0 => First(n) = {}
              BY DEF First
            <6> QED
              BY <2>2, <4>2, <6>1 DEF Round, Takes, Picked
          <5>2. paused' = FALSE /\ (paused' = paused \/ (loop.at = "wait" /\ loop.nap = 0 /\ pauses = loop.seen))
            BY <4>2, <5>1 DEF Round
          <5> QED
            BY <2>1, <5>2
        <4>3. ASSUME NEW n \in {0, 1}, Turn(n) PROVE resumeAt = 0
          <5>1. n = 1
            <6>1. n = 0 => First(n) = {}
              BY DEF First
            <6> QED
              BY <2>2, <4>3, <6>1 DEF Turn, Takes, Picked
          <5> QED
            BY <2>1, <4>3, <5>1 DEF Turn
        <4> QED
          BY <1>1, <3>4, <4>1, <4>2, <4>3, DrainEffect
      <3>5. CASE Shutdown \/ Tick
        BY <2>2, <3>5 DEF Shutdown, Tick
      <3>6. CASE ShutdownEnds
        <4>1. item[e] \in Fields
          BY <2>1, <2>2 DEF Types, Items
        <4> QED
          BY <2>2, <3>6, <4>1 DEF ShutdownEnds, Fields
      <3> QED
        BY <2>2, <3>1, <3>2, <3>3, <3>4, <3>5, <3>6 DEF Next
    <2> QED
      BY <1>1, <2>2
  <1>2. Spec => [][Waits]_vars
    BY <1>1, Inductive, PTL DEF Spec
  <1> QED
    BY <1>2 DEF NothingSentBeforeDeadline

\* The types, among them that pending() stays within maxPending.
THEOREM SenderTypes ==
    Spec => []TypeOK
  <1>1. IInv => TypeOK
    <2> SUFFICES ASSUME IInv PROVE TypeOK
      OBVIOUS
    <2>1. Types /\ HoldsQueued /\ Cardinality(Live) <= MaxPending
      BY DEF IInv, Parked, Counted
    <2>2. \A f \in Items : f \in Fields
      BY DEF Items
    <2>3. item \in [Events -> Fields]
      BY <2>1, <2>2 DEF Types
    <2>4. pauses \in 0 .. MaxFailures /\ failures \in 0 .. MaxFailures
      BY <2>1, GatewaySenderAssumption DEF Types
    <2> QED
      BY <2>1, <2>3, <2>4 DEF TypeOK, Types, HoldsQueued, Queued, Fields, Loops
  <1> QED
    BY <1>1, Inductive, PTL
=============================================================================
