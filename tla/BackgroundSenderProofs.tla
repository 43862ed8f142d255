----------------------- MODULE BackgroundSenderProofs -----------------------
(***************************************************************************)
(* BackgroundSender for every set of callers, buffer size, batch size and  *)
(* bound.  The inductive invariant is TypeOK /\ Control /\ Data /\ Hand:    *)
(*   Control  who holds _send_lock, and what the threads may rely on;      *)
(*   Data     Balance, and that the chunk and the rest are empty outside a *)
(*            flush, which is why a drain may overwrite them;              *)
(*   Hand     no event is in two places, and none is the parent's.         *)
(***************************************************************************)
EXTENDS BackgroundSender

USE DEF Daemon, Exit, Uninst, Closer, NoOne

Sending == {"post", "reply", "rebuffer"}

\* A back-off cannot begin between the drain and the last reply of a flush.
NoBackoffInFlush ==
    \A f \in Flushers : pc[f] \in {"post", "reply"} => ~sender.backing_off

Control == OneSendAtATime /\ NoBackoffInFlush /\ StopIsSeen

\* Outside a flush nothing is drained; while re-buffering no chunk is left.
NothingDrained ==
    /\ (\A f \in Flushers : pc[f] \notin Sending) => chunk = << >> /\ rest = << >>
    /\ (\E f \in Flushers : pc[f] = "rebuffer") => chunk = << >>

Data == Balance /\ NothingDrained

\* The events of this process: what a fork left to the parent is not among them.
Own == inherited + 1 .. born

\* Every event in hand is this process's and is there once.
Hand ==
    /\ sender.buffer \in Seq(Own) /\ chunk \in Seq(Own) /\ rest \in Seq(Own)
    /\ inherited <= born
    /\ Once(InHand)

IInv == TypeOK /\ Control /\ Data /\ Hand

-----------------------------------------------------------------------------
\* The threads are distinct, and no application thread is one of the four.
LEMMA ThreadFacts ==
    /\ Daemon \in Threads /\ Exit \in Threads /\ Uninst \in Threads /\ Closer \in Threads
    /\ Callers \subseteq Threads /\ Flushers \subseteq Threads /\ Stoppers \subseteq Threads
    /\ NoOne \notin Threads
    /\ \A c \in Callers : c \notin Flushers /\ c \notin Stoppers
  BY CallersAssumption DEF Threads, Flushers, Stoppers

\* Goto keeps the labels typed.
LEMMA GotoType ==
    ASSUME pc \in [Threads -> Labels], NEW t, NEW l \in Labels, Goto(t, l)
    PROVE  pc' \in [Threads -> Labels]
  BY DEF Goto

\* A sender of TypeOK is one the TelemetryCore lemmas are about.
LEMMA SenderBounded ==
    ASSUME sender \in Sender, Len(sender.buffer) <= Capacity
    PROVE  sender \in Bounded
  BY DEF Bounded

\* Ending a back-off leaves the counters and the buffer alone.
LEMMA IgnoreBackoffType ==
    ASSUME NEW s \in Bounded
    PROVE  /\ IgnoreBackoff(s) \in Bounded
           /\ IgnoreBackoff(s).enqueued = s.enqueued
           /\ Accounted(IgnoreBackoff(s)) = Accounted(s)
  <1> DEFINE u == IgnoreBackoff(s)
  <1>1. s \in Sender
    BY DEF Bounded
  <1>2. u \in Sender
    BY <1>1 DEF IgnoreBackoff, Sender
  <1>3. u.enqueued = s.enqueued /\ u.sent = s.sent /\ u.buffer = s.buffer /\ u.dropped = s.dropped
    BY <1>1 DEF IgnoreBackoff, Sender
  <1> HIDE DEF u
  <1>4. Accounted(u) = Accounted(s)
    BY <1>3 DEF Accounted, DroppedTotal
  <1>5. u \in Bounded
    BY <1>2, <1>3 DEF Bounded
  <1> QED
    BY <1>3, <1>4, <1>5 DEF u

\* _reset_after_fork leaves a sender that accounts for nothing.
LEMMA ResetType ==
    ASSUME NEW s \in Bounded
    PROVE  /\ ResetAfterFork(s) \in Bounded
           /\ ResetAfterFork(s).enqueued = 0
           /\ Accounted(ResetAfterFork(s)) = 0
  <1> DEFINE u == ResetAfterFork(s)
  <1>1. s \in Sender /\ << >> \in Seq(Nat) /\ Len(<< >>) = 0
    BY DEF Bounded
  <1>2. NoDrops \in [DROP_REASONS -> Nat]
    BY DEF NoDrops
  <1>3. u \in Sender
    BY <1>1, <1>2 DEF ResetAfterFork, Sender, BacklogReasons
  <1>4. u.enqueued = 0 /\ u.sent = 0 /\ u.buffer = << >> /\ u.dropped = NoDrops
    BY <1>1 DEF ResetAfterFork, Sender
  <1> HIDE DEF u
  <1>5. DroppedTotal(u) = 0
    BY <1>4 DEF DroppedTotal, NoDrops, DROP_REASONS
  <1>6. u \in Bounded
    BY <1>1, <1>3, <1>4, CapacityAssumption DEF Bounded
  <1> QED
    BY <1>1, <1>4, <1>5, <1>6 DEF u, Accounted

\* A new sender is typed and accounts for nothing.
LEMMA NewSenderType ==
    NewSender \in Bounded /\ NewSender.enqueued = 0 /\ Accounted(NewSender) = 0
  <1>1. << >> \in Seq(Nat) /\ Len(<< >>) = 0
    OBVIOUS
  <1>2. NoDrops \in [DROP_REASONS -> Nat]
    BY DEF NoDrops
  <1>3. NewSender \in Sender
    BY <1>1, <1>2 DEF NewSender, Sender, BacklogReasons
  <1>4. DroppedTotal(NewSender) = 0
    BY DEF DroppedTotal, NoDrops, DROP_REASONS, NewSender
  <1>5. NewSender.sent = 0 /\ NewSender.enqueued = 0 /\ NewSender.buffer = << >>
    BY DEF NewSender
  <1> QED
    BY <1>1, <1>3, <1>4, <1>5, CapacityAssumption DEF Accounted, Bounded

-----------------------------------------------------------------------------
\* What one step does to the data: the sender stays well typed and every event
\* stays accounted for.  Only here do the methods of TelemetryCore matter.
Held == Len(chunk) + Len(rest)

DataStep ==
    /\ sender' \in Bounded
    /\ chunk' \in Seq(Nat) /\ rest' \in Seq(Nat)
    /\ sender'.enqueued = Accounted(sender)' + Held'

\* _drain_chunks neither loses nor invents an event.
LEMMA NextChunkSplits ==
    ASSUME NEW events \in Seq(Nat), events # << >>, NextChunk(events)
    PROVE  chunk' \in Seq(Nat) /\ rest' \in Seq(Nat) /\ Held' = Len(events)
  <1>1. PICK n \in ChunkSizes(events) :
           chunk' = FirstOf(events, n) /\ rest' = AfterFirst(events, n)
    BY DEF NextChunk
  <1> QED
    BY <1>1, ChunkSplits DEF Held

\* Going on to the next chunk gives up the current chunk and nothing else.
LEMMA ContinueHolds ==
    ASSUME NEW f, rest \in Seq(Nat), Continue(f)
    PROVE  chunk' \in Seq(Nat) /\ rest' \in Seq(Nat) /\ Held' = Len(rest)
  <1>1. CASE rest = << >>
    BY <1>1 DEF Continue, Held
  <1>2. CASE rest # << >>
    BY <1>2, NextChunkSplits DEF Continue
  <1> QED
    BY <1>1, <1>2

\* The steps that leave the buffer, the chunk and the counters alone.
Quiet ==
    \/ \E c \in Callers : CheckWake(c) \/ SetWake(c) \/ RequestFlush(c)
    \/ DaemonStep
    \/ StartUninstrument \/ StartExit \/ ExitUnregistered \/ StartClose
    \/ \E t \in Stoppers : StopStep(t)
    \/ \E f \in Flushers : Acquire(f) \/ SkipFlush(f) \/ Post(f) \/ Release(f)
    \/ ExitGivesUp

\* The steps listed in Quiet move no event.
LEMMA QuietUnchanged ==
    ASSUME Quiet
    PROVE  UNCHANGED <<sender, chunk, rest, born, inherited>>
  BY DEF Quiet, CheckWake, SetWake, RequestFlush, DaemonStep, DaemonWakes, DaemonClears,
         DaemonDecides, DaemonLoops, StartUninstrument, StartExit, ExitUnregistered,
         StartClose, StopStep, StopFinal, StopFlag, StopWake, Acquire, SkipFlush, Post,
         Release, ExitGivesUp, ghostVars

\* Every step keeps every event accounted for.
LEMMA StepAccounts ==
    ASSUME IInv, Next
    PROVE  DataStep
  <1>1. /\ sender \in Bounded /\ chunk \in Seq(Nat) /\ rest \in Seq(Nat) /\ born \in Nat
        /\ sender.buffer \in Seq(Nat)
    BY SenderBounded DEF IInv, TypeOK, Sender
  <1>2. sender.enqueued = Accounted(sender) + Held
    <2>1. /\ sender.enqueued \in Nat /\ sender.sent \in Nat /\ DroppedTotal(sender) \in Nat
          /\ Len(sender.buffer) \in Nat /\ Len(chunk) \in Nat /\ Len(rest) \in Nat
      BY <1>1, CountersNat DEF Bounded
    <2>2. Balance
      BY DEF IInv, Data
    <2> QED
      BY <2>1, <2>2 DEF Balance, Accounted, Held
  <1>3. /\ Accounted(sender) \in Nat /\ Held \in Nat
        /\ Len(chunk) \in Nat /\ Len(rest) \in Nat /\ Held = Len(chunk) + Len(rest)
    BY <1>1, CountersNat DEF Bounded, Held
  <1>4. CASE Quiet
    BY <1>1, <1>2, <1>4, QuietUnchanged DEF DataStep, Held
  <1>5. ASSUME NEW c \in Callers, EnqueueEvent(c) PROVE DataStep
    <2>1. sender' = Enqueue(sender, born + 1) /\ UNCHANGED <<chunk, rest>> /\ born + 1 \in Nat
      BY <1>1, <1>5 DEF EnqueueEvent
    <2>2. Held' = Held
      BY <2>1 DEF Held
    <2>3. /\ sender' \in Bounded /\ sender'.enqueued = sender.enqueued + 1
          /\ Accounted(sender)' = Accounted(sender) + 1
      BY <1>1, <2>1, EnqueueAccounts
    <2> QED
      BY <1>1, <1>2, <1>3, <2>1, <2>2, <2>3 DEF DataStep
  <1>6. CASE CloseDropsBackoff \/ BackoffEnds
    <2>1. sender' = IgnoreBackoff(sender) /\ UNCHANGED <<chunk, rest>>
      BY <1>6 DEF CloseDropsBackoff, BackoffEnds
    <2>2. Held' = Held
      BY <2>1 DEF Held
    <2> QED
      BY <1>1, <1>2, <2>1, <2>2, IgnoreBackoffType DEF DataStep
  <1>7. ASSUME NEW f \in Flushers, Drain(f) PROVE DataStep
    <2>1. sender' = Taken(sender) /\ NextChunk(sender.buffer) /\ sender.buffer # << >>
      BY <1>7 DEF Drain, MaySend
    <2>2. chunk = << >> /\ rest = << >>
      <3>1. pc[f] = "acquired"
        BY <1>7 DEF Drain, Move
      <3>2. \A g \in Flushers : pc[g] \notin Sending
        BY <3>1 DEF IInv, Control, OneSendAtATime, Holding, Sending
      <3> QED
        BY <3>2 DEF IInv, Data, NothingDrained
    <2>3. Held = 0
      BY <2>2 DEF Held
    <2>4. chunk' \in Seq(Nat) /\ rest' \in Seq(Nat) /\ Held' = Len(sender.buffer)
      BY <1>1, <2>1, NextChunkSplits
    <2>5. /\ sender' \in Bounded /\ sender'.enqueued = sender.enqueued
          /\ Accounted(sender)' = Accounted(sender) - Len(sender.buffer)
      BY <1>1, <2>1, TakenAccounts
    <2> QED
      BY <1>1, <1>2, <1>3, <2>3, <2>4, <2>5 DEF DataStep
  <1>8. CASE ExitOutOfTime
    <2>1. sender' = sender /\ chunk' = << >> /\ rest' = chunk \o rest
      BY <1>8 DEF ExitOutOfTime
    <2>2. rest' \in Seq(Nat) /\ Len(rest') = Len(chunk) + Len(rest)
          /\ chunk' \in Seq(Nat) /\ Len(chunk') = 0
      BY <1>1, <2>1
    <2>3. Held' = Held
      BY <1>3, <2>2 DEF Held
    <2> QED
      BY <1>1, <1>2, <2>1, <2>2, <2>3 DEF DataStep
  <1>9. ASSUME NEW f \in Flushers, ReplyOk(f) PROVE DataStep
    <2>1. PICK skipped \in 0 .. Len(chunk) : sender' = HandleOk(sender, chunk, skipped)
      BY <1>9 DEF ReplyOk
    <2>2. Continue(f)
      BY <1>9 DEF ReplyOk
    <2>3. chunk' \in Seq(Nat) /\ rest' \in Seq(Nat) /\ Held' = Len(rest)
      BY <1>1, <2>2, ContinueHolds
    <2>4. /\ sender' \in Bounded /\ sender'.enqueued = sender.enqueued
          /\ Accounted(sender)' = Accounted(sender) + Len(chunk)
      BY <1>1, <2>1, HandleOkAccounts
    <2> QED
      BY <1>2, <1>3, <2>3, <2>4 DEF DataStep
  <1>10. ASSUME NEW f \in Flushers, ReplyFailed(f) PROVE DataStep
    <2>1. sender' = HandleFailed(sender, chunk) /\ Continue(f)
      BY <1>10 DEF ReplyFailed
    <2>2. chunk' \in Seq(Nat) /\ rest' \in Seq(Nat) /\ Held' = Len(rest)
      BY <1>1, <2>1, ContinueHolds
    <2>3. /\ sender' \in Bounded /\ sender'.enqueued = sender.enqueued
          /\ Accounted(sender)' = Accounted(sender) + Len(chunk)
      BY <1>1, <2>1, HandleFailedAccounts
    <2> QED
      BY <1>2, <1>3, <2>2, <2>3 DEF DataStep
  <1>11. ASSUME NEW f \in Flushers, ReplyLimited(f) PROVE DataStep
    <2>1. PICK wait \in BOOLEAN : sender' = HandleLimited(sender, chunk, wait)
      BY <1>11 DEF ReplyLimited
    <2>2. chunk' = << >> /\ rest' = rest
      BY <1>11 DEF ReplyLimited
    <2>3. chunk' \in Seq(Nat) /\ rest' \in Seq(Nat) /\ Held' = Len(rest)
      BY <1>1, <2>2 DEF Held
    <2>4. /\ sender' \in Bounded /\ sender'.enqueued = sender.enqueued
          /\ Accounted(sender)' = Accounted(sender) + Len(chunk)
      BY <1>1, <2>1, HandleLimitedAccounts
    <2> QED
      BY <1>2, <1>3, <2>3, <2>4 DEF DataStep
  <1>12. ASSUME NEW f \in Flushers, RebufferNext(f) PROVE DataStep
    <2>1. CASE rest = << >>
      <3>1. UNCHANGED <<sender, chunk, rest>>
        BY <1>12, <2>1 DEF RebufferNext
      <3> QED
        BY <1>1, <1>2, <3>1 DEF DataStep, Held
    <2>2. CASE rest # << >>
      <3>1. sender' = Rebuffer(sender, <<Head(rest)>>) /\ rest' = Tail(rest) /\ chunk' = chunk
        BY <1>12, <2>2 DEF RebufferNext
      <3>2. <<Head(rest)>> \in Seq(Nat) /\ Len(<<Head(rest)>>) = 1
        BY <1>1, <2>2
      <3>3. rest' \in Seq(Nat) /\ Len(rest') = Len(rest) - 1
        BY <1>1, <2>2, <3>1
      <3>4. /\ sender' \in Bounded /\ sender'.enqueued = sender.enqueued
            /\ Accounted(sender)' = Accounted(sender) + 1
        BY <1>1, <3>1, <3>2, RebufferAccounts
      <3>5. Held' = Held - 1
        BY <1>3, <3>1, <3>3 DEF Held
      <3> QED
        BY <1>1, <1>2, <1>3, <3>1, <3>3, <3>4, <3>5 DEF DataStep
    <2> QED
      BY <2>1, <2>2
  <1>13. CASE Fork
    <2>1. sender' = ResetAfterFork(sender) /\ chunk' = << >> /\ rest' = << >>
      BY <1>13 DEF Fork
    <2>2. chunk' \in Seq(Nat) /\ rest' \in Seq(Nat) /\ Held' = 0
      BY <2>1 DEF Held
    <2> QED
      BY <1>1, <2>1, <2>2, ResetType DEF DataStep
  <1> QED
    BY <1>4, <1>5, <1>6, <1>7, <1>8, <1>9, <1>10, <1>11, <1>12, <1>13
    DEF Next, Quiet, CallerStep, FlushStep

-----------------------------------------------------------------------------
\* Hand is preserved.  Whatever a step does, the events in hand afterwards are
\* those from before without some of them, and perhaps one new event.

\* The order in which the three places are put together does not matter.
LEMMA Together ==
    \A a, b, c \in Seq(Nat) : (a \o b) \o c = a \o (b \o c)
  <1> SUFFICES ASSUME NEW a \in Seq(Nat), NEW b \in Seq(Nat), NEW c \in Seq(Nat)
               PROVE  (a \o b) \o c = a \o (b \o c)
    OBVIOUS
  <1> QED
    BY ConcatAssociative

\* Hand, from what a step leaves in the buffer, the chunk and the rest.
LEMMA HandFrom ==
    ASSUME sender'.buffer \in Seq(Own'), chunk' \in Seq(Own'), rest' \in Seq(Own'),
           inherited' \in Nat, inherited' <= born', Once(sender'.buffer \o (chunk' \o rest'))
    PROVE  Hand'
  <1>1. Own' \subseteq Nat
    BY DEF Own
  <1>2. sender'.buffer \in Seq(Nat) /\ chunk' \in Seq(Nat) /\ rest' \in Seq(Nat)
    BY <1>1, SeqMonotonic
  <1>3. (sender'.buffer \o chunk') \o rest' = sender'.buffer \o (chunk' \o rest')
    BY <1>2, Together
  <1>4. InHand' = sender'.buffer \o (chunk' \o rest')
    BY <1>3 DEF InHand
  <1> QED
    BY <1>4 DEF Hand

\* _drain_chunks keeps the events and their order.
LEMMA NextChunkConcat ==
    ASSUME NEW S, NEW events, events \in Seq(S), events # << >>, NextChunk(events)
    PROVE  chunk' \in Seq(S) /\ rest' \in Seq(S) /\ chunk' \o rest' = events
  <1>1. PICK n \in ChunkSizes(events) :
           chunk' = FirstOf(events, n) /\ rest' = AfterFirst(events, n)
    BY DEF NextChunk
  <1> QED
    BY <1>1, ChunkConcat

\* So does what follows a reply: the next chunk, or the end of the flush.
LEMMA ContinueConcat ==
    ASSUME NEW S, NEW f, rest \in Seq(S), Continue(f)
    PROVE  chunk' \in Seq(S) /\ rest' \in Seq(S) /\ chunk' \o rest' = rest
  <1>1. CASE rest = << >>
    <2>1. chunk' = << >> /\ rest' = << >>
      BY <1>1 DEF Continue
    <2> QED
      BY <1>1, <2>1
  <1>2. CASE rest # << >>
    BY <1>2, NextChunkConcat DEF Continue
  <1> QED
    BY <1>1, <1>2

\* A step repeats no event in the sender's hands.
LEMMA StepHand ==
    ASSUME IInv, Next
    PROVE  Hand'
  <1>1. /\ sender \in Bounded /\ sender.buffer \in Seq(Own)
        /\ chunk \in Seq(Own) /\ rest \in Seq(Own)
        /\ born \in Nat /\ inherited \in Nat /\ inherited <= born /\ Once(InHand)
    BY SenderBounded DEF IInv, TypeOK, Hand
  <1>2. Once(sender.buffer \o (chunk \o rest))
    <2>1. sender.buffer \in Seq(Nat) /\ chunk \in Seq(Nat) /\ rest \in Seq(Nat)
      BY SenderBounded DEF IInv, TypeOK, Sender
    <2>2. (sender.buffer \o chunk) \o rest = sender.buffer \o (chunk \o rest)
      BY <2>1, Together
    <2> QED
      BY <1>1, <2>2 DEF InHand
  <1>3. chunk \o rest \in Seq(Own)
    BY <1>1
  <1>4. CASE Quiet
    <2>1. UNCHANGED <<sender, chunk, rest, born, inherited>>
      BY <1>4, QuietUnchanged
    <2> QED
      BY <1>1, <2>1 DEF Hand, InHand, Own
  <1>5. ASSUME NEW c \in Callers, EnqueueEvent(c) PROVE Hand'
    <2> DEFINE e == born + 1
               u == [sender EXCEPT !.enqueued = @ + 1]
    <2>1. sender' = Rebuffer(u, <<e>>) /\ born' = e /\ UNCHANGED <<chunk, rest, inherited>>
      BY <1>5 DEF EnqueueEvent, Enqueue
    <2>2. u \in Bounded /\ u.buffer = sender.buffer
      <3>1. sender \in Sender /\ sender.enqueued + 1 \in Nat
        BY <1>1 DEF Bounded, Sender
      <3>2. u \in Sender /\ u.buffer = sender.buffer
        BY <3>1 DEF Sender
      <3> QED
        BY <1>1, <3>2 DEF Bounded
    <2>3. Own' = Own \cup {e} /\ e \notin Own
      BY <1>1, <2>1 DEF Own
    <2>4. /\ sender.buffer \in Seq(Own') /\ chunk \in Seq(Own') /\ rest \in Seq(Own')
          /\ <<e>> \in Seq(Own') /\ chunk \o rest \in Seq(Own')
      <3>1. Own \subseteq Own' /\ e \in Own'
        BY <2>3
      <3>2. sender.buffer \in Seq(Own') /\ chunk \in Seq(Own') /\ rest \in Seq(Own')
        BY <1>1, <3>1, SeqMonotonic
      <3> QED
        BY <3>1, <3>2
    <2>5. Once(sender.buffer \o (<<e>> \o (chunk \o rest)))
      BY <1>1, <1>2, <1>3, <2>3, OnceInsert
    <2> HIDE DEF u
    <2>6. /\ Rebuffer(u, <<e>>).buffer \in Seq(Own')
          /\ Once(Rebuffer(u, <<e>>).buffer \o (chunk \o rest))
      BY <2>2, <2>4, <2>5, RebufferOnce
    <2>7. inherited' <= born' /\ inherited' \in Nat
      BY <1>1, <2>1
    <2> QED
      BY <2>1, <2>4, <2>6, <2>7, HandFrom
  <1> DEFINE Same == UNCHANGED <<born, inherited>>
  <1>6. Same => Own' = Own /\ inherited' <= born' /\ inherited' \in Nat
    BY <1>1 DEF Own
  <1>7. CASE CloseDropsBackoff \/ BackoffEnds
    <2>1. sender' = IgnoreBackoff(sender) /\ UNCHANGED <<chunk, rest>> /\ Same
      BY <1>7 DEF CloseDropsBackoff, BackoffEnds, ghostVars
    <2>2. sender'.buffer = sender.buffer
      BY <1>1, <2>1 DEF IgnoreBackoff, Bounded, Sender
    <2> QED
      BY <1>1, <1>2, <1>6, <2>1, <2>2, HandFrom
  <1>8. ASSUME NEW f \in Flushers, Drain(f) PROVE Hand'
    <2>1. sender' = Taken(sender) /\ NextChunk(sender.buffer) /\ sender.buffer # << >> /\ Same
      BY <1>8 DEF Drain, MaySend, ghostVars
    <2>2. chunk = << >> /\ rest = << >>
      <3>1. pc[f] = "acquired"
        BY <1>8 DEF Drain, Move
      <3>2. \A g \in Flushers : pc[g] \notin Sending
        BY <3>1 DEF IInv, Control, OneSendAtATime, Holding, Sending
      <3> QED
        BY <3>2 DEF IInv, Data, NothingDrained
    <2>3. sender'.buffer = << >>
      BY <1>1, <2>1 DEF Taken, Bounded, Sender
    <2>4. chunk' \in Seq(Own) /\ rest' \in Seq(Own) /\ chunk' \o rest' = sender.buffer
      BY <1>1, <2>1, NextChunkConcat
    <2>5. sender'.buffer \o (chunk' \o rest') = sender.buffer \o (chunk \o rest)
      <3>1. sender.buffer \o (<< >> \o << >>) = sender.buffer
        BY <1>1
      <3>2. << >> \o sender.buffer = sender.buffer
        BY <1>1
      <3> QED
        BY <2>2, <2>3, <2>4, <3>1, <3>2
    <2>6. sender'.buffer \in Seq(Own)
      BY <2>3
    <2> QED
      BY <1>2, <1>6, <2>1, <2>4, <2>5, <2>6, HandFrom
  <1>9. CASE ExitOutOfTime
    <2>1. sender' = sender /\ chunk' = << >> /\ rest' = chunk \o rest /\ Same
      BY <1>9 DEF ExitOutOfTime, ghostVars
    <2>2. chunk' \in Seq(Own) /\ chunk' \o rest' = chunk \o rest
      BY <1>3, <2>1
    <2> QED
      BY <1>1, <1>2, <1>3, <1>6, <2>1, <2>2, HandFrom
  <1>10. ASSUME NEW f \in Flushers, ReplyOk(f) PROVE Hand'
    <2>1. PICK skipped \in 0 .. Len(chunk) : sender' = HandleOk(sender, chunk, skipped)
      BY <1>10 DEF ReplyOk
    <2>2. Continue(f) /\ Same
      BY <1>10 DEF ReplyOk, ghostVars
    <2>3. sender'.buffer = sender.buffer
      BY <1>1, <2>1 DEF HandleOk, Bounded, Sender
    <2>4. chunk' \in Seq(Own) /\ rest' \in Seq(Own) /\ chunk' \o rest' = rest
      BY <1>1, <2>2, ContinueConcat
    <2>5. Once(sender.buffer \o rest)
      BY <1>1, <1>2, OnceWithout
    <2> QED
      BY <1>1, <1>6, <2>2, <2>3, <2>4, <2>5, HandFrom
  <1>11. ASSUME NEW f \in Flushers, ReplyFailed(f) \/ ReplyLimited(f) PROVE Hand'
    <2>1. PICK u \in Bounded : u.buffer = sender.buffer /\ sender' = Rebuffer(u, chunk)
      <3>1. CASE ReplyFailed(f)
        <4> DEFINE u == [sender EXCEPT !.backlog_reason = "send_failed"]
        <4>1. sender' = Rebuffer(u, chunk)
          BY <3>1 DEF ReplyFailed, HandleFailed
        <4>2. u \in Bounded /\ u.buffer = sender.buffer
          BY <1>1 DEF Bounded, Sender, BacklogReasons
        <4> QED
          BY <4>1, <4>2
      <3>2. CASE ReplyLimited(f)
        <4>1. PICK wait \in BOOLEAN : sender' = HandleLimited(sender, chunk, wait)
          BY <3>2 DEF ReplyLimited
        <4> DEFINE u == [sender EXCEPT !.backlog_reason = "rate_limited", !.backing_off = wait]
        <4>2. sender' = Rebuffer(u, chunk)
          BY <4>1 DEF HandleLimited
        <4>3. u \in Bounded /\ u.buffer = sender.buffer
          BY <1>1 DEF Bounded, Sender, BacklogReasons
        <4> QED
          BY <4>2, <4>3
      <3> QED
        BY <1>11, <3>1, <3>2
    <2>2. Same
      BY <1>11 DEF ReplyFailed, ReplyLimited
    <2>3. chunk' \in Seq(Own) /\ rest' \in Seq(Own) /\ chunk' \o rest' = rest
      <3>1. CASE ReplyFailed(f)
        BY <1>1, <3>1, ContinueConcat DEF ReplyFailed
      <3>2. CASE ReplyLimited(f)
        <4>1. chunk' = << >> /\ rest' = rest
          BY <3>2 DEF ReplyLimited
        <4> QED
          BY <1>1, <4>1
      <3> QED
        BY <1>11, <3>1, <3>2
    <2>4. /\ Rebuffer(u, chunk).buffer \in Seq(Own)
          /\ Once(Rebuffer(u, chunk).buffer \o rest)
      BY <1>1, <1>2, <2>1, RebufferOnce
    <2> QED
      BY <1>6, <2>1, <2>2, <2>3, <2>4, HandFrom
  <1>12. ASSUME NEW f \in Flushers, RebufferNext(f) PROVE Hand'
    <2>1. chunk = << >> /\ chunk' = chunk /\ Same
      <3>1. pc[f] = "rebuffer"
        BY <1>12 DEF RebufferNext
      <3> QED
        BY <1>12, <3>1 DEF IInv, Data, NothingDrained, RebufferNext, ghostVars
    <2>2. CASE rest = << >>
      BY <1>1, <1>2, <1>6, <1>12, <2>1, <2>2, HandFrom DEF RebufferNext
    <2>3. CASE rest # << >>
      <3>1. sender' = Rebuffer(sender, <<Head(rest)>>) /\ rest' = Tail(rest)
        BY <1>12, <2>3 DEF RebufferNext
      <3>2. <<Head(rest)>> \in Seq(Own) /\ Tail(rest) \in Seq(Own)
        BY <1>1, <2>3
      <3>3. <<Head(rest)>> \o Tail(rest) = chunk \o rest
        <4>1. <<Head(rest)>> \o Tail(rest) = rest
          BY <1>1, <2>3
        <4>2. << >> \o rest = rest
          BY <1>1
        <4> QED
          BY <2>1, <4>1, <4>2
      <3>4. /\ Rebuffer(sender, <<Head(rest)>>).buffer \in Seq(Own)
            /\ Once(Rebuffer(sender, <<Head(rest)>>).buffer \o Tail(rest))
        BY <1>1, <1>2, <3>2, <3>3, RebufferOnce
      <3>5. chunk' \o rest' = Tail(rest)
        BY <2>1, <3>1, <3>2
      <3> QED
        BY <1>1, <1>6, <2>1, <3>1, <3>2, <3>4, <3>5, HandFrom
    <2> QED
      BY <2>2, <2>3
  <1>13. CASE Fork
    <2>1. sender' = ResetAfterFork(sender) /\ chunk' = << >> /\ rest' = << >>
          /\ inherited' = born /\ born' = born
      BY <1>13 DEF Fork
    <2>2. sender'.buffer = << >>
      BY <1>1, <2>1 DEF ResetAfterFork, Bounded, Sender
    <2>3. Once(<< >> \o (<< >> \o << >>))
      BY DEF Once
    <2> QED
      BY <1>1, <2>1, <2>2, <2>3, HandFrom
  <1> QED
    BY <1>4, <1>5, <1>7, <1>8, <1>9, <1>10, <1>11, <1>12, <1>13
    DEF Next, Quiet, CallerStep, FlushStep

-----------------------------------------------------------------------------
\* The rest of TypeOK: where the threads stand, the flags and the ghosts.
ControlTypes ==
    /\ pc \in [Threads -> Labels]
    /\ send_lock \in Flushers \cup {NoOne}
    /\ wake \in BOOLEAN /\ stopping \in BOOLEAN
    /\ final_flush \in BOOLEAN /\ registered \in BOOLEAN
    /\ born \in Nat /\ inherited \in Nat /\ budget \in Nat

\* Spending from a bound that is not used up keeps it a natural number.
LEMMA BudgetSpent ==
    ASSUME budget \in Nat, Spend
    PROVE  budget' \in Nat
  BY DEF Spend

\* Every step keeps the labels, the flags and the lock typed.
LEMMA StepControlTypes ==
    ASSUME ControlTypes, Next
    PROVE  ControlTypes'
  <1> USE DEF ControlTypes, Move, Goto, Labels, ghostVars
  <1>1. ASSUME NEW c \in Callers, CallerStep(c) PROVE ControlTypes'
    <2>1. CASE EnqueueEvent(c)
      <3>6. born' = born + 1 /\ born \in Nat
        BY <2>1, Zenon DEF EnqueueEvent
      <3> HIDE DEF ControlTypes
      <3>1. born' \in Nat
        BY <3>6
      <3> USE DEF ControlTypes
      <3> DEFINE after == IF Len(sender'.buffer) >= FlushSize THEN "check" ELSE "idle"
      <3>2. \/ pc' = [pc EXCEPT ![c] = after]
            \/ pc' = [pc EXCEPT ![c] = after, ![Daemon] = "wait"]
        BY <2>1 DEF EnqueueEvent
      <3>5. after \in Labels
        OBVIOUS
      <3> HIDE DEF after
      <3>3. pc' \in [Threads -> Labels]
        BY <3>2, <3>5
      <3>4. UNCHANGED <<send_lock, wake, stopping, final_flush, registered,
                        inherited, budget>>
        BY <2>1 DEF EnqueueEvent
      <3> QED
        BY <3>1, <3>3, <3>4
    <2>2. CASE CheckWake(c)
      BY <2>2 DEF CheckWake
    <2>3. CASE SetWake(c)
      BY <2>3 DEF SetWake
    <2>4. CASE RequestFlush(c)
      BY <2>4, BudgetSpent DEF RequestFlush
    <2> QED
      BY <1>1, <2>1, <2>2, <2>3, <2>4 DEF CallerStep
  <1>2. CASE DaemonStep
    BY <1>2 DEF DaemonStep, DaemonWakes, DaemonClears, DaemonDecides, DaemonLoops
  <1>3. CASE StartUninstrument \/ StartExit \/ ExitUnregistered \/ StartClose
    BY <1>3 DEF StartUninstrument, StartExit, ExitUnregistered, StartClose
  <1>4. ASSUME NEW t \in Stoppers, StopStep(t) PROVE ControlTypes'
    BY <1>4 DEF StopStep, StopFinal, StopFlag, StopWake
  <1>5. ASSUME NEW f \in Flushers, FlushStep(f) PROVE ControlTypes'
    <2>1. CASE Acquire(f) \/ SkipFlush(f) \/ Drain(f) \/ Post(f)
      BY <2>1 DEF Acquire, SkipFlush, Drain, Post
    <2>2. CASE ReplyOk(f)
      BY <2>2 DEF ReplyOk, Continue
    <2>3. CASE ReplyFailed(f)
      BY <2>3, BudgetSpent DEF ReplyFailed, Continue
    <2>4. CASE ReplyLimited(f)
      BY <2>4, BudgetSpent DEF ReplyLimited
    <2>5. CASE RebufferNext(f) \/ Release(f)
      BY <2>5 DEF RebufferNext, Release
    <2> QED
      BY <1>5, <2>1, <2>2, <2>3, <2>4, <2>5 DEF FlushStep
  <1>6. CASE ExitGivesUp \/ ExitOutOfTime \/ CloseDropsBackoff
    BY <1>6 DEF ExitGivesUp, ExitOutOfTime, CloseDropsBackoff
  <1>7. CASE BackoffEnds
    BY <1>7 DEF BackoffEnds
  <1>8. CASE Fork
    BY <1>8, BudgetSpent DEF Fork, StartPc
  <1> QED
    BY <1>1, <1>2, <1>3, <1>4, <1>5, <1>6, <1>7, <1>8 DEF Next

-----------------------------------------------------------------------------
\* Control is preserved.  The three facts about the lock, the back-off and the
\* wake-up lean on each other only through OneSendAtATime.

\* Which threads a step moves, seen from the flushers.
LEMMA StepOneSend ==
    ASSUME ControlTypes, OneSendAtATime, Next
    PROVE  OneSendAtATime'
  <1> USE ThreadFacts DEF ControlTypes, OneSendAtATime, Holding, Move, Goto, Flushers
  <1>1. ASSUME NEW c \in Callers, CallerStep(c) PROVE OneSendAtATime'
    BY <1>1 DEF CallerStep, EnqueueEvent, CheckWake, SetWake, RequestFlush
  <1>2. CASE DaemonStep
    BY <1>2 DEF DaemonStep, DaemonWakes, DaemonClears, DaemonDecides, DaemonLoops
  <1>3. CASE StartUninstrument \/ StartExit \/ ExitUnregistered \/ StartClose
    BY <1>3 DEF StartUninstrument, StartExit, ExitUnregistered, StartClose
  <1>4. ASSUME NEW t \in Stoppers, StopStep(t) PROVE OneSendAtATime'
    BY <1>4 DEF StopStep, StopFinal, StopFlag, StopWake, Stoppers
  <1>5. ASSUME NEW f \in Flushers, FlushStep(f) PROVE OneSendAtATime'
    <2>1. CASE Acquire(f) \/ SkipFlush(f) \/ Drain(f) \/ Post(f)
      BY <2>1 DEF Acquire, SkipFlush, Drain, Post
    <2>2. CASE ReplyOk(f) \/ ReplyFailed(f) \/ ReplyLimited(f)
      BY <2>2 DEF ReplyOk, ReplyFailed, ReplyLimited, Continue
    <2>3. CASE RebufferNext(f) \/ Release(f)
      BY <2>3 DEF RebufferNext, Release
    <2> QED
      BY <1>5, <2>1, <2>2, <2>3 DEF FlushStep
  <1>6. CASE ExitGivesUp \/ ExitOutOfTime \/ CloseDropsBackoff
    BY <1>6 DEF ExitGivesUp, ExitOutOfTime, CloseDropsBackoff
  <1>7. CASE BackoffEnds \/ Fork
    BY <1>7 DEF BackoffEnds, Fork, StartPc
  <1> QED
    BY <1>1, <1>2, <1>3, <1>4, <1>5, <1>6, <1>7 DEF Next

\* No step leaves a thread inside a flush with requests to make during a
\* back-off: a 429 moves its thread out of the sending loop, and no other thread
\* is inside it.
LEMMA StepNoBackoff ==
    ASSUME ControlTypes, OneSendAtATime, NoBackoffInFlush, sender \in Bounded,
           chunk \in Seq(Nat), rest \in Seq(Nat), born \in Nat, Next
    PROVE  NoBackoffInFlush'
  <1> USE ThreadFacts DEF ControlTypes, OneSendAtATime, NoBackoffInFlush, Holding, Move, Goto, Flushers
  <1>1. CASE Quiet
    <2>1. sender' = sender
      BY <1>1, QuietUnchanged
    <2>2. \A f \in Flushers : pc'[f] \in {"post", "reply"} => pc[f] \in {"post", "reply"}
      BY <1>1 DEF Quiet, CheckWake, SetWake, RequestFlush, DaemonStep, DaemonWakes, DaemonClears,
                  DaemonDecides, DaemonLoops, StartUninstrument, StartExit, ExitUnregistered,
                  StartClose, StopStep, StopFinal, StopFlag, StopWake, Acquire, SkipFlush, Post,
                  Release, ExitGivesUp, Stoppers
    <2> QED
      BY <2>1, <2>2
  <1>2. ASSUME NEW c \in Callers, EnqueueEvent(c) PROVE NoBackoffInFlush'
    <2>1. sender'.backing_off = sender.backing_off
      BY <1>2 DEF EnqueueEvent, Enqueue, Rebuffer, Bounded, Sender
    <2>2. \A f \in Flushers : pc'[f] \in {"post", "reply"} => pc[f] \in {"post", "reply"}
      BY <1>2 DEF EnqueueEvent
    <2> QED
      BY <2>1, <2>2
  <1>3. CASE CloseDropsBackoff \/ BackoffEnds
    BY <1>3 DEF CloseDropsBackoff, BackoffEnds, IgnoreBackoff, Bounded, Sender
  <1>4. ASSUME NEW f \in Flushers, Drain(f) PROVE NoBackoffInFlush'
    BY <1>4 DEF Drain, MaySend, Taken, Bounded, Sender
  <1>5. CASE ExitOutOfTime
    BY <1>5 DEF ExitOutOfTime
  <1>6. ASSUME NEW f \in Flushers, ReplyOk(f) \/ ReplyFailed(f) PROVE NoBackoffInFlush'
    <2>1. sender'.backing_off = sender.backing_off
      BY <1>6 DEF ReplyOk, ReplyFailed, HandleOk, HandleFailed, Rebuffer, Bounded, Sender
    <2>2. pc[f] = "reply" /\ \A g \in Flushers \ {f} : pc'[g] = pc[g]
      BY <1>6 DEF ReplyOk, ReplyFailed, Continue
    <2> QED
      BY <2>1, <2>2
  <1>7. ASSUME NEW f \in Flushers, ReplyLimited(f) PROVE NoBackoffInFlush'
    <2>1. pc[f] = "reply" /\ pc'[f] = "rebuffer" /\ \A g \in Flushers \ {f} : pc'[g] = pc[g]
      BY <1>7 DEF ReplyLimited
    <2>2. \A g \in Flushers \ {f} : pc[g] \notin Holding
      BY <2>1
    <2> QED
      BY <2>1, <2>2
  <1>8. ASSUME NEW f \in Flushers, RebufferNext(f) PROVE NoBackoffInFlush'
    <2>3. sender' = sender \/ sender' = Rebuffer(sender, <<Head(rest)>>)
      BY <1>8 DEF RebufferNext
    <2>1. sender'.backing_off = sender.backing_off
      BY <2>3 DEF Rebuffer, Bounded, Sender
    <2>2. \A g \in Flushers : pc'[g] \in {"post", "reply"} => pc[g] \in {"post", "reply"}
      BY <1>8 DEF RebufferNext
    <2> QED
      BY <2>1, <2>2
  <1>9. CASE Fork
    BY <1>9 DEF Fork, StartPc
  <1> QED
    BY <1>1, <1>2, <1>3, <1>4, <1>5, <1>6, <1>7, <1>8, <1>9
    DEF Next, Quiet, CallerStep, FlushStep

\* No step lets the thread sleep with _stopping set and _wake clear, unless
\* the stop() that set it is still to set _wake.
LEMMA StepStopIsSeen ==
    ASSUME ControlTypes, StopIsSeen, Next
    PROVE  StopIsSeen'
  <1> USE ThreadFacts DEF ControlTypes, StopIsSeen, Move, Goto
  <1>1. ASSUME NEW c \in Callers, CallerStep(c) PROVE StopIsSeen'
    BY <1>1 DEF CallerStep, EnqueueEvent, CheckWake, SetWake, RequestFlush, Stoppers
  <1>2. CASE DaemonStep
    BY <1>2 DEF DaemonStep, DaemonWakes, DaemonClears, DaemonDecides, DaemonLoops, Stoppers
  <1>3. CASE StartUninstrument \/ StartExit \/ ExitUnregistered \/ StartClose
    BY <1>3 DEF StartUninstrument, StartExit, ExitUnregistered, StartClose, Stoppers
  <1>4. ASSUME NEW t \in Stoppers, StopStep(t) PROVE StopIsSeen'
    BY <1>4 DEF StopStep, StopFinal, StopFlag, StopWake, Stoppers
  <1>5. ASSUME NEW f \in Flushers, FlushStep(f) PROVE StopIsSeen'
    <2>1. UNCHANGED <<wake, stopping>>
      BY <1>5 DEF FlushStep, Acquire, SkipFlush, Drain, Post, ReplyOk, ReplyFailed,
                  ReplyLimited, RebufferNext, Release
    <2>2. /\ pc'[Daemon] = "wait" => pc[Daemon] = "wait"
          /\ \A t \in Stoppers : pc[t] = "stop wake" => pc'[t] = "stop wake"
      BY <1>5 DEF FlushStep, Acquire, SkipFlush, Drain, Post, ReplyOk, ReplyFailed,
                  ReplyLimited, RebufferNext, Release, Continue, Flushers, Stoppers
    <2> QED
      BY <2>1, <2>2
  <1>6. CASE ExitGivesUp \/ ExitOutOfTime \/ CloseDropsBackoff
    BY <1>6 DEF ExitGivesUp, ExitOutOfTime, CloseDropsBackoff, Stoppers
  <1>7. CASE BackoffEnds \/ Fork
    BY <1>7 DEF BackoffEnds, Fork, StartPc
  <1> QED
    BY <1>1, <1>2, <1>3, <1>4, <1>5, <1>6, <1>7 DEF Next

\* chunk and rest are empty whenever nobody is in the sending part of a flush.
LEMMA StepNothingDrained ==
    ASSUME ControlTypes, OneSendAtATime, NothingDrained, Next
    PROVE  NothingDrained'
  <1> USE ThreadFacts DEF ControlTypes, OneSendAtATime, NothingDrained, Holding, Sending,
                          Move, Goto, Flushers
  <1>1. CASE Quiet
    <2>1. chunk' = chunk /\ rest' = rest
      BY <1>1, QuietUnchanged
    <2>2. \A f \in Flushers : /\ pc[f] \in Sending => pc'[f] \in Sending
                              /\ pc'[f] = "rebuffer" => pc[f] = "rebuffer"
      BY <1>1 DEF Quiet, CheckWake, SetWake, RequestFlush, DaemonStep, DaemonWakes, DaemonClears,
                  DaemonDecides, DaemonLoops, StartUninstrument, StartExit, ExitUnregistered,
                  StartClose, StopStep, StopFinal, StopFlag, StopWake, Acquire, SkipFlush, Post,
                  Release, ExitGivesUp, Stoppers
    <2> QED
      BY <2>1, <2>2
  <1>2. ASSUME NEW c \in Callers, EnqueueEvent(c) PROVE NothingDrained'
    BY <1>2 DEF EnqueueEvent
  <1>3. CASE CloseDropsBackoff \/ BackoffEnds
    BY <1>3 DEF CloseDropsBackoff, BackoffEnds
  <1>4. ASSUME NEW f \in Flushers, Drain(f) PROVE NothingDrained'
    BY <1>4 DEF Drain
  <1>5. CASE ExitOutOfTime
    BY <1>5 DEF ExitOutOfTime
  <1>6. ASSUME NEW f \in Flushers, ReplyOk(f) \/ ReplyFailed(f) PROVE NothingDrained'
    BY <1>6 DEF ReplyOk, ReplyFailed, Continue
  <1>7. ASSUME NEW f \in Flushers, ReplyLimited(f) PROVE NothingDrained'
    BY <1>7 DEF ReplyLimited
  <1>8. ASSUME NEW f \in Flushers, RebufferNext(f) PROVE NothingDrained'
    BY <1>8 DEF RebufferNext
  <1>9. CASE Fork
    BY <1>9 DEF Fork
  <1> QED
    BY <1>1, <1>2, <1>3, <1>4, <1>5, <1>6, <1>7, <1>8, <1>9
    DEF Next, Quiet, CallerStep, FlushStep

-----------------------------------------------------------------------------
\* Initially nothing is buffered, counted or held.
LEMMA InitIInv == Init => IInv
  <1> SUFFICES ASSUME Init PROVE IInv
    OBVIOUS
  <1>1. sender \in Bounded /\ sender.enqueued = 0 /\ Accounted(sender) = 0
    BY NewSenderType DEF Init
  <1>2. chunk = << >> /\ rest = << >> /\ chunk \in Seq(Nat) /\ rest \in Seq(Nat)
        /\ Len(chunk) = 0 /\ Len(rest) = 0
    <2>1. chunk = << >> /\ rest = << >>
      BY DEF Init
    <2> QED
      BY <2>1
  <1>3. pc \in [Threads -> Labels]
    BY DEF Init, StartPc, Labels
  <1>4. budget \in Nat
    BY BoundsAssumption DEF Init
  <1>5. TypeOK
    BY <1>1, <1>2, <1>3, <1>4 DEF Init, TypeOK, Bounded
  <1>6. Balance
    BY <1>1, <1>2, CountersNat DEF Balance, Accounted, Bounded
  <1>7. \A f \in Flushers : pc[f] \in {"off", "idle"}
    BY ThreadFacts DEF Init, StartPc
  <1>8. OneSendAtATime /\ NoBackoffInFlush
    BY <1>7 DEF OneSendAtATime, Holding, NoBackoffInFlush
  <1>9. StopIsSeen
    BY DEF Init, StopIsSeen
  <1>10. NothingDrained
    BY <1>2 DEF NothingDrained
  <1>11. Hand
    <2>1. sender.buffer = << >> /\ born = 0 /\ inherited = 0
      BY DEF Init, NewSender
    <2>2. InHand = << >> /\ Len(InHand) = 0
      BY <1>2, <2>1 DEF InHand
    <2> QED
      BY <1>2, <2>1, <2>2 DEF Hand, Once
  <1> QED
    BY <1>5, <1>6, <1>8, <1>9, <1>10, <1>11 DEF IInv, Control, Data

\* No step of any thread leaves the inductive invariant.
LEMMA NextIInv == IInv /\ [Next]_vars => IInv'
  <1> SUFFICES ASSUME IInv, [Next]_vars PROVE IInv'
    OBVIOUS
  <1>1. CASE Next
    <2>2. ControlTypes /\ sender \in Bounded /\ chunk \in Seq(Nat) /\ rest \in Seq(Nat)
          /\ born \in Nat
      BY SenderBounded DEF IInv, TypeOK, ControlTypes
    <2>3. OneSendAtATime /\ NoBackoffInFlush /\ StopIsSeen /\ NothingDrained
      BY DEF IInv, Control, Data
    <2>4. DataStep
      BY <1>1, StepAccounts
    <2>5. ControlTypes'
      BY <1>1, <2>2, StepControlTypes
    <2>6. TypeOK'
      BY <2>4, <2>5 DEF TypeOK, DataStep, ControlTypes, Bounded
    <2>7. Balance'
      <3>1. sender' \in Sender /\ Len(chunk') \in Nat /\ Len(rest') \in Nat
        BY <2>4 DEF DataStep, Bounded
      <3>2. /\ sender'.sent \in Nat /\ Len(sender'.buffer) \in Nat /\ DroppedTotal(sender') \in Nat
        BY <3>1, CountersNat
      <3> QED
        BY <2>4, <3>1, <3>2 DEF DataStep, Balance, Accounted, Held
    <2>8. OneSendAtATime'
      BY <1>1, <2>2, <2>3, StepOneSend
    <2>9. NoBackoffInFlush'
      BY <1>1, <2>2, <2>3, StepNoBackoff
    <2>10. StopIsSeen'
      BY <1>1, <2>2, <2>3, StepStopIsSeen
    <2>11. NothingDrained'
      BY <1>1, <2>2, <2>3, StepNothingDrained
    <2>12. Hand'
      BY <1>1, StepHand
    <2> QED
      BY <2>6, <2>7, <2>8, <2>9, <2>10, <2>11, <2>12 DEF IInv, Control, Data
  <1>2. CASE UNCHANGED vars
    BY <1>2 DEF vars, senderVars, ghostVars, IInv, TypeOK, Control, Data, OneSendAtATime,
                NoBackoffInFlush, StopIsSeen, Balance, NothingDrained, DroppedTotal,
                Hand, InHand, Own
  <1> QED
    BY <1>1, <1>2

\* The inductive invariant holds: the conjunction of what follows.
THEOREM Inductive == Spec => []IInv
  BY InitIInv, NextIInv, PTL DEF Spec

\* Type correctness: among it that the buffer never outgrows MAX_BUFFER_SIZE
\* and that only the thread, the exit flush or close ever own _send_lock.
THEOREM TypeCorrect == Spec => []TypeOK
  <1>1. IInv => TypeOK
    BY DEF IInv
  <1> QED
    BY <1>1, Inductive, PTL

\* Loss is counted, not silent, for every buffer and batch size, any number of
\* application threads and any number of failures, back-offs, stops and forks.
THEOREM LossIsCounted == Spec => []Balance
  <1>1. IInv => Balance
    BY DEF IInv, Data
  <1> QED
    BY <1>1, Inductive, PTL

\* One send at a time: _send_lock is taken before the drain and kept until the
\* last reply by whichever of the thread, the exit flush and close sends.
THEOREM SendsAreExclusive == Spec => []OneSendAtATime
  <1>1. IInv => OneSendAtATime
    BY DEF IInv, Control
  <1> QED
    BY <1>1, Inductive, PTL

\* A 429 pauses sending: no request goes out during a back-off.
THEOREM BackoffIsRespected == Spec => []PauseAfter429
  <1>1. IInv => PauseAfter429
    BY DEF IInv, Control, NoBackoffInFlush, PauseAfter429
  <1> QED
    BY <1>1, Inductive, PTL

\* A stop() is never slept through.
THEOREM StopReachesThread == Spec => []StopIsSeen
  <1>1. IInv => StopIsSeen
    BY DEF IInv, Control
  <1> QED
    BY <1>1, Inductive, PTL

\* No event is in two places: neither re-buffering after a failure nor a 429 nor
\* an expired exit budget leaves a second copy behind, so none is sent twice from
\* one enqueue unless its first request failed.
THEOREM NoSecondCopy == Spec => []HeldOnce
  <1>1. IInv => HeldOnce
    BY DEF IInv, Hand, Once, HeldOnce
  <1> QED
    BY <1>1, Inductive, PTL

\* A forked child holds and sends nothing of its parent's.
THEOREM ChildIsClean == Spec => []ChildSendsItsOwn
  <1>1. ASSUME IInv PROVE ChildSendsItsOwn
    <2>1. sender.buffer \in Seq(Own) /\ chunk \in Seq(Own) /\ rest \in Seq(Own)
          /\ inherited \in Nat /\ born \in Nat
      BY <1>1 DEF IInv, Hand, TypeOK
    <2>2. InHand \in Seq(Own)
      BY <2>1 DEF InHand
    <2>3. \A i \in 1 .. Len(InHand) : InHand[i] \in Own
      BY <2>2
    <2> QED
      BY <2>1, <2>3 DEF ChildSendsItsOwn, Elements, Own
  <1> QED
    BY <1>1, Inductive, PTL
=============================================================================
