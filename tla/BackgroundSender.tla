-------------------------- MODULE BackgroundSender --------------------------
(***************************************************************************)
(* BackgroundTelemetrySender: application threads enqueue, a daemon thread *)
(* sends, and the exit hook, close_sync and uninstrument stop it.  Every   *)
(* method that holds _lock is one step; _send_lock is the variable         *)
(* send_lock, so whoever posts is a step of its own between taking it and  *)
(* giving it back.                                                         *)
(***************************************************************************)
EXTENDS TelemetryCore, FiniteSets

CONSTANTS
    Callers,     \* application threads
    Stopping,    \* who calls stop(): a subset of Stoppers
    FlushSize,   \* flush_size
    MaxEvents,   \* bound: events ever created
    MaxStops,    \* bound: calls of stop()
    MaxTurns     \* bound: requests answered with anything but 200, explicit
                 \* flush() calls and forks whose child is followed, together

ASSUME BoundsAssumption ==
    /\ MaxEvents \in Nat /\ MaxStops \in Nat /\ MaxTurns \in Nat
    /\ FlushSize \in Nat \ {0}

\* The threads that are not application code in the middle of a call:
\* the background thread, the atexit hook, uninstrument() and close_sync().
Daemon == "daemon"
Exit   == "exit"
Uninst == "uninstrument"
Closer == "close"
NoOne  == "no one"

Flushers == {Daemon, Exit, Closer}
Stoppers == {Uninst, Exit, Closer}
Threads  == Callers \cup Flushers \cup Stoppers

ASSUME StoppingAssumption == Stopping \subseteq Stoppers
ASSUME CallersAssumption == Callers \cap {Daemon, Exit, Uninst, Closer, NoOne} = {}

VARIABLES
    sender,      \* buffer and counters, see TelemetryCore
    pc,          \* where each thread stands
    send_lock,   \* holder of _send_lock
    chunk,       \* the chunk being posted
    rest,        \* drained events of the later chunks
    wake,        \* _wake
    stopping,    \* _stopping
    final_flush, \* _final_flush
    registered,  \* in _exit_senders
    \* What the properties look at; the code has none of these.
    born,        \* events created so far: the next one is born + 1
    inherited,   \* events up to this one are the parent process's
    budget       \* what is left of MaxTurns

senderVars == <<sender, pc, send_lock, chunk, rest, wake, stopping, final_flush, registered>>
ghostVars  == <<born, inherited, budget>>
vars       == <<senderVars, ghostVars>>

Labels == {"off", "idle", "check", "set",            \* callers
           "wait", "clear", "decide", "ended",       \* the thread's loop
           "stop final", "stop flag", "stop wake",   \* stop()
           "acquire", "acquired", "post", "reply", "rebuffer", "release", "done"}

\* Inside `with self._send_lock`.
Holding == {"acquired", "post", "reply", "rebuffer", "release"}

Elements(q) == {q[i] : i \in 1 .. Len(q)}
InHand == sender.buffer \o chunk \o rest

\* Types; the buffer never exceeds MAX_BUFFER_SIZE.
TypeOK ==
    /\ sender \in Sender
    /\ Len(sender.buffer) <= Capacity
    /\ pc \in [Threads -> Labels]
    /\ send_lock \in Flushers \cup {NoOne}
    /\ chunk \in Seq(Nat) /\ rest \in Seq(Nat)
    /\ wake \in BOOLEAN /\ stopping \in BOOLEAN
    /\ final_flush \in BOOLEAN /\ registered \in BOOLEAN
    /\ born \in Nat /\ inherited \in Nat /\ budget \in Nat

StartPc == [t \in Threads |-> IF t = Daemon THEN "off" ELSE "idle"]

Init ==
    /\ sender = NewSender
    /\ pc = StartPc
    /\ send_lock = NoOne
    /\ chunk = << >> /\ rest = << >>
    /\ wake = FALSE /\ stopping = FALSE /\ final_flush = FALSE
    /\ registered = TRUE
    /\ born = 0 /\ inherited = 0
    /\ budget = MaxTurns

\* The exit hook is the last thing the process runs: no thread moves after it.
Running == pc[Exit] # "done"

Goto(t, label) == Running /\ pc' = [pc EXCEPT ![t] = label]
Move(t, from, to) == pc[t] = from /\ Goto(t, to)

-----------------------------------------------------------------------------
\* Application threads: no I/O.

Spend == budget > 0 /\ budget' = budget - 1

\* enqueue, under _lock: append and start the thread on the first event.
\* thread.start() fails when the interpreter is shutting down.
EnqueueEvent(c) ==
    /\ pc[c] = "idle"
    /\ born < MaxEvents
    /\ born' = born + 1
    /\ sender' = Enqueue(sender, born + 1)
    /\ LET after == IF Len(sender'.buffer) >= FlushSize THEN "check" ELSE "idle"
           starts == pc[Daemon] = "off" /\ ~stopping
       IN  \/ /\ Running /\ starts
              /\ pc' = [pc EXCEPT ![c] = after, ![Daemon] = "wait"]
           \/ /\ ~starts \/ pc[Exit] # "idle"
              /\ Goto(c, after)
    /\ UNCHANGED <<send_lock, chunk, rest, wake, stopping, final_flush, registered,
                   inherited, budget>>

\* enqueue, after the lock: whether a full buffer may wake the thread...
CheckWake(c) ==
    /\ pc[c] = "check"
    /\ Goto(c, IF sender.backlog_reason = "none" /\ ~sender.backing_off THEN "set" ELSE "idle")
    /\ UNCHANGED <<sender, send_lock, chunk, rest, wake, stopping, final_flush,
                   registered, ghostVars>>

\* ...and the wake-up itself, on what was read then.
SetWake(c) ==
    /\ Move(c, "set", "idle")
    /\ wake' = TRUE
    /\ UNCHANGED <<sender, send_lock, chunk, rest, stopping, final_flush,
                   registered, ghostVars>>

\* flush(): asks the thread to flush now.
RequestFlush(c) ==
    /\ Running /\ pc[c] = "idle"
    /\ Spend
    /\ wake' = TRUE
    /\ UNCHANGED <<sender, pc, send_lock, chunk, rest, stopping, final_flush,
                   registered, born, inherited>>

-----------------------------------------------------------------------------
\* _run, up to and after the flush_sync it calls.

\* _wake.wait(flush_interval) returns, set or timed out.
DaemonWakes ==
    /\ Move(Daemon, "wait", "clear")
    /\ UNCHANGED <<sender, send_lock, chunk, rest, wake, stopping, final_flush,
                   registered, ghostVars>>

DaemonClears ==
    /\ Move(Daemon, "clear", "decide")
    /\ wake' = FALSE
    /\ UNCHANGED <<sender, send_lock, chunk, rest, stopping, final_flush,
                   registered, ghostVars>>

DaemonDecides ==
    /\ pc[Daemon] = "decide"
    /\ Goto(Daemon, IF stopping /\ ~final_flush THEN "done" ELSE "acquire")
    /\ UNCHANGED <<sender, send_lock, chunk, rest, wake, stopping, final_flush,
                   registered, ghostVars>>

DaemonLoops ==
    /\ pc[Daemon] = "ended"
    /\ Goto(Daemon, IF stopping THEN "done" ELSE "wait")
    /\ UNCHANGED <<sender, send_lock, chunk, rest, wake, stopping, final_flush,
                   registered, ghostVars>>

-----------------------------------------------------------------------------
\* stop(), called by uninstrument(), flush_at_exit and close_sync: three
\* assignments without a lock.

StopsLeft == Cardinality({t \in Stoppers : pc[t] # "idle"}) < MaxStops

\* uninstrument() unregisters the exit flush first.
StartUninstrument ==
    /\ Uninst \in Stopping /\ StopsLeft
    /\ Move(Uninst, "idle", "stop final")
    /\ registered
    /\ registered' = FALSE
    /\ UNCHANGED <<sender, send_lock, chunk, rest, wake, stopping, final_flush, ghostVars>>

StartExit ==
    /\ Exit \in Stopping /\ StopsLeft
    /\ Move(Exit, "idle", "stop final")
    /\ registered
    /\ UNCHANGED <<sender, send_lock, chunk, rest, wake, stopping, final_flush,
                   registered, ghostVars>>

\* The process ends without an exit flush once nothing is registered.
ExitUnregistered ==
    /\ Move(Exit, "idle", "done")
    /\ ~registered
    /\ UNCHANGED <<sender, send_lock, chunk, rest, wake, stopping, final_flush,
                   registered, ghostVars>>

StartClose ==
    /\ Closer \in Stopping /\ StopsLeft
    /\ Move(Closer, "idle", "stop final")
    /\ UNCHANGED <<sender, send_lock, chunk, rest, wake, stopping, final_flush,
                   registered, ghostVars>>

StopFinal(t) ==
    /\ Move(t, "stop final", "stop flag")
    /\ final_flush' = (t = Uninst)
    /\ UNCHANGED <<sender, send_lock, chunk, rest, wake, stopping, registered, ghostVars>>

StopFlag(t) ==
    /\ Move(t, "stop flag", "stop wake")
    /\ stopping' = TRUE
    /\ UNCHANGED <<sender, send_lock, chunk, rest, wake, final_flush, registered, ghostVars>>

\* Mutant: the thread is not woken.
MutStopForgetsWake(t) ==
    /\ Move(t, "stop wake", IF t = Uninst THEN "done" ELSE "acquire")
    /\ UNCHANGED <<sender, send_lock, chunk, rest, wake, stopping, final_flush, registered, ghostVars>>

StopWake(t) ==
    /\ Move(t, "stop wake", IF t = Uninst THEN "done" ELSE "acquire")
    /\ wake' = TRUE
    /\ UNCHANGED <<sender, send_lock, chunk, rest, stopping, final_flush, registered, ghostVars>>

-----------------------------------------------------------------------------
\* The three users of _send_lock: flush_sync of the thread, flush_at_exit
\* and close_sync.  _send_lock is not reentrant.

\* Mutant: the lock is taken whoever holds it.
MutAcquireBlind(f) ==
    /\ Move(f, "acquire", "acquired")
    /\ send_lock' = f
    /\ UNCHANGED <<sender, chunk, rest, wake, stopping, final_flush, registered, ghostVars>>

Acquire(f) ==
    /\ Move(f, "acquire", "acquired")
    /\ send_lock = NoOne
    /\ send_lock' = f
    /\ UNCHANGED <<sender, chunk, rest, wake, stopping, final_flush, registered, ghostVars>>

\* flush_at_exit does not get the lock in time: the hook gives up.
ExitGivesUp ==
    /\ Move(Exit, "acquire", "done")
    /\ UNCHANGED <<sender, send_lock, chunk, rest, wake, stopping, final_flush,
                   registered, ghostVars>>

\* close_sync, holding the lock, calls the base class: it drops the back-off
\* and calls flush_sync, the overridden one, which takes the lock again.  Nothing
\* after that call is reached: the thread waits for itself.
CloseDropsBackoff ==
    /\ Move(Closer, "acquired", "acquire")
    /\ sender' = IgnoreBackoff(sender)
    /\ UNCHANGED <<send_lock, chunk, rest, wake, stopping, final_flush, registered, ghostVars>>

\* The base class's flush: nothing to send, or the buffer is drained.
SkipFlush(f) ==
    /\ f # Closer
    /\ Move(f, "acquired", "release")
    /\ \/ ~MaySend(sender)
       \/ f = Exit          \* no time remaining, or closed
    /\ UNCHANGED <<sender, send_lock, chunk, rest, wake, stopping, final_flush,
                   registered, ghostVars>>

NextChunk(events) ==
    \E n \in ChunkSizes(events) :
        /\ chunk' = FirstOf(events, n)
        /\ rest' = AfterFirst(events, n)

Drain(f) ==
    /\ f # Closer
    /\ Move(f, "acquired", "post")
    /\ MaySend(sender)
    /\ f = Exit => ~sender.closed
    /\ NextChunk(sender.buffer)
    /\ sender' = Taken(sender)
    /\ UNCHANGED <<send_lock, wake, stopping, final_flush, registered, ghostVars>>

\* The request is built and sent.  instrument() builds this sender with
\* report_loss off: _payload adds no metadata and leaves the sender alone.
Post(f) ==
    /\ Move(f, "post", "reply")
    /\ UNCHANGED <<sender, send_lock, chunk, rest, wake, stopping, final_flush,
                   registered, ghostVars>>

\* The exit flush's deadline passes between two requests.
ExitOutOfTime ==
    /\ Move(Exit, "post", "rebuffer")
    /\ rest' = chunk \o rest
    /\ chunk' = << >>
    /\ UNCHANGED <<sender, send_lock, wake, stopping, final_flush, registered, ghostVars>>

\* On to the next chunk, or out of the loop.
Continue(f) ==
    IF rest = << >>
    THEN Goto(f, "release") /\ chunk' = << >> /\ rest' = << >>
    ELSE Goto(f, "post") /\ NextChunk(rest)

ReplyOk(f) ==
    /\ pc[f] = "reply"
    /\ \E skipped \in 0 .. Len(chunk) :
          sender' = HandleOk(sender, chunk, skipped)
    /\ Continue(f)
    /\ UNCHANGED <<send_lock, wake, stopping, final_flush, registered, ghostVars>>

ReplyFailed(f) ==
    /\ pc[f] = "reply"
    /\ Spend
    /\ sender' = HandleFailed(sender, chunk)
    /\ Continue(f)
    /\ UNCHANGED <<send_lock, wake, stopping, final_flush, registered,
                   born, inherited>>

\* Mutant: the next chunk is sent in spite of a 429.
MutReplyLimitedContinues(f) ==
    /\ pc[f] = "reply"
    /\ Spend
    /\ \E wait \in BOOLEAN : sender' = HandleLimited(sender, chunk, wait)
    /\ Continue(f)
    /\ UNCHANGED <<send_lock, wake, stopping, final_flush, registered,
                   born, inherited>>

\* A 429 ends the flush: this chunk is re-buffered under _lock...
ReplyLimited(f) ==
    /\ Move(f, "reply", "rebuffer")
    /\ Spend
    /\ \E wait \in BOOLEAN : sender' = HandleLimited(sender, chunk, wait)
    /\ chunk' = << >>
    /\ UNCHANGED <<send_lock, rest, wake, stopping, final_flush, registered,
                   born, inherited>>

\* ...and the later chunks event by event, _lock taken for each.
RebufferNext(f) ==
    /\ Running /\ pc[f] = "rebuffer"
    /\ IF rest = << >>
       THEN Goto(f, "release") /\ UNCHANGED <<sender, rest>>
       ELSE /\ sender' = Rebuffer(sender, <<Head(rest)>>)
            /\ rest' = Tail(rest)
            /\ UNCHANGED pc
    /\ UNCHANGED <<send_lock, chunk, wake, stopping, final_flush, registered, ghostVars>>

Release(f) ==
    /\ Move(f, "release", IF f = Daemon THEN "ended" ELSE "done")
    /\ send_lock' = NoOne
    /\ UNCHANGED <<sender, chunk, rest, wake, stopping, final_flush, registered, ghostVars>>

-----------------------------------------------------------------------------
\* time.monotonic() reaches _retry_at.
BackoffEnds ==
    /\ Running /\ sender.backing_off
    /\ sender' = IgnoreBackoff(sender)
    /\ UNCHANGED <<pc, send_lock, chunk, rest, wake, stopping, final_flush,
                   registered, ghostVars>>

\* os.fork by an application thread: from here on the child, where only that
\* thread exists and _reset_after_fork has run.
Fork ==
    /\ Spend
    /\ Running /\ \E c \in Callers : pc[c] = "idle"
    /\ sender' = ResetAfterFork(sender)
    /\ pc' = StartPc
    /\ send_lock' = NoOne
    /\ chunk' = << >> /\ rest' = << >>
    /\ wake' = FALSE /\ stopping' = FALSE /\ final_flush' = FALSE
    /\ inherited' = born
    /\ UNCHANGED <<registered, born>>

\* flush_sync as a whole, for one user of the lock.
FlushStep(f) ==
    \/ Acquire(f) \/ SkipFlush(f) \/ Drain(f) \/ Post(f) \/ ReplyOk(f)
    \/ ReplyFailed(f) \/ ReplyLimited(f) \/ RebufferNext(f) \/ Release(f)

CallerStep(c) == EnqueueEvent(c) \/ CheckWake(c) \/ SetWake(c) \/ RequestFlush(c)
DaemonStep == DaemonWakes \/ DaemonClears \/ DaemonDecides \/ DaemonLoops
StopStep(t) == StopFinal(t) \/ StopFlag(t) \/ StopWake(t)

Next ==
    \/ \E c \in Callers : CallerStep(c)
    \/ DaemonStep
    \/ StartUninstrument \/ StartExit \/ ExitUnregistered \/ StartClose
    \/ \E t \in Stoppers : StopStep(t)
    \/ \E f \in Flushers : FlushStep(f)
    \/ ExitGivesUp \/ ExitOutOfTime \/ CloseDropsBackoff
    \/ BackoffEnds
    \/ Fork

Spec == Init /\ [][Next]_vars

\* Threads are scheduled, waits have a timeout (flush_interval, the client's
\* 5 seconds, Retry-After capped at MAX_RETRY_AFTER_SECONDS), so each of these
\* steps happens once it can.  Failures are bounded: the collector recovers.
Fairness ==
    /\ WF_vars(DaemonStep)
    /\ \A f \in Flushers : WF_vars(FlushStep(f))
    /\ WF_vars(CloseDropsBackoff)
    /\ \A t \in Stoppers : WF_vars(StopStep(t))
    /\ WF_vars(BackoffEnds)

FairSpec == Spec /\ Fairness

-----------------------------------------------------------------------------
\* Properties.

\* Loss is counted, not silent (TelemetrySender's docstring): every event this
\* process enqueued is sent, dropped under a reason, buffered or in flight,
\* whatever the threads, failures, back-offs, exits and forks did.
Balance ==
    sender.enqueued = sender.sent + DroppedTotal(sender)
                      + Len(sender.buffer) + Len(chunk) + Len(rest)

\* One send at a time: whoever is inside a flush holds _send_lock, so that the
\* thread and the exit flush never have requests of this sender in flight together.
OneSendAtATime ==
    \A f \in Flushers : pc[f] \in Holding => send_lock = f

\* An event is in one place only: re-buffering after a failure, a 429 or an
\* expired exit budget never leaves a second copy behind.
HeldOnce ==
    \A i, j \in 1 .. Len(InHand) : InHand[i] = InHand[j] => i = j

\* A 429 pauses sending for the Retry-After interval: no request is about to go
\* out during a back-off, whichever thread met the 429.
PauseAfter429 ==
    \A f \in Flushers : pc[f] = "post" => ~sender.backing_off

\* stop() is never slept through: with stop() done, the thread is not going to
\* wait out a flush interval before it sees _stopping.
StopIsSeen ==
    (stopping /\ pc[Daemon] = "wait" /\ \A t \in Stoppers : pc[t] # "stop wake") => wake

\* A forked child neither holds nor sends an event of its parent
\* (_reset_after_fork's docstring: the parent sends them).
ChildSendsItsOwn == \A e \in Elements(InHand) : e > inherited

\* close_sync returns: its callers get past the final flush.
CloseReturns ==
    pc[Closer] = "stop final" ~> (pc[Closer] = "done" \/ pc[Exit] = "done")
=============================================================================
