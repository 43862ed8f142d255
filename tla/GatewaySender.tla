--------------------------- MODULE GatewaySender ---------------------------
(***************************************************************************)
(* PSTelemetrySender, the gateway's telemetry sender: events that are sent *)
(* at once, retried, or parked in the back-off queue of a 429, the drain   *)
(* loop that empties the queue, and shutdown.  The event loop runs one     *)
(* continuation at a time, so a step is what runs between two awaits.      *)
(*                                                                         *)
(* Events are numbered in the order of send().  resumeAt is kept as the    *)
(* ticks that are left until it; telemetry is on (there is an API key).    *)
(***************************************************************************)
EXTENDS Integers, Sequences, FiniteSets

CONSTANTS
    MaxPending,        \* maxPending
    MaxAttempts,       \* maxAttempts
    DRAIN_CONCURRENCY,
    SafeUrl,           \* isSafeUpstreamURL(url)
    Unserializable,    \* events JSON.stringify throws on
    MaxRetryAfter,     \* MAX_RETRY_AFTER_MS, in ticks
    MaxEvents,         \* bound: calls of send()
    MaxFailures        \* bound: answers that are not a 2xx

ASSUME GatewaySenderAssumption ==
    /\ MaxPending \in Nat \ {0} /\ MaxAttempts \in Nat \ {0}
    /\ DRAIN_CONCURRENCY \in Nat \ {0} /\ SafeUrl \in BOOLEAN
    /\ Unserializable \subseteq Nat /\ MaxRetryAfter \in Nat
    /\ MaxEvents \in Nat /\ MaxFailures \in Nat

DROP_REASONS == {"buffer_overflow", "send_failed", "rate_limited", "server_skipped",
                 "shutdown", "serialization_failed"}

Events == 1 .. MaxEvents

VARIABLES
    enqueued, sent, dropped, backlogReason,
    item,      \* per event: where its process() stands
    queue,     \* the back-off queue
    paused,
    resumeAt,  \* ticks until sends resume
    pauses,
    loop,      \* the drain loop: off, asleep in waitForResume or running workers
    closed,
    shutting,  \* shutdown(): not called, waiting, done
    failures   \* what is left of MaxFailures

countVars == <<enqueued, sent, dropped, backlogReason>>
pauseVars == <<paused, resumeAt, pauses>>
vars == <<countVars, item, queue, pauseVars, loop, closed, shutting, failures>>

\* fetching: in attempt(); answered: attempt() has returned its outcome;
\* sleeping: between two attempts; settled: sent or dropped; abandoned: settled
\* by shutdown() while its fetch goes on.
Phases == {"none", "queued", "fetching", "answered", "sleeping", "abandoned", "settled"}
Outcomes == {"none", "ok", "skipped", "send_failed", "rate_limited", "serialization_failed", "unsafe"}
NoItem == [phase |-> "none", attempts |-> 0, outcome |-> "none", drained |-> FALSE]
NoLoop == [at |-> "off", seen |-> 0, nap |-> 0, turns |-> 0]

Live == {e \in Events : item[e].phase \notin {"none", "abandoned", "settled"}}
Drained == {e \in Events : /\ item[e].drained
                           /\ item[e].phase \in {"fetching", "answered", "sleeping", "abandoned"}}

\* Where the sender can stand; among it that pending() never exceeds maxPending and
\* that the queue holds exactly the events whose process() has parked them.
TypeOK ==
    /\ enqueued \in 0 .. MaxEvents /\ sent \in Nat
    /\ dropped \in [DROP_REASONS -> Nat]
    /\ backlogReason \in {"none", "send_failed", "rate_limited"}
    /\ item \in [Events -> [phase : Phases, attempts : 0 .. MaxAttempts,
                            outcome : Outcomes, drained : BOOLEAN]]
    /\ Cardinality(Live) <= MaxPending
    /\ queue \in Seq(Events) /\ {queue[i] : i \in 1 .. Len(queue)} = {e \in Events : item[e].phase = "queued"}
    /\ paused \in BOOLEAN /\ resumeAt \in 0 .. MaxRetryAfter /\ pauses \in 0 .. MaxFailures
    /\ loop \in [at : {"off", "wait", "run"}, seen : Nat, nap : 0 .. MaxRetryAfter, turns : Nat]
    /\ closed \in BOOLEAN /\ shutting \in {"no", "waiting", "done"}
    /\ failures \in 0 .. MaxFailures

Init ==
    /\ enqueued = 0 /\ sent = 0 /\ dropped = [r \in DROP_REASONS |-> 0]
    /\ backlogReason = "none"
    /\ item = [e \in Events |-> NoItem]
    /\ queue = << >>
    /\ paused = FALSE /\ resumeAt = 0 /\ pauses = 0
    /\ loop = NoLoop
    /\ closed = FALSE /\ shutting = "no"
    /\ failures = MaxFailures

-----------------------------------------------------------------------------
\* Helpers of the actions.

Drop(reason, n) == dropped' = [dropped EXCEPT ![reason] = @ + n]

Settle(e) == item' = [item EXCEPT ![e].phase = "settled"]

\* attempt() up to its fetch: an unsafe URL and an event that does not serialise
\* are final at once.
Begun(i, e, drained) ==
    [i EXCEPT !.drained = drained,
              !.phase = IF SafeUrl /\ e \notin Unserializable THEN "fetching" ELSE "answered",
              !.outcome = IF ~SafeUrl THEN "unsafe"
                          ELSE IF e \in Unserializable THEN "serialization_failed" ELSE "none"]

\* waitForResume: the loop sleeps until the deadline it sees now.
Asleep == [NoLoop EXCEPT !.at = "wait", !.seen = pauses, !.nap = resumeAt]

\* Mutant: a retry goes to the end of the queue.
MutInsertedAtEnd(e) == queue' = Append(queue, e)

\* requeue: into the queue, past the events from its end that came later ...
Inserted(e) ==
    \E i \in 0 .. Len(queue) :
        /\ i > 0 => queue[i] <= e
        /\ \A j \in i + 1 .. Len(queue) : queue[j] > e
        /\ queue' = SubSeq(queue, 1, i) \o <<e>> \o SubSeq(queue, i + 1, Len(queue))

\* ... and start the loop unless it runs.  The callers have seen paused, so that
\* a new loop goes to sleep at once; a loop that runs is left as its caller has it.
Requeue(e, running) ==
    /\ Inserted(e)
    /\ loop' = IF loop.at = "off" THEN Asleep ELSE running

\* A drain worker whose process() returns takes its next turn.
Returned(e) == [loop EXCEPT !.turns = IF item[e].drained THEN @ + 1 ELSE @]

-----------------------------------------------------------------------------
\* send

Send ==
    /\ enqueued < MaxEvents /\ enqueued' = enqueued + 1
    /\ \/ /\ closed
          /\ Drop("shutdown", 1)
          /\ UNCHANGED <<item, queue, loop>>
       \/ /\ ~closed /\ Cardinality(Live) >= MaxPending
          /\ Drop(IF backlogReason = "none" THEN "buffer_overflow" ELSE backlogReason, 1)
          /\ UNCHANGED <<item, queue, loop>>
       \/ /\ ~closed /\ Cardinality(Live) < MaxPending /\ paused
          /\ item' = [item EXCEPT ![enqueued'].phase = "queued"]
          /\ Requeue(enqueued', loop)
          /\ UNCHANGED dropped
       \/ /\ ~closed /\ Cardinality(Live) < MaxPending /\ ~paused
          /\ item' = [item EXCEPT ![enqueued'] = Begun(@, enqueued', FALSE)]
          /\ UNCHANGED <<dropped, queue, loop>>
    /\ UNCHANGED <<sent, backlogReason, pauseVars, closed, shutting, failures>>

-----------------------------------------------------------------------------
\* attempt(): the answer of the collector, and the pause a 429 begins.

\* To an event that shutdown() has settled the answer makes no difference, but
\* its 429 still pauses, and the worker that awaited it returns.
Answered(e, outcome) ==
    IF item[e].phase = "abandoned"
    THEN Settle(e) /\ loop' = Returned(e)
    ELSE /\ item' = [item EXCEPT ![e].phase = "answered", ![e].outcome = outcome]
         /\ UNCHANGED loop

Fetching(e) == item[e].phase \in {"fetching", "abandoned"}

AnswerOk(e) ==
    /\ Fetching(e)
    /\ \E outcome \in {"ok", "skipped"} : Answered(e, outcome)
    /\ UNCHANGED <<countVars, queue, pauseVars, closed, shutting, failures>>

AnswerFailed(e) ==
    /\ Fetching(e) /\ failures > 0 /\ failures' = failures - 1
    /\ Answered(e, "send_failed")
    /\ backlogReason' = "send_failed"
    /\ UNCHANGED <<enqueued, sent, dropped, queue, pauseVars, closed, shutting>>

\* The latest 429 wins.
Pause ==
    /\ paused' = TRUE /\ pauses' = pauses + 1
    /\ resumeAt' \in 0 .. MaxRetryAfter

AnswerLimited(e) ==
    /\ Fetching(e) /\ failures > 0 /\ failures' = failures - 1
    /\ Answered(e, "rate_limited")
    /\ backlogReason' = "rate_limited"
    /\ Pause
    /\ UNCHANGED <<enqueued, sent, dropped, queue, closed, shutting>>

-----------------------------------------------------------------------------
\* process(): what follows an attempt.

ProcessOk(e) ==
    /\ item[e].phase = "answered" /\ item[e].outcome \in {"ok", "skipped"}
    /\ backlogReason' = "none"
    /\ IF item[e].outcome = "ok"
       THEN sent' = sent + 1 /\ UNCHANGED dropped
       ELSE Drop("server_skipped", 1) /\ UNCHANGED sent
    /\ Settle(e)
    /\ loop' = Returned(e)
    /\ UNCHANGED <<enqueued, queue, pauseVars, closed, shutting, failures>>

Tried(e) == item[e].attempts + 1
Final(e) == item[e].outcome \in {"serialization_failed", "unsafe"}

\* Mutant: what is given up is not counted.
MutGiveUpUncounted(e) ==
    /\ item[e].phase = "answered" /\ item[e].outcome \notin {"ok", "skipped"}
    /\ Final(e) \/ Tried(e) >= MaxAttempts
    /\ UNCHANGED dropped
    /\ item' = [item EXCEPT ![e].phase = "settled", ![e].attempts = Tried(e)]
    /\ loop' = Returned(e)
    /\ UNCHANGED <<enqueued, sent, backlogReason, queue, pauseVars, closed, shutting, failures>>

\* The last attempt, or one that no retry can help.
GiveUp(e) ==
    /\ item[e].phase = "answered" /\ item[e].outcome \notin {"ok", "skipped"}
    /\ Final(e) \/ Tried(e) >= MaxAttempts
    /\ Drop(IF item[e].outcome = "unsafe" THEN "send_failed" ELSE item[e].outcome, 1)
    /\ item' = [item EXCEPT ![e].phase = "settled", ![e].attempts = Tried(e)]
    /\ loop' = Returned(e)
    /\ UNCHANGED <<enqueued, sent, backlogReason, queue, pauseVars, closed, shutting, failures>>

Retry(e) ==
    /\ item[e].phase = "answered" /\ item[e].outcome \in {"send_failed", "rate_limited"}
    /\ Tried(e) < MaxAttempts
    /\ \/ /\ paused
          /\ item' = [item EXCEPT ![e].phase = "queued", ![e].attempts = Tried(e)]
          /\ Requeue(e, Returned(e))
       \/ /\ ~paused
          /\ item' = [item EXCEPT ![e].phase = "sleeping", ![e].attempts = Tried(e)]
          /\ UNCHANGED <<queue, loop>>
    /\ UNCHANGED <<countVars, pauseVars, closed, shutting, failures>>

\* The retry's sleep is over.
Wakes(e) ==
    /\ item[e].phase = "sleeping"
    /\ \/ /\ paused
          /\ item' = [item EXCEPT ![e].phase = "queued"]
          /\ Requeue(e, Returned(e))
       \/ /\ ~paused
          /\ item' = [item EXCEPT ![e] = Begun(@, e, @.drained)]
          /\ UNCHANGED <<queue, loop>>
    /\ UNCHANGED <<countVars, pauseVars, closed, shutting, failures>>

-----------------------------------------------------------------------------
\* drain(): from the top of its loop, with nobody paused, the first workers.

First(n) == {queue[i] : i \in 1 .. n}

\* Mutant: as many workers as queued events.
MutWorkersForAll ==
    /\ item' = [e \in Events |-> IF e \in First(Len(queue)) THEN Begun(item[e], e, TRUE) ELSE item[e]]
    /\ queue' = << >>
    /\ loop' = IF queue = << >> THEN NoLoop ELSE [NoLoop EXCEPT !.at = "run"]

Workers ==
    LET n == IF Len(queue) < DRAIN_CONCURRENCY THEN Len(queue) ELSE DRAIN_CONCURRENCY
    IN  /\ item' = [e \in Events |-> IF e \in First(n) THEN Begun(item[e], e, TRUE) ELSE item[e]]
        /\ queue' = SubSeq(queue, n + 1, Len(queue))
        /\ loop' = IF n = 0 THEN NoLoop ELSE [NoLoop EXCEPT !.at = "run"]

\* Mutant: a deadline set during the sleep is not waited for.
MutResumeForgetsNewPause ==
    /\ loop.at = "wait" /\ loop.nap = 0
    /\ paused' = FALSE
    /\ Workers
    /\ UNCHANGED <<countVars, resumeAt, pauses, closed, shutting, failures>>

\* waitForResume ends; a 429 since it began has set another deadline.
Resume ==
    /\ loop.at = "wait" /\ loop.nap = 0
    /\ paused' = (paused /\ pauses # loop.seen)
    /\ IF paused' THEN loop' = Asleep /\ UNCHANGED <<item, queue>> ELSE Workers
    /\ UNCHANGED <<countVars, resumeAt, pauses, closed, shutting, failures>>

\* drainWorker's loop: the next event, or the end of the worker.
WorkerTurn ==
    /\ loop.at = "run" /\ loop.turns > 0
    /\ loop' = [loop EXCEPT !.turns = @ - 1]
    /\ IF queue # << >> /\ ~paused
       THEN /\ item' = [item EXCEPT ![Head(queue)] = Begun(@, Head(queue), TRUE)]
            /\ queue' = Tail(queue)
       ELSE UNCHANGED <<item, queue>>
    /\ UNCHANGED <<countVars, pauseVars, closed, shutting, failures>>

\* Mutant: one round of workers, whatever is queued by then.
MutNextRoundStops ==
    /\ loop.at = "run" /\ loop.turns = 0 /\ Drained = {}
    /\ loop' = NoLoop /\ UNCHANGED <<item, queue>>
    /\ UNCHANGED <<countVars, pauseVars, closed, shutting, failures>>

\* All workers are done: the loop's top again.
NextRound ==
    /\ loop.at = "run" /\ loop.turns = 0 /\ Drained = {}
    /\ IF queue # << >> /\ paused THEN loop' = Asleep /\ UNCHANGED <<item, queue>>
       ELSE Workers
    /\ UNCHANGED <<countVars, pauseVars, closed, shutting, failures>>

-----------------------------------------------------------------------------
\* shutdown

Shutdown ==
    /\ shutting = "no"
    /\ closed' = TRUE
    /\ paused' = FALSE
    /\ resumeAt' = IF paused THEN 0 ELSE resumeAt
    /\ loop' = IF paused /\ loop.at = "wait" THEN [loop EXCEPT !.nap = 0] ELSE loop
    /\ shutting' = IF Live = {} THEN "done" ELSE "waiting"
    /\ UNCHANGED <<countVars, item, queue, pauses, failures>>

\* Nothing is pending any more, or the timeout has passed.  The worker of an
\* event that is settled here returns, at the latest once its fetch is over.
ShutdownEnds ==
    /\ shutting = "waiting"
    /\ shutting' = "done"
    /\ queue' = << >>
    /\ Drop("shutdown", Cardinality(Live))
    /\ item' = [e \in Events |->
                   IF e \notin Live THEN item[e]
                   ELSE [item[e] EXCEPT !.phase = IF @ = "fetching" THEN "abandoned" ELSE "settled"]]
    /\ loop' = [loop EXCEPT !.turns = @ + Cardinality({e \in Drained : item[e].phase # "fetching"})]
    /\ UNCHANGED <<enqueued, sent, backlogReason, pauseVars, closed, failures>>

-----------------------------------------------------------------------------
\* A timer does not fire while a continuation is due.
Tick ==
    /\ resumeAt > 0 \/ loop.nap > 0
    /\ \A e \in Events : item[e].phase # "answered"
    /\ resumeAt' = IF resumeAt > 0 THEN resumeAt - 1 ELSE 0
    /\ loop' = [loop EXCEPT !.nap = IF @ > 0 THEN @ - 1 ELSE 0]
    /\ UNCHANGED <<countVars, item, queue, paused, pauses, closed, shutting, failures>>

ProcessStep(e) == ProcessOk(e) \/ GiveUp(e) \/ Retry(e) \/ Wakes(e)
AnswerStep(e) == AnswerOk(e) \/ AnswerFailed(e) \/ AnswerLimited(e)
DrainStep == Resume \/ WorkerTurn \/ NextRound

Next ==
    \/ Send \/ Shutdown \/ ShutdownEnds \/ Tick \/ DrainStep
    \/ \E e \in Events : AnswerStep(e) \/ ProcessStep(e)

Spec == Init /\ [][Next]_vars

\* Every fetch ends, timers fire and continuations run; the collector recovers.
\* Nobody has to call shutdown.
FairSpec ==
    /\ Spec
    /\ \A e \in Events : WF_vars(AnswerStep(e)) /\ WF_vars(ProcessStep(e))
    /\ WF_vars(DrainStep) /\ WF_vars(Tick)

-----------------------------------------------------------------------------
\* Properties.

\* The sum over `dropped` of stats().
DroppedTotal ==
    dropped["buffer_overflow"] + dropped["send_failed"] + dropped["rate_limited"] +
    dropped["server_skipped"] + dropped["shutdown"] + dropped["serialization_failed"]

\* Every event handed to send() is sent, counted under one reason, or pending.
\* Late answers to events that shutdown has counted change nothing.
Balance ==
    enqueued = sent + DroppedTotal + Cardinality(Live)

\* "Until then nothing is sent": no request begins before the deadline of the
\* latest 429, be it a new event, a retry or the drain loop's.
NothingSentBeforeDeadline ==
    [][\A e \in Events : (item[e].phase # "fetching" /\ item'[e].phase = "fetching")
                             => resumeAt = 0]_vars

\* The queue is kept in enqueue order and somebody is there to empty it.
QueueIsDrained ==
    /\ \A i \in 1 .. Len(queue) - 1 : queue[i] < queue[i + 1]
    /\ queue # << >> => loop.at # "off"

\* "at most DRAIN_CONCURRENCY requests at a time": of the events that waited
\* for a back-off, no more are in flight.
DrainIsBounded == Cardinality(Drained) + loop.turns <= DRAIN_CONCURRENCY

\* send() resolves: every event is sent or counted in the end, whichever 429s
\* and failures it met.
EverySendResolves ==
    \A e \in Events : e \in Live ~> item[e].phase \in {"settled", "abandoned"}
=============================================================================
