------------------------------ MODULE Failover ------------------------------
(***************************************************************************)
(* The failover engine (psFailover and its twin in the SDK, failover.py),  *)
(* its per-provider circuit breakers and the gateway's use of it for       *)
(* routed calls (router/failover.ts).  Calls run concurrently in one       *)
(* process: between two awaits a call runs alone, so an action is one call *)
(* from the answer it waited for up to its next await.                     *)
(***************************************************************************)
EXTENDS Integers, Sequences, FiniteSets, FiniteSetsExt, SequencesExt

CONSTANTS
    Calls,             \* calls that may run at the same time
    Candidates,        \* the ordered candidates: provider, window (0: unknown), compliant
    FailureThreshold,
    HalfOpenMaxProbes,
    RateLimitRetries,
    MaxEntries,        \* of the registry of breakers
    MayDrain           \* an operator calls forceOpen

Providers == {Candidates[i].provider : i \in DOMAIN Candidates}

VARIABLES
    breaker,  \* per provider: state, failures, probes, and whether openSeconds are over
    tracked,  \* the providers of the registry, least recently used first
    call      \* per call: where it is, its candidate, its queue and its attempts

vars == <<breaker, tracked, call>>

Fresh == [state |-> "closed", failures |-> 0, probes |-> 0, waited |-> FALSE]
NoWindow == -1
Idle == [at |-> "idle", current |-> 0, queue |-> << >>, retries |-> 0, minWindow |-> NoWindow,
         attempts |-> << >>, skipped |-> << >>]
SkipReasons == {"circuit_open", "context_window", "non_compliant"}
Answers == {"response", "raised", "lastError", "policy_violation", "no_available_candidate"}

Provider(i) == Candidates[i].provider
InFlight(p) == {c \in Calls : call[c].at \in {"calling", "waiting"} /\ Provider(call[c].current) = p}

\* The breakers' counters stay within their thresholds.
TypeOK ==
    /\ \A p \in Providers :
          /\ breaker[p].state \in {"closed", "open", "half_open"} /\ breaker[p].waited \in BOOLEAN
          /\ breaker[p].failures \in 0 .. FailureThreshold /\ breaker[p].probes \in 0 .. HalfOpenMaxProbes
    /\ Len(tracked) <= MaxEntries /\ IsInjective(tracked) /\ Range(tracked) \subseteq Providers
    /\ \A c \in Calls :
          /\ call[c].at \in {"idle", "calling", "waiting"} \cup Answers
          /\ call[c].retries \in 0 .. RateLimitRetries /\ call[c].current \in 0 .. Len(Candidates)
          /\ \A i \in DOMAIN call[c].skipped : call[c].skipped[i] \in SkipReasons

Init ==
    /\ breaker = [p \in Providers |-> Fresh]
    /\ tracked = << >>
    /\ call = [c \in Calls |-> Idle]

-----------------------------------------------------------------------------
\* classifyFailure

Failures == [kind : {"timeout", "network", "stream_interrupted"}]
            \cup [kind : {"answer"}, status : {301, 400, 401, 408, 413, 429, 500, 504},
                  says : {"nothing", "content_filter", "context_length"}, wait : {"none", "short", "long"}]
            \cup [kind : {"unknown"}]

Verdict(errorClass, action, trips) == [class |-> errorClass, action |-> action, trips |-> trips]

ClassifyFailure(f) ==
    CASE f.kind = "stream_interrupted" -> Verdict("stream_interrupted", "raise", TRUE)
      [] f.kind = "timeout"            -> Verdict("timeout", "next", TRUE)
      [] f.kind = "network"            -> Verdict("network_error", "next", TRUE)
      [] f.kind = "unknown"            -> Verdict("unknown_error", "raise", FALSE)
      [] f.kind = "answer" ->
           CASE f.status < 500 /\ f.says = "content_filter" -> Verdict("content_filter", "raise", FALSE)
             [] f.status = 413 \/ (f.status = 400 /\ f.says = "context_length") ->
                    Verdict("context_length_exceeded", "next_larger_context", FALSE)
             [] f.status \in {408, 504} -> Verdict("timeout", "next", TRUE)
             [] f.status = 429 -> Verdict("rate_limited", "retry_after", TRUE)
             [] f.status >= 500 /\ f.status # 504 -> Verdict("server_error", "next", TRUE)
             [] OTHER -> Verdict(IF f.status >= 400 THEN "client_error" ELSE "unknown_error", "raise", FALSE)

\* Retry-After is at most maxWait.
MayWait(f) == f.kind = "answer" /\ f.status = 429 /\ f.wait = "short"

\* What the engine tells apart of a failure.
Outcomes == {[action |-> ClassifyFailure(f).action, trips |-> ClassifyFailure(f).trips, mayWait |-> MayWait(f)] :
                f \in Failures}

-----------------------------------------------------------------------------
\* CircuitBreaker: b is the breaker before, the result the breaker after.

Move(b, to) ==
    IF b.state = to THEN b
    ELSE [state |-> to, failures |-> IF to = "closed" THEN 0 ELSE b.failures,
          probes |-> 0, waited |-> FALSE]

CurrentState(b) == IF b.state = "open" /\ b.waited THEN Move(b, "half_open") ELSE b

\* allow: whether a call may go out, and the breaker with its probe slot taken.
Allows(b) ==
    LET n == CurrentState(b)
    IN  n.state = "closed" \/ (n.state = "half_open" /\ n.probes < HalfOpenMaxProbes)
Allow(b) ==
    LET n == CurrentState(b)
    IN  IF n.state = "half_open" /\ n.probes < HalfOpenMaxProbes THEN [n EXCEPT !.probes = @ + 1] ELSE n

RecordSuccess(b) ==
    CASE b.state = "half_open" -> Move(b, "closed")
      [] b.state = "closed"    -> [b EXCEPT !.failures = 0]
      [] OTHER                 -> b

RecordFailure(b) ==
    LET counted == [b EXCEPT !.failures = @ + 1]
    IN  IF b.state = "half_open" THEN Move(b, "open")
        ELSE IF b.state = "open" THEN b
        ELSE IF counted.failures >= FailureThreshold THEN Move(counted, "open") ELSE counted

\* Mutant: a probe keeps its slot.
MutReleaseSlot(b) == b

ReleaseSlot(b) == IF b.state = "half_open" /\ b.probes > 0 THEN [b EXCEPT !.probes = @ - 1] ELSE b

-----------------------------------------------------------------------------
\* BreakerRegistry: w is the registry, breakers and tracked providers.

Others(w, p) ==
    IF p \in Range(w.tracked)
    THEN RemoveAt(w.tracked, CHOOSE i \in DOMAIN w.tracked : w.tracked[i] = p) ELSE w.tracked

\* get: mark p as most recently used; an evicted breaker forgets its state.
Get(w, p) ==
    LET order == Append(Others(w, p), p)
        out == IF Len(order) > MaxEntries THEN Head(order) ELSE p
    IN  [breaker |-> IF Len(order) > MaxEntries THEN [w.breaker EXCEPT ![out] = Fresh] ELSE w.breaker,
         tracked |-> IF Len(order) > MaxEntries THEN Tail(order) ELSE order]
Seen(w, p) == Get(w, p).breaker[p]
Put(w, p, b) ==
    [breaker |-> [Get(w, p).breaker EXCEPT ![p] = b], tracked |-> Get(w, p).tracked]

Registry == [breaker |-> breaker, tracked |-> tracked]

-----------------------------------------------------------------------------
\* runFailover

\* next(): take candidates off the queue until one may be called (current, or 0).
TooSmall(k, i) ==
    k.minWindow # NoWindow /\ (Candidates[i].window = 0 \/ Candidates[i].window <= k.minWindow)

Skip(s, reason) == [w |-> s.w, k |-> [s.k EXCEPT !.skipped = Append(@, reason)]]

Consider(s, i) ==
    IF s.k.current # 0 THEN [w |-> s.w, k |-> [s.k EXCEPT !.queue = Append(@, i)]]
    ELSE IF ~Candidates[i].compliant THEN Skip(s, "non_compliant")
    ELSE IF TooSmall(s.k, i) THEN Skip(s, "context_window")
    ELSE LET w == Put(s.w, Provider(i), Allow(Seen(s.w, Provider(i))))
         IN  IF Allows(Seen(s.w, Provider(i)))
             THEN [w |-> w, k |-> [s.k EXCEPT !.current = i]]
             ELSE Skip([w |-> w, k |-> s.k], "circuit_open")

\* The walk over queue q from state s: its state after each candidate.
Walk(s, q) ==
    LET after[n \in 0 .. Len(q)] == IF n = 0 THEN s ELSE Consider(after[n - 1], q[n])
    IN  after

NextCandidate(w, k) ==
    Walk([w |-> w, k |-> [k EXCEPT !.current = 0, !.queue = << >>, !.retries = 0]], k.queue)[Len(k.queue)]

\* What the client gets when no candidate is left: the last upstream answer,
\* a 403 when the policy removed every candidate, else a 503.
Exhausted(k) ==
    IF k.attempts # << >> THEN "lastError"
    ELSE IF k.skipped # << >> /\ Range(k.skipped) = {"non_compliant"} THEN "policy_violation"
    ELSE "no_available_candidate"

\* Registry w and call record k replace the old ones.
Install(c, w, k) ==
    /\ breaker' = w.breaker /\ tracked' = w.tracked
    /\ call' = [call EXCEPT ![c] = k]

GoOn(c, s) ==
    IF s.k.current = 0 THEN Install(c, s.w, [s.k EXCEPT !.at = Exhausted(s.k)])
    ELSE Install(c, s.w, [s.k EXCEPT !.at = "calling"])

Start(c) ==
    /\ call[c].at = "idle"
    /\ GoOn(c, NextCandidate(Registry, [Idle EXCEPT !.queue = [i \in DOMAIN Candidates |-> i]]))

Attempt(c, how) == [call[c] EXCEPT !.attempts = Append(@, [candidate |-> call[c].current, how |-> how])]

Succeeds(c) ==
    /\ call[c].at = "calling"
    /\ LET p == Provider(call[c].current)
       IN  Install(c, Put(Registry, p, RecordSuccess(Seen(Registry, p))),
               [Attempt(c, "ok") EXCEPT !.at = "response"])

\* What a failure with verdict v leaves of the call's constraints.
Constrained(k, v) ==
    IF v.action = "next_larger_context"
    THEN [k EXCEPT !.minWindow = Max({@, 0, Candidates[k.current].window})] ELSE k

Fails(c) ==
    /\ call[c].at = "calling"
    /\ \E v \in Outcomes :
          LET p == Provider(call[c].current)
              k == Attempt(c, v.action)
              w == Put(Registry, p, IF v.trips THEN RecordFailure(Seen(Registry, p))
                                    ELSE ReleaseSlot(Seen(Registry, p)))
              retry == v.action = "retry_after" /\ v.mayWait /\ k.retries < RateLimitRetries
          IN  CASE v.action = "raise" -> Install(c, w, [k EXCEPT !.at = "raised"])
                [] retry /\ Allows(Seen(w, p)) ->
                      Install(c, Put(w, p, Allow(Seen(w, p))), [k EXCEPT !.at = "waiting", !.retries = @ + 1])
                [] OTHER ->
                      GoOn(c, NextCandidate(IF retry THEN Put(w, p, Allow(Seen(w, p))) ELSE w, Constrained(k, v)))

\* The Retry-After wait is over: the candidate is called again.
Wakes(c) ==
    /\ call[c].at = "waiting"
    /\ call' = [call EXCEPT ![c] = [@ EXCEPT !.at = "calling"]]
    /\ UNCHANGED <<breaker, tracked>>

\* The request is over and the next one may come.
Done(c) ==
    /\ call[c].at \in Answers
    /\ call' = [call EXCEPT ![c] = Idle]
    /\ UNCHANGED <<breaker, tracked>>

\* openSeconds have passed since the breaker opened.
Elapse(p) ==
    /\ breaker[p].state = "open" /\ ~breaker[p].waited
    /\ breaker' = [breaker EXCEPT ![p] = [@ EXCEPT !.waited = TRUE]]
    /\ UNCHANGED <<tracked, call>>

ForceOpened(b) == IF b.state = "open" THEN [b EXCEPT !.waited = FALSE] ELSE Move(b, "open")

\* forceOpen, by an operator.
ForceOpen(p) ==
    /\ MayDrain
    /\ LET w == Put(Registry, p, ForceOpened(Seen(Registry, p)))
       IN  breaker' = w.breaker /\ tracked' = w.tracked
    /\ UNCHANGED call

Next ==
    \/ \E c \in Calls : Start(c) \/ Succeeds(c) \/ Fails(c) \/ Wakes(c) \/ Done(c)
    \/ \E p \in Providers : Elapse(p) \/ ForceOpen(p)

Spec == Init /\ [][Next]_vars
-----------------------------------------------------------------------------
\* Properties.

\* The matrix of the module's head comment, over what a call really tried: in
\* order, no candidate more than once but for the Retry-After retries, nothing
\* after a failure that must be raised or a success, after an exceeded context
\* only known and larger windows, and never a candidate the policy rejects.
AttemptsFollowTheMatrix ==
    \A c \in Calls : LET a == call[c].attempts
                         tried == IF call[c].at \in {"calling", "waiting"}
                                  THEN Append(a, [candidate |-> call[c].current, how |-> "now"]) ELSE a
                         window(i) == Candidates[tried[i].candidate].window
        IN  \A i \in DOMAIN tried :
               /\ Candidates[tried[i].candidate].compliant
               /\ Cardinality({j \in DOMAIN tried : tried[j].candidate = tried[i].candidate}) <= 1 + RateLimitRetries
               /\ \A j \in DOMAIN tried : i < j =>
                     /\ tried[i].candidate <= tried[j].candidate
                     /\ tried[i].candidate = tried[j].candidate => tried[i].how = "retry_after"
                     /\ tried[i].how \notin {"ok", "raise"}
                     /\ tried[i].how = "next_larger_context" => window(j) > window(i)

\* "frees a half-open probe slot so the breaker cannot wedge": every probe slot
\* that is taken belongs to a call that will still end.
ProbesAreHeld ==
    \A p \in Providers : breaker[p].state = "half_open" => breaker[p].probes <= Cardinality(InFlight(p))

\* The client is told policy_violation only when the policy rejects every
\* candidate, and gets a 503 only when nothing was tried.
RefusalIsHonest ==
    \A c \in Calls :
        /\ call[c].at = "policy_violation" => \A i \in DOMAIN Candidates : ~Candidates[i].compliant
        /\ call[c].at = "no_available_candidate" => call[c].attempts = << >>
=============================================================================
