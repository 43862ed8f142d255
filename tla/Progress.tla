------------------------------ MODULE Progress ------------------------------
(***************************************************************************)
(* What must eventually happen, in the components where somebody waits for *)
(* somebody else: the background sender, a request to one target, the calls*)
(* of the failover engine and the requests that share a token exchange.  A *)
(* behaviour runs one of the units, under the fairness its code justifies. *)
(***************************************************************************)
EXTENDS Integers, Sequences, FiniteSets

CONSTANTS Callers, None

VARIABLES
  unit, \* the unit that this behaviour runs
  sender, pc, send_lock, chunk, rest, wake, stopping, final_flush, registered, born,
  inherited, budget, cfg, beforeFailed, made, num, k, errs, skip, resp, calls, judged,
  answer, breaker, tracked, call, cache, inflight, user, job

vars == <<unit, sender, pc, send_lock, chunk, rest, wake, stopping, final_flush, registered,
          born, inherited, budget, cfg, beforeFailed, made, num, k, errs, skip, resp,
          calls, judged, answer, breaker, tracked, call, cache, inflight, user, job>>

Off == "off"

-----------------------------------------------------------------------------
(* TargetRequest: one status per class that the code tells apart; the      *)
(* default retry list, one that also retries what a guardrail refused, and *)
(* one that retries a timeout and a marked answer.                         *)
UpstreamStatuses == {200, 302, 400, 429, 502}
RetryLists == {{429, 502}, {429, 446, 502}, {246, 408, 446}}

(* Failover: a candidate of known window at each of two providers. *)
Candidate(p, w, ok) == [provider |-> p, window |-> w, compliant |-> ok]
Route == << Candidate("a", 1, TRUE), Candidate("b", 2, TRUE) >>

(* TokenCaches: a client's own token, and a role asked with it. *)
Asked == {<<"oauth", <<"a", "s1">>>>, <<"aws", <<"a", "s1", "r">>>>}
Early == [oauth |-> 1, aws |-> 2, vendor |-> 1, gcp |-> 1, vertex |-> 2]
Lives == [oauth |-> 2, aws |-> 3, vendor |-> 3, gcp |-> 3, vertex |-> 3]

-----------------------------------------------------------------------------
Background == INSTANCE BackgroundSender WITH Stopping <- {"uninstrument"}, Capacity <- 2,
                                             MaxBatch <- 1, BySize <- FALSE,
                                             FlushSize <- 2, MaxEvents <- 2, MaxStops <- 1,
                                             MaxTurns <- 2
Target == INSTANCE TargetRequest WITH MaxRetries <- 1, RetryCodeSets <- RetryLists,
                                      RetryLimit <- 3, UpstreamCodes <- UpstreamStatuses
Routed == INSTANCE Failover WITH Calls <- Callers, Candidates <- Route,
                                 FailureThreshold <- 1, HalfOpenMaxProbes <- 1,
                                 RateLimitRetries <- 1, MaxEntries <- 1, MayDrain <- FALSE
Tokens == INSTANCE TokenCaches WITH Settings <- {[requests |-> Asked, lifetimes |-> {}]},
                                    MaxEntries <- 1, Skew <- Early, DefaultLife <- Lives,
                                    Latency <- 1

(* A unit runs with its own variables; the variables of the others are off. *)
Units == {"sender", "target", "routed", "tokens"}

Init ==
  \/ /\ unit = "sender" /\ Background!Init
     /\ cfg = Off /\ beforeFailed = Off /\ made = Off /\ num = Off /\ k = Off /\
        errs = Off /\ skip = Off /\ resp = Off /\ calls = Off /\ judged = Off /\
        answer = Off /\ breaker = Off /\ tracked = Off /\ call = Off /\ cache = Off /\
        inflight = Off /\ user = Off /\ job = Off
  \/ /\ unit = "target" /\ Target!Init
     /\ sender = Off /\ send_lock = Off /\ chunk = Off /\ rest = Off /\ wake = Off /\
        stopping = Off /\ final_flush = Off /\ registered = Off /\ born = Off /\
        inherited = Off /\ breaker = Off /\ tracked = Off /\ call = Off /\ cache = Off /\
        inflight = Off /\ user = Off /\ job = Off
  \/ /\ unit = "routed" /\ Routed!Init
     /\ sender = Off /\ pc = Off /\ send_lock = Off /\ chunk = Off /\ rest = Off /\
        wake = Off /\ stopping = Off /\ final_flush = Off /\ registered = Off /\
        born = Off /\ inherited = Off /\ budget = Off /\ cfg = Off /\ beforeFailed = Off /\
        made = Off /\ num = Off /\ k = Off /\ errs = Off /\ skip = Off /\ resp = Off /\
        calls = Off /\ judged = Off /\ answer = Off /\ cache = Off /\ inflight = Off /\
        user = Off /\ job = Off
  \/ /\ unit = "tokens" /\ Tokens!Init
     /\ sender = Off /\ pc = Off /\ send_lock = Off /\ chunk = Off /\ rest = Off /\
        wake = Off /\ stopping = Off /\ final_flush = Off /\ registered = Off /\
        born = Off /\ inherited = Off /\ budget = Off /\ beforeFailed = Off /\
        made = Off /\ num = Off /\ k = Off /\ errs = Off /\ skip = Off /\ resp = Off /\
        calls = Off /\ judged = Off /\ answer = Off /\ breaker = Off /\ tracked = Off /\
        call = Off

Next ==
  \/ /\ unit = "sender" /\ Background!Next
     /\ UNCHANGED <<unit, cfg, beforeFailed, made, num, k, errs, skip, resp, calls, judged,
                    answer, breaker, tracked, call, cache, inflight, user, job>>
  \/ /\ unit = "target" /\ Target!Next
     /\ UNCHANGED <<unit, sender, send_lock, chunk, rest, wake, stopping, final_flush,
                    registered, born, inherited, breaker, tracked, call, cache, inflight,
                    user, job>>
  \/ /\ unit = "routed" /\ Routed!Next
     /\ UNCHANGED <<unit, sender, pc, send_lock, chunk, rest, wake, stopping, final_flush,
                    registered, born, inherited, budget, cfg, beforeFailed, made, num, k,
                    errs, skip, resp, calls, judged, answer, cache, inflight, user, job>>
  \/ /\ unit = "tokens" /\ Tokens!Next
     /\ UNCHANGED <<unit, sender, pc, send_lock, chunk, rest, wake, stopping, final_flush,
                    registered, born, inherited, budget, beforeFailed, made, num, k,
                    errs, skip, resp, calls, judged, answer, breaker, tracked, call>>

Spec == Init /\ [][Next]_vars

(* What the code justifies of each unit: its threads are scheduled and a   *)
(* post has a timeout; every await of a request settles; upstream calls    *)
(* end and timers fire; the event loop runs what is ready, and a token     *)
(* service answers or its connection fails.                                *)
senderVars == Background!vars
targetVars == Target!vars
routedVars == Routed!vars
tokensVars == Tokens!vars

Fairness ==
  /\ WF_senderVars(unit = "sender" /\ Background!DaemonStep)
  /\ \A f \in Background!Flushers : WF_senderVars(unit = "sender" /\ Background!FlushStep(f))
  /\ WF_senderVars(unit = "sender" /\ Background!CloseDropsBackoff)
  /\ \A t \in Background!Stoppers : WF_senderVars(unit = "sender" /\ Background!StopStep(t))
  /\ WF_senderVars(unit = "sender" /\ Background!BackoffEnds)
  /\ WF_targetVars(unit = "target" /\ Target!Next)
  /\ \A c \in Callers : WF_routedVars(unit = "routed" /\ (Routed!Succeeds(c) \/ Routed!Fails(c)))
  /\ \A c \in Callers : WF_routedVars(unit = "routed" /\ Routed!Wakes(c))
  /\ \A u \in Tokens!Users :
       /\ WF_tokensVars(unit = "tokens" /\ Tokens!Look(u))
       /\ WF_tokensVars(unit = "tokens" /\ Tokens!Join(u))
       /\ WF_tokensVars(unit = "tokens" /\ (Tokens!Answer(u) \/ Tokens!Reject(u) \/ Tokens!Retry(u)))
  /\ \A c \in Callers : WF_tokensVars(unit = "tokens" /\ Tokens!ResumeChain(c))

FairSpec == Spec /\ Fairness

-----------------------------------------------------------------------------
(* Whoever waits gets an end.  BackgroundSender: an event that is enqueued *)
(* is sent or counted as lost, unless the sender is stopped or the process *)
(* ends before, so no wake-up is missed and no back-off lasts for ever.    *)
(* TargetRequest: neither of the nested retry loops goes round for ever.   *)
(* Failover: a call ends whatever its breakers and the calls beside it do. *)
(* TokenCaches: a caller that waits for a token gets one or an error, also *)
(* when it joined the exchange of another caller.                          *)
EveryoneIsAnswered ==
  /\ \A e \in 1 .. 2 :
       (unit = "sender" /\ e \in Background!Elements(Background!InHand))
       ~> (unit = "sender" /\ (\/ e \notin Background!Elements(Background!InHand)
                               \/ stopping \/ pc["exit"] = "done"))
  /\ unit = "target" ~> (unit = "target" /\ pc = "done")
  /\ \A c \in Callers : (unit = "routed" /\ call[c].at \in {"calling", "waiting"})
                        ~> (unit = "routed" /\ call[c].at \in Routed!Answers)
  /\ \A c \in Callers : (unit = "tokens" /\ user[<<c, "call">>].pc = "lookup")
                        ~> (unit = "tokens" /\ user[<<c, "call">>].pc = "done")
=============================================================================
