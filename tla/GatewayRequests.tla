-------------------------- MODULE GatewayRequests ---------------------------
(***************************************************************************)
(* What the gateway awaits on the way of a request, side by side: a        *)
(* behaviour runs one of the units.  They keep no state in common, so the  *)
(* behaviours of the gateway are those of its units.                       *)
(***************************************************************************)
EXTENDS Integers, Sequences, FiniteSets, TLC

CONSTANTS
  Callers, RoutedCalls, None,
  RetryLimit, MaxRetries, RetryLists, UpstreamStatuses,         \* of TargetRequest
  Route, FailureThreshold, HalfOpenMaxProbes, RateLimitRetries, \* of Failover
  MaxBreakers,
  Settings, MaxTokens, Early, Lives, Latency                    \* of TokenCaches

VARIABLES
  unit, \* the unit that this behaviour runs
  check, row, call, cfg, phase, replies, out, result, input, results, pc, beforeFailed,
  made, num, k, errs, budget, skip, resp, calls, judged, answer, breaker, tracked, cache,
  inflight, user, job

vars == <<unit, check, row, call, cfg, phase, replies, out, result, input, results, pc,
          beforeFailed, made, num, k, errs, budget, skip, resp, calls, judged, answer,
          breaker, tracked, cache, inflight, user, job>>

Off == "off"

\* A status is a number, of which an upstream's are not the numbers that
\* stand for errors without a status.
ASSUME TargetAssumption ==
  /\ MaxRetries \in Nat /\ RetryLimit \in Nat
  /\ RetryLists \subseteq SUBSET Nat /\ UpstreamStatuses \subseteq Nat

-----------------------------------------------------------------------------
Check == INSTANCE Guardrails WITH Extras <- {"warn", "bare", "rewrite"}
Local == INSTANCE LocalChecks WITH Counts <- 0..3, Names <- {"a", "b"}, Items <- 2,
                                   Irregular <- {"json_schema", "urls", "json_keys"}
Target == INSTANCE TargetRequest WITH RetryCodeSets <- RetryLists,
                                      UpstreamCodes <- UpstreamStatuses
Routed == INSTANCE Failover WITH Calls <- RoutedCalls, Candidates <- Route,
                                 MaxEntries <- MaxBreakers, MayDrain <- TRUE
\* Finitely many calls at a time; a candidate whose window is unknown has 0.
ASSUME RoutedAssumption ==
  /\ IsFiniteSet(RoutedCalls)
  /\ FailureThreshold \in Nat \ {0} /\ HalfOpenMaxProbes \in Nat
  /\ RateLimitRetries \in Nat /\ MaxBreakers \in Nat
  /\ Len(Route) \in Nat /\ DOMAIN Route = 1 .. Len(Route)
  /\ \A i \in DOMAIN Route : Route[i].window \in Nat /\ Route[i].compliant \in BOOLEAN

Tokens == INSTANCE TokenCaches WITH MaxEntries <- MaxTokens, Skew <- Early,
                                    DefaultLife <- Lives

\* A token reaches the gateway within Latency of being minted, which the skew
\* covers, and lives longer than that.
ASSUME TokenAssumption ==
  /\ MaxTokens \in Nat \ {0} /\ Latency \in Nat
  /\ \A s \in Settings :
       /\ \A r \in s.requests : r[1] \in Tokens!Kinds
       /\ \A kind \in Tokens!Kinds : \A life \in s.lifetimes \cup {Lives[kind]} :
            /\ Early[kind] \in Nat /\ Latency <= Early[kind]
            /\ life \in Nat /\ Latency < life /\ 2 * Latency <= life

(* A unit runs with its own variables; the variables of the others are off. *)
Units == {"check", "local", "target", "routed", "tokens"}

Init ==
  \/ /\ unit = "check" /\ Check!Init
     /\ input = Off /\ results = Off /\ pc = Off /\ beforeFailed = Off /\ made = Off /\
        num = Off /\ k = Off /\ errs = Off /\ budget = Off /\ skip = Off /\ resp = Off /\
        calls = Off /\ judged = Off /\ answer = Off /\ breaker = Off /\ tracked = Off /\
        cache = Off /\ inflight = Off /\ user = Off /\ job = Off
  \/ /\ unit = "local" /\ Local!Init
     /\ row = Off /\ call = Off /\ cfg = Off /\ phase = Off /\ replies = Off /\
        out = Off /\ result = Off /\ pc = Off /\ beforeFailed = Off /\ made = Off /\
        num = Off /\ k = Off /\ errs = Off /\ budget = Off /\ skip = Off /\ resp = Off /\
        calls = Off /\ judged = Off /\ answer = Off /\ breaker = Off /\ tracked = Off /\
        cache = Off /\ inflight = Off /\ user = Off /\ job = Off
  \/ /\ unit = "target" /\ Target!Init
     /\ check = Off /\ row = Off /\ call = Off /\ phase = Off /\ replies = Off /\
        out = Off /\ result = Off /\ input = Off /\ results = Off /\ breaker = Off /\
        tracked = Off /\ cache = Off /\ inflight = Off /\ user = Off /\ job = Off
  \/ /\ unit = "routed" /\ Routed!Init
     /\ check = Off /\ row = Off /\ cfg = Off /\ phase = Off /\ replies = Off /\
        out = Off /\ result = Off /\ input = Off /\ results = Off /\ pc = Off /\
        beforeFailed = Off /\ made = Off /\ num = Off /\ k = Off /\ errs = Off /\
        budget = Off /\ skip = Off /\ resp = Off /\ calls = Off /\ judged = Off /\
        answer = Off /\ cache = Off /\ inflight = Off /\ user = Off /\ job = Off
  \/ /\ unit = "tokens" /\ Tokens!Init
     /\ check = Off /\ row = Off /\ call = Off /\ phase = Off /\
        replies = Off /\ out = Off /\ result = Off /\ input = Off /\ results = Off /\
        pc = Off /\ beforeFailed = Off /\ made = Off /\ num = Off /\ k = Off /\
        errs = Off /\ budget = Off /\ skip = Off /\ resp = Off /\ calls = Off /\
        judged = Off /\ answer = Off /\ breaker = Off /\ tracked = Off

Next ==
  \/ /\ unit = "check" /\ Check!Next
     /\ UNCHANGED <<unit, input, results, pc, beforeFailed, made, num, k, errs, budget,
                    skip, resp, calls, judged, answer, breaker, tracked, cache, inflight,
                    user, job>>
  \/ /\ unit = "local" /\ Local!Next
     /\ UNCHANGED <<unit, row, call, cfg, phase, replies, out, result, pc, beforeFailed,
                    made, num, k, errs, budget, skip, resp, calls, judged, answer, breaker,
                    tracked, cache, inflight, user, job>>
  \/ /\ unit = "target" /\ Target!Next
     /\ UNCHANGED <<unit, check, row, call, phase, replies, out, result, input, results,
                    breaker, tracked, cache, inflight, user, job>>
  \/ /\ unit = "routed" /\ Routed!Next
     /\ UNCHANGED <<unit, check, row, cfg, phase, replies, out, result, input, results, pc,
                    beforeFailed, made, num, k, errs, budget, skip, resp, calls, judged,
                    answer, cache, inflight, user, job>>
  \/ /\ unit = "tokens" /\ Tokens!Next
     /\ UNCHANGED <<unit, check, row, call, phase, replies, out, result, input,
                    results, pc, beforeFailed, made, num, k, errs, budget, skip, resp,
                    calls, judged, answer, breaker, tracked>>

Spec == Init /\ [][Next]_vars

-----------------------------------------------------------------------------
(* Guardrails and LocalChecks.  What passes a check holds nothing that the *)
(* check finds, also when its service fails or answers nonsense, but in    *)
(* exactly the cases that Shortfall names (six redactions that fall short, *)
(* and the services whose odd answers pass).  What is clean passes, unless *)
(* it has no text and the check is F5's or phi's; and a redaction rewrites *)
(* what was flagged and nothing else.  A local check and its inversion     *)
(* never agree, metadata never widens what the parameters allow, and a     *)
(* token signed with a key newer than the cached ones is judged by its     *)
(* signature.                                                              *)
GuardrailsHold ==
  /\ unit = "check" =>
       /\ Check!TypeOK
       /\ Check!UnsafeIsStopped /\ Check!CleanIsNotDenied /\ Check!NotInverts
       /\ Check!CleanTextSurvives
  /\ unit = "local" =>
       /\ Local!TypeOK
       /\ Local!NotIsNegation /\ Local!NoneIsNotAny
       /\ Local!MetadataNeverWidens /\ Local!RotatedKeyIsFound

(* TargetRequest.  However the two retry loops interleave, a request makes *)
(* at most 2 * attempts + 1 upstream calls, and its answer carries the     *)
(* latest upstream body, with the hook results of that response only, and  *)
(* nothing that a guardrail denied.                                        *)
AnswerIsJudged ==
  unit = "target" => Target!TypeOK /\ Target!CallsAreBounded /\ Target!AnswerIsJudged

(* TargetRequest.  Once a redirect or a Retry-After ended the retrying,    *)
(* neither loop calls the provider again.                                  *)
SkipIsFinal == [][unit = "target" => Target!SkipStep]_vars

(* Failover.  What a call tries follows the failure matrix, in order, with *)
(* bounded retries, and never a candidate that the policy rejects; a probe *)
(* slot that is taken belongs to a call that will still end, so no breaker *)
(* wedges half-open; and a call is told policy_violation only when the     *)
(* policy rejects every candidate, and gets a 503 only untried.            *)
RoutedCallsAreHonest ==
  unit = "routed" =>
    /\ Routed!TypeOK
    /\ Routed!AttemptsFollowTheMatrix /\ Routed!ProbesAreHeld /\ Routed!RefusalIsHonest

(* TokenCaches.  For one key of one cache at most one exchange is under    *)
(* way, and one that settled is never joined; whatever was cached or       *)
(* shared, a request only gets a live token minted for its own credential; *)
(* and the caches stay within their bound, one entry for a key.            *)
TokensAreOwn ==
  unit = "tokens" =>
    /\ Tokens!TypeOK
    /\ Tokens!OneExchange /\ Tokens!FlightsAreRunning
    /\ Tokens!AnswerIsOwn /\ Tokens!AnswerIsLive /\ Tokens!CacheIsBounded

-----------------------------------------------------------------------------
(* For TLC.  TargetRequest: one status per class that the code tells apart;*)
(* the default retry list, one that also retries what a guardrail refused, *)
(* and one that retries a timeout and a marked answer.                     *)
SomeStatuses == {200, 302, 400, 429, 502}
SomeLists == {{429, 502}, {429, 446, 502}, {246, 408, 446}}

(* Failover: a candidate of known window at each of two providers. *)
Candidate(p, w, ok) == [provider |-> p, window |-> w, compliant |-> ok]
TwoCandidates == << Candidate("a", 1, TRUE), Candidate("b", 2, TRUE) >>

(* TokenCaches: two secrets of one client, and a role asked with the first *)
(* of them; and the caches of the other kinds.                             *)
OneClient == {<<"oauth", <<"a", "s1">>>>, <<"oauth", <<"a", "s2">>>>, <<"aws", <<"a", "s1", "r">>>>}
OtherKinds == {<<"vendor", <<"v">>>>, <<"gcp", <<"g">>>>,
               <<"vertex", <<"b", "s1">>>>, <<"vertex", <<"b", "s2">>>>}
TheSettings == {[requests |-> OneClient, lifetimes |-> {}],
                [requests |-> OtherKinds, lifetimes |-> {2}]}
Skews == [oauth |-> 1, aws |-> 2, vendor |-> 1, gcp |-> 1, vertex |-> 2]
Lifes == [oauth |-> 4, aws |-> 4, vendor |-> 3, gcp |-> 3, vertex |-> 3]

(* The calls and the callers of a unit are interchangeable. *)
Symmetry == Permutations(Callers) \cup Permutations(RoutedCalls)
=============================================================================
