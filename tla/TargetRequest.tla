--------------------------- MODULE TargetRequest ---------------------------
(***************************************************************************)
(* One request to one target of the gateway: tryPost and tryPostToProvider *)
(* (handlers/handlerUtils.ts) with the retry loop of                       *)
(* handlers/retryHandler.ts inside the loop of                             *)
(* recursiveAfterRequestHookHandler, which calls the provider again when   *)
(* the answer its output guardrails produced has a retriable status.       *)
(*                                                                         *)
(* A response is its status and the number of the upstream call whose body *)
(* it carries (0: a body the gateway wrote).  The two loops count          *)
(* differently: k is what async-retry counts inside one retryRequest, made *)
(* is what the outer loop carries from one retryRequest to the next.       *)
(***************************************************************************)
EXTENDS Integers, Sequences, FiniteSets

CONSTANTS MaxRetries,   \* bound on the configured retry.attempts
          RetryCodeSets,\* the retry.on_status_codes lists to try
          RetryLimit,   \* MAX_RETRY_LIMIT_MS, in units of one Retry-After step
          UpstreamCodes \* statuses an upstream may answer with

VARIABLES cfg,     \* what the request and its target's config ask for
          pc,      \* the await the request is suspended at
          beforeFailed, \* an input hook failed without deny (the 246 rule)
          made,    \* retryAttemptsMade of recursiveAfterRequestHookHandler
          num,     \* attempt number inside the current retryRequest
          k,       \* retryRequest's lastAttempt (undefined counts as 0)
          errs,    \* errors async-retry has recorded, oldest first
          budget,  \* remainingRetryTimeout
          skip,    \* retrySkipped
          resp,    \* status of the response the current stage works on
          calls,   \* upstream calls made so far
          judged,  \* the span's after-hook results: upstream call, verdict
          answer   \* what tryPost returned

vars == <<cfg, pc, beforeFailed, made, num, k, errs, budget, skip, resp,
          calls, judged, answer>>

(***************************************************************************)
(* An error without a status: the host could not be reached in time, or    *)
(* the fetch failed in another way.  They are numbers no status has.       *)
(***************************************************************************)
ConnectTimeout == 1
NetworkError == 2
Thrown == {ConnectTimeout, NetworkError}
Redirects == {s \in UpstreamCodes : s \in 300..399}
NoAnswer == [status |-> 0, body |-> 0, json |-> TRUE, retry |-> 0,
             exception |-> FALSE]

\* RequestContext.normalizeRetryConfig: no attempts, no retriable codes.
Configs ==
    { c \in [attempts : 0..MaxRetries, codes : RetryCodeSets \cup {{}},
             followRetryAfter : BOOLEAN, streaming : BOOLEAN] :
        (c.attempts = 0) <=> (c.codes = {}) }

\* Where the request is and what has come of it so far.
TypeOK ==
    /\ cfg \in Configs
    /\ pc \in {"gate", "before", "cache", "validate", "fetch", "wait",
               "after", "done"}
    /\ beforeFailed \in BOOLEAN
    /\ made \in 0..MaxRetries /\ k \in 0..MaxRetries
    /\ num \in 1..(MaxRetries + 1)
    /\ errs \in Seq(UpstreamCodes \cup Thrown \cup {408})
    /\ budget \in 0..RetryLimit
    /\ skip \in BOOLEAN
    /\ resp \in Nat
    /\ calls \in Nat
    /\ judged \subseteq [call : 1..calls, verdict : {"pass", "fail", "deny"}]
    /\ answer \in [status : Nat, body : 0..calls, json : BOOLEAN,
                   retry : {-1} \cup Nat, exception : BOOLEAN]

Init ==
    /\ cfg \in Configs
    /\ pc = "gate" /\ beforeFailed = FALSE
    /\ made = 0 /\ num = 1 /\ k = 0 /\ errs = << >>
    /\ budget = RetryLimit /\ skip = FALSE
    /\ resp = 0 /\ calls = 0 /\ judged = {}
    /\ answer = NoAnswer

retryVars == <<made, num, k, errs, budget, skip, resp, calls, judged>>

\* The ways tryPost returns before the provider is called: with the response
\* of a stage, or by throwing, which tryTargetsRecursively turns into a marked
\* exception response.
Return(status, retry) ==
    /\ pc' = "done"
    /\ answer' = [NoAnswer EXCEPT !.status = status, !.retry = retry]

Throw(status) ==
    /\ pc' = "done"
    /\ answer' = [NoAnswer EXCEPT !.status = status, !.exception = TRUE]

(***************************************************************************)
(* The checks of tryPost before the provider is involved: the OIDC group   *)
(* policy and the data policy answer 403; a proxied request or a Responses *)
(* request its guardrails cannot inspect answers 400; a token count of a   *)
(* guarded target is answered locally; a URL that left the upstream host   *)
(* throws.                                                                 *)
(***************************************************************************)
Gate ==
    /\ pc = "gate"
    /\ \/ pc' = "before" /\ UNCHANGED answer
       \/ \E s \in {403, 400, 200} : Return(s, 0)
       \/ Throw(400)
    /\ UNCHANGED <<cfg, beforeFailed, retryVars>>

(***************************************************************************)
(* beforeRequestHookHandler: a failed hook with deny ends the request with *)
(* a 446; a failed hook without deny is remembered; an error inside the    *)
(* handler lets the request through.                                       *)
(***************************************************************************)
BeforeHooks ==
    /\ pc = "before"
    /\ \E v \in {"pass", "fail", "deny", "error"} :
         /\ beforeFailed' = (v \in {"fail", "deny"})
         /\ IF v = "deny" THEN Return(446, 0)
            ELSE pc' = "cache" /\ UNCHANGED answer
    /\ UNCHANGED <<cfg, retryVars>>

\* CacheService.getCachedResponse: a hit is answered with 200, or 246 when an
\* input hook failed; the provider is not called.
Cache ==
    /\ pc = "cache"
    /\ \/ pc' = "validate" /\ UNCHANGED answer
       \/ Return(IF beforeFailed THEN 246 ELSE 200, 0)
    /\ UNCHANGED <<cfg, beforeFailed, retryVars>>

\* PreRequestValidatorService.getResponse: a response here is an exhausted
\* budget.
PreRequestValidator ==
    /\ pc = "validate"
    /\ \/ pc' = "fetch" /\ UNCHANGED answer
       \/ Return(412, 0)
    /\ UNCHANGED <<cfg, beforeFailed, retryVars>>

-----------------------------------------------------------------------------
(***************************************************************************)
(* retryRequest.                                                           *)
(***************************************************************************)

\* The response built from the error retryRequest ends with.
StatusOf(e) ==
    CASE e = ConnectTimeout -> 503
      [] e = NetworkError -> 500
      [] OTHER -> e

\* RetryOperation.mainError of the retry library: the most frequent error
\* message, the latest among equals.  Bodies are not modelled, so a status
\* that came up more than once may or may not be one message.
MainErrors(es) ==
    {es[Len(es)]} \cup
    {es[i] : i \in {j \in DOMAIN es : \E h \in DOMAIN es : h # j /\ es[h] = es[j]}}

\* retryRequest returns: the response goes on to the output hooks.
EndRetries(status) == pc' = "after" /\ resp' = status

\* An attempt failed with a retriable error e: the last attempt bails with
\* it; an emptied backoff list ends the loop with the main error; otherwise
\* async-retry starts the next attempt.
AttemptFailed(e, noBackoff) ==
    /\ errs' = Append(errs, e)
    /\ IF num >= cfg.attempts + 1
         THEN EndRetries(StatusOf(e)) /\ UNCHANGED <<num, k>>
         ELSE IF noBackoff
         THEN /\ \E m \in MainErrors(errs') : EndRetries(StatusOf(m))
              /\ UNCHANGED <<num, k>>
         ELSE /\ pc' = "fetch" /\ num' = num + 1 /\ k' = num
              /\ UNCHANGED resp

requestFixed == <<cfg, beforeFailed, made, judged, answer>>

\* A 3xx is answered with a 502 and not retried.
FetchRedirect ==
    /\ pc = "fetch"
    /\ Redirects # {}
    /\ calls' = calls + 1
    /\ skip' = TRUE
    /\ EndRetries(502)
    /\ UNCHANGED <<requestFixed, num, k, errs, budget>>

\* A status that is not retried, a timeout's 408 included, ends the loop.
FetchAnswered ==
    /\ pc = "fetch"
    /\ \E s \in (UpstreamCodes \cup {408}) \ (Redirects \cup cfg.codes) :
         EndRetries(s)
    /\ calls' = calls + 1
    /\ UNCHANGED <<requestFixed, num, k, errs, budget, skip>>

\* A retriable status, a 429 without a usable Retry-After among them, or a
\* fetch that throws.
FetchRetriable ==
    /\ pc = "fetch"
    /\ \E e \in (((UpstreamCodes \cup {408}) \cap cfg.codes) \ Redirects)
                  \cup Thrown :
         AttemptFailed(e, FALSE)
    /\ calls' = calls + 1
    /\ UNCHANGED <<requestFixed, budget, skip>>

\* A retriable 429 whose Retry-After is to be followed: one that is too long,
\* or longer than what is left of the budget, ends the retries; another is
\* taken from the budget and waited for, on the last attempt too.
FetchRetryAfter ==
    /\ pc = "fetch"
    /\ cfg.followRetryAfter /\ 429 \in cfg.codes \cap UpstreamCodes
    /\ calls' = calls + 1
    /\ \E after \in 1..RetryLimit :
         IF after >= RetryLimit \/ after > budget
         THEN /\ skip' = TRUE
              /\ AttemptFailed(429, TRUE)
              /\ UNCHANGED budget
         ELSE /\ budget' = budget - after
              /\ pc' = "wait"
              /\ UNCHANGED <<skip, errs, num, k, resp>>
    /\ UNCHANGED requestFixed

RetryAfterElapsed ==
    /\ pc = "wait"
    /\ AttemptFailed(429, FALSE)
    /\ UNCHANGED <<requestFixed, calls, budget, skip>>

-----------------------------------------------------------------------------
(***************************************************************************)
(* recursiveAfterRequestHookHandler after its retryRequest.                *)
(***************************************************************************)

\* responseHandler: a successful stream is never read as JSON; of any other
\* answer the content type decides.
JsonRead == IF cfg.streaming /\ resp \in {200, 246} THEN {FALSE} ELSE BOOLEAN

\* afterRequestHookHandler: the output hooks run on a 200 only.  An answer
\* without JSON (a stream, audio, text) is passed on, marked 246 when a hook
\* failed; a JSON answer a hook denies becomes a 446 without its content.
HookedStatus(json, verdict) ==
    CASE json /\ verdict = "deny" -> 446
      [] ~(json /\ verdict = "deny") /\ resp = 200
           /\ (beforeFailed \/ verdict \in {"fail", "deny"}) -> 246
      [] OTHER -> resp

HookedBody(json, verdict) == IF json /\ verdict = "deny" THEN 0 ELSE calls

\* Mutant: the results of earlier passes are kept.
MutJudgedKept(verdict) ==
    judged \cup
    (IF verdict = "skipped" THEN {} ELSE {[call |-> calls, verdict |-> verdict]})

\* resetHookResult on every pass after the first, then one result per run.
JudgedAfter(verdict) ==
    (IF made > 0 THEN {} ELSE judged) \cup
    (IF verdict = "skipped" THEN {} ELSE {[call |-> calls, verdict |-> verdict]})

remainingRetryCount == cfg.attempts - k - made

\* Mutant: the outer loop ignores that the inner one gave up.
MutRetriesLeft == remainingRetryCount > 0

RetriesLeft == remainingRetryCount > 0 /\ ~skip

\* The outer loop's retry: a fresh retryRequest with the full retry count.
RetryAgain ==
    /\ pc' = "fetch"
    /\ made' = k + 1 + made
    /\ num' = 1 /\ k' = 0 /\ errs' = << >>
    /\ budget' = RetryLimit /\ skip' = FALSE /\ resp' = 0
    /\ UNCHANGED answer

\* A retry count of -1 tells the client that the retries were exhausted.
Finish(status, body, json) ==
    /\ pc' = "done"
    /\ answer' =
         [status |-> status, body |-> body, json |-> json, exception |-> FALSE,
          retry |-> IF skip \/ (k + made = cfg.attempts /\ status \in cfg.codes)
                    THEN -1 ELSE k + made]
    /\ UNCHANGED <<made, num, k, errs, budget, skip, resp>>

AfterHooks ==
    /\ pc = "after"
    /\ \E json \in JsonRead,
          verdict \in IF resp = 200 THEN {"pass", "fail", "deny"}
                      ELSE {"skipped"} :
         /\ judged' = JudgedAfter(verdict)
         /\ IF RetriesLeft /\ HookedStatus(json, verdict) \in cfg.codes
            THEN RetryAgain
            ELSE Finish(HookedStatus(json, verdict), HookedBody(json, verdict),
                        json)
    /\ UNCHANGED <<cfg, beforeFailed, calls>>

\* responseHandler throws on a body it cannot map.
ResponseUnreadable ==
    /\ pc = "after"
    /\ Throw(500)
    /\ UNCHANGED <<cfg, beforeFailed, retryVars>>

\* The request is over; only its answer remains.
Answered == pc = "done" /\ UNCHANGED vars

Next ==
    \/ Gate \/ BeforeHooks \/ Cache \/ PreRequestValidator
    \/ FetchRedirect \/ FetchAnswered \/ FetchRetriable \/ FetchRetryAfter
    \/ RetryAfterElapsed \/ AfterHooks \/ ResponseUnreadable
    \/ Answered

Spec == Init /\ [][Next]_vars
-----------------------------------------------------------------------------
(***************************************************************************)
(* Correctness properties.                                                 *)
(***************************************************************************)

\* However the two retry loops interleave, a request makes at most one full
\* retryRequest more than its configured retries: 2 * attempts + 1 upstream
\* calls (retryRequest's bail, recursiveAfterRequestHookHandler's remaining
\* count).
CallsAreBounded == calls <= 2 * cfg.attempts + 1

\* An answer that carries an upstream body carries the latest one, with hook
\* results of that response only, whatever was retried before; a 200 passed
\* every hook, and of a JSON answer a deny guardrail refused nothing is
\* delivered (afterRequestHookHandler, resetHookResult).
AnswerIsJudged ==
    (pc = "done" /\ answer.body # 0) =>
        /\ answer.body = calls
        /\ \A r \in judged : r.call = calls /\ (r.verdict = "deny" => ~answer.json)
        /\ answer.status = 200 =>
             judged = {[call |-> calls, verdict |-> "pass"]} /\ ~beforeFailed

\* The retrying was ended: no request and no wait follows.
SkipStep == skip => pc' \notin {"fetch", "wait"}

\* Once a redirect or a Retry-After that does not fit ended the retrying,
\* neither loop calls the provider again (retrySkipped, which the inner loop
\* sets and the outer one must honour).
SkipIsFinal == [][SkipStep]_vars
=============================================================================
