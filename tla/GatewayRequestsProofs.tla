------------------------ MODULE GatewayRequestsProofs ------------------------
(***************************************************************************)
(* The units of GatewayRequests, for every number of callers and every     *)
(* bound of theirs.  A unit's invariant says nothing of the other units,   *)
(* whose behaviours it does not restrict; a step of a unit keeps its own.  *)
(***************************************************************************)
EXTENDS GatewayRequests, FiniteSetTheorems, SequenceTheorems, WellFoundedInduction, TLAPS

-----------------------------------------------------------------------------
\* TargetRequest.

\* One loop inside the other: the outer one has made the calls of its earlier
\* passes, the inner one num - 1 of its pass, and one more once it waits or is
\* over.  A next pass begins only while a retry is left.
Passes ==
  /\ made <= cfg.attempts /\ k = num - 1 /\ num <= cfg.attempts + 1
  /\ pc \in {"gate", "before", "cache", "validate"} => calls = 0 /\ made = 0 /\ num = 1
  /\ pc = "fetch" => calls = made + k
  /\ pc \in {"wait", "after"} => calls = made + num
  /\ pc = "done" => calls <= 2 * cfg.attempts + 1

\* Until the first pass is over no hook has judged an answer, and nothing is
\* answered before the end.
Unjudged ==
  /\ pc # "done" => answer = Target!NoAnswer
  /\ pc # "done" /\ made = 0 => judged = {}

\* What ended the retrying has ended the inner loop.
SkipEnds == skip => pc \in {"after", "done"}

\* Only a 429 of the upstream is waited for.
WaitsFor429 == pc = "wait" => 429 \in UpstreamStatuses

TargetInv ==
  /\ Target!TypeOK
  /\ Passes /\ Unjudged /\ SkipEnds /\ WaitsFor429 /\ Target!AnswerIsJudged

LEMMA TargetBounds == MaxRetries \in Nat /\ RetryLimit \in Nat
  BY TargetAssumption

LEMMA TargetConfig ==
  ASSUME Target!TypeOK
  PROVE  cfg.attempts \in 0 .. MaxRetries /\ cfg.attempts \in Nat /\ cfg.codes \subseteq Nat
  <1>1. cfg.attempts \in 0 .. MaxRetries /\ cfg.codes \in RetryLists \cup {{}}
    BY DEF Target!TypeOK, Target!Configs
  <1>2. cfg.attempts \in Nat
    BY <1>1, TargetAssumption
  <1>3. cfg.codes \subseteq Nat
    BY <1>1, TargetAssumption
  <1> QED
    BY <1>1, <1>2, <1>3

\* Answers the gateway writes itself.
OwnAnswers == [status : Nat, body : {0}, json : BOOLEAN, retry : Nat, exception : BOOLEAN]

LEMMA ReturnIsOwn ==
  ASSUME NEW s \in Nat, NEW r \in Nat, Target!Return(s, r)
  PROVE  pc' = "done" /\ answer' \in OwnAnswers
  BY DEF Target!Return, Target!NoAnswer, OwnAnswers

LEMMA ThrowIsOwn ==
  ASSUME NEW s \in Nat, Target!Throw(s)
  PROVE  pc' = "done" /\ answer' \in OwnAnswers
  BY DEF Target!Throw, Target!NoAnswer, OwnAnswers

\* A stage that answers by itself has called nobody.
LEMMA OwnAnswer ==
  ASSUME TargetInv, UNCHANGED <<cfg, Target!retryVars>>, beforeFailed' \in BOOLEAN,
         pc # "done", pc' = "done", answer' \in OwnAnswers
  PROVE  TargetInv'
  <1> USE TargetBounds
  <1>1. calls \in Nat /\ calls' = calls /\ answer' \in OwnAnswers
    BY DEF TargetInv, Target!TypeOK, Target!retryVars
  <1>2. answer' \in [status : Nat, body : 0 .. calls', json : BOOLEAN,
                     retry : {-1} \cup Nat, exception : BOOLEAN]
    BY <1>1 DEF OwnAnswers
  <1>3. Target!TypeOK'
    BY <1>2 DEF TargetInv, Target!TypeOK, Target!retryVars
  <1>4. answer'.body = 0
    BY DEF OwnAnswers
  <1>5. Passes'
    <2>1. calls <= 2 * cfg.attempts + 1
      BY TargetConfig DEF TargetInv, Passes, Target!TypeOK
    <2> QED
      BY <2>1 DEF TargetInv, Passes, Target!retryVars
  <1>6. Unjudged' /\ SkipEnds' /\ WaitsFor429'
    BY DEF TargetInv, Unjudged, SkipEnds, WaitsFor429, Target!retryVars
  <1> QED
    BY <1>3, <1>4, <1>5, <1>6 DEF TargetInv, Target!AnswerIsJudged

\* A stage that lets the request through.
LEMMA NextStage ==
  ASSUME TargetInv, UNCHANGED <<cfg, Target!retryVars, answer>>, beforeFailed' \in BOOLEAN,
         pc \in {"gate", "before", "cache", "validate"},
         pc' \in {"before", "cache", "validate", "fetch"}
  PROVE  TargetInv'
  <1>1. Target!TypeOK'
    BY DEF TargetInv, Target!TypeOK, Target!retryVars
  <1>2. Passes'
    BY TargetConfig DEF TargetInv, Passes, Target!retryVars, Target!TypeOK
  <1>3. Unjudged' /\ SkipEnds' /\ WaitsFor429'
    BY DEF TargetInv, Unjudged, SkipEnds, WaitsFor429, Target!retryVars
  <1> QED
    BY <1>1, <1>2, <1>3 DEF TargetInv, Target!AnswerIsJudged

\* A request that calls nobody yet: the stages before the provider.
LEMMA TargetBefore ==
  ASSUME TargetInv, Target!Gate \/ Target!BeforeHooks \/ Target!Cache \/ Target!PreRequestValidator
  PROVE  TargetInv'
  <1>0. beforeFailed \in BOOLEAN
    BY DEF TargetInv, Target!TypeOK
  <1>1. CASE Target!Gate
    <2>1. pc # "done" /\ UNCHANGED <<cfg, Target!retryVars>> /\ beforeFailed' \in BOOLEAN
      BY <1>0, <1>1 DEF Target!Gate
    <2>2. \/ pc = "gate" /\ pc' = "before" /\ answer' = answer
          \/ pc' = "done" /\ answer' \in OwnAnswers
      BY <1>1, ReturnIsOwn, ThrowIsOwn DEF Target!Gate
    <2> QED
      BY <2>1, <2>2, OwnAnswer, NextStage
  <1>2. CASE Target!BeforeHooks
    <2>1. pc = "before" /\ UNCHANGED <<cfg, Target!retryVars>> /\ beforeFailed' \in BOOLEAN
      BY <1>2 DEF Target!BeforeHooks
    <2>2. \/ pc' = "cache" /\ answer' = answer
          \/ pc' = "done" /\ answer' \in OwnAnswers
      BY <1>2, ReturnIsOwn DEF Target!BeforeHooks
    <2> QED
      BY <2>1, <2>2, OwnAnswer, NextStage
  <1>3. CASE Target!Cache
    <2>1. pc = "cache" /\ UNCHANGED <<cfg, Target!retryVars>> /\ beforeFailed' \in BOOLEAN
      BY <1>0, <1>3 DEF Target!Cache
    <2>2. \/ pc' = "validate" /\ answer' = answer
          \/ pc' = "done" /\ answer' \in OwnAnswers
      BY <1>3, ReturnIsOwn DEF Target!Cache
    <2> QED
      BY <2>1, <2>2, OwnAnswer, NextStage
  <1>4. CASE Target!PreRequestValidator
    <2>1. pc = "validate" /\ UNCHANGED <<cfg, Target!retryVars>> /\ beforeFailed' \in BOOLEAN
      BY <1>0, <1>4 DEF Target!PreRequestValidator
    <2>2. \/ pc' = "fetch" /\ answer' = answer
          \/ pc' = "done" /\ answer' \in OwnAnswers
      BY <1>4, ReturnIsOwn DEF Target!PreRequestValidator
    <2> QED
      BY <2>1, <2>2, OwnAnswer, NextStage
  <1> QED
    BY <1>1, <1>2, <1>3, <1>4

\* The inner loop after a call: it ends, or has an attempt left.
InnerGoesOn ==
  \/ pc' = "after" /\ skip' \in BOOLEAN /\ resp' \in Nat /\ UNCHANGED <<num, k>>
  \/ pc' = "wait" /\ 429 \in UpstreamStatuses /\ UNCHANGED <<skip, resp, num, k>>
  \/ pc' = "fetch" /\ num <= cfg.attempts /\ num' = num + 1 /\ k' = num /\ UNCHANGED <<skip, resp>>

LEMMA InnerStep ==
  ASSUME TargetInv, UNCHANGED Target!requestFixed, pc \in {"fetch", "wait"},
         calls' = made + num, budget' \in 0 .. RetryLimit,
         errs' \in Seq(UpstreamStatuses \cup Target!Thrown \cup {408}),
         InnerGoesOn
  PROVE  TargetInv'
  <1> USE TargetBounds
  <1>1. made \in Nat /\ num \in Nat /\ k \in Nat /\ calls \in Nat
    BY DEF TargetInv, Target!TypeOK
  <1>2. calls' \in Nat /\ calls <= calls'
    BY <1>1 DEF TargetInv, Passes
  <1>3. judged' \subseteq [call : 1 .. calls', verdict : {"pass", "fail", "deny"}]
    <2>1. judged' = judged /\ judged \subseteq
            [call : 1 .. calls, verdict : {"pass", "fail", "deny"}]
      BY DEF TargetInv, Target!TypeOK, Target!requestFixed
    <2>2. 1 .. calls \subseteq 1 .. calls'
      BY <1>1, <1>2
    <2> QED
      BY <2>1, <2>2
  <1>4. answer' = Target!NoAnswer
    BY DEF TargetInv, Unjudged, Target!requestFixed
  <1>5. answer' \in [status : Nat, body : 0 .. calls', json : BOOLEAN,
                     retry : {-1} \cup Nat, exception : BOOLEAN]
    BY <1>2, <1>4 DEF Target!NoAnswer
  <1>6. /\ num' \in 1 .. (MaxRetries + 1) /\ k' \in 0 .. MaxRetries
        /\ resp' \in Nat /\ skip' \in BOOLEAN
    <2>1. num \in 1 .. (MaxRetries + 1) /\ k \in 0 .. MaxRetries
      BY DEF TargetInv, Target!TypeOK
    <2>2. cfg.attempts \in 0 .. MaxRetries
      BY TargetConfig DEF TargetInv
    <2>3. num' \in 1 .. (MaxRetries + 1) /\ k' \in 0 .. MaxRetries
      BY <2>1, <2>2 DEF InnerGoesOn
    <2>4. resp' \in Nat /\ skip' \in BOOLEAN
      BY DEF TargetInv, Target!TypeOK, InnerGoesOn
    <2> QED
      BY <2>3, <2>4
  <1>7. UNCHANGED <<cfg, beforeFailed, made>> /\ pc' \in {"after", "wait", "fetch"}
    BY DEF Target!requestFixed, InnerGoesOn
  <1>8. Target!TypeOK'
    BY <1>2, <1>3, <1>5, <1>6, <1>7 DEF TargetInv, Target!TypeOK
  <1>9. Passes'
    BY <1>1, <1>7, TargetConfig DEF TargetInv, Passes, InnerGoesOn
  <1>10. Unjudged' /\ SkipEnds' /\ WaitsFor429'
    BY <1>4, <1>7 DEF TargetInv, Unjudged, SkipEnds, WaitsFor429, InnerGoesOn, Target!requestFixed
  <1> QED
    BY <1>7, <1>8, <1>9, <1>10 DEF TargetInv, Target!AnswerIsJudged

\* What the inner loop records and what it ends with are statuses.
LEMMA AppendIsSeq ==
  ASSUME TargetInv, NEW e \in UpstreamStatuses \cup Target!Thrown \cup {408}
  PROVE  /\ Append(errs, e) \in Seq(UpstreamStatuses \cup Target!Thrown \cup {408})
         /\ Append(errs, e) # << >>
  BY AppendProperties DEF TargetInv, Target!TypeOK

LEMMA StatusIsNat ==
  ASSUME NEW e \in UpstreamStatuses \cup Target!Thrown \cup {408}
  PROVE  Target!StatusOf(e) \in Nat
  <1>1. e \in Nat
    BY TargetAssumption DEF Target!Thrown, Target!ConnectTimeout, Target!NetworkError
  <1> QED
    BY <1>1 DEF Target!StatusOf

LEMMA MainErrorIsRecorded ==
  ASSUME NEW S, NEW es \in Seq(S), es # << >>, NEW m \in Target!MainErrors(es)
  PROVE  m \in S
  <1>1. Len(es) \in DOMAIN es
    BY EmptySeq, LenProperties
  <1>2. PICK i \in DOMAIN es : m = es[i]
    BY <1>1 DEF Target!MainErrors
  <1> QED
    BY <1>2, ElementOfSeq, LenProperties

LEMMA FailedStep ==
  ASSUME TargetInv, NEW e \in UpstreamStatuses \cup Target!Thrown \cup {408},
         NEW noBackoff \in BOOLEAN, Target!AttemptFailed(e, noBackoff),
         skip' \in BOOLEAN, noBackoff \/ skip' = skip
  PROVE  /\ errs' \in Seq(UpstreamStatuses \cup Target!Thrown \cup {408})
         /\ InnerGoesOn
  <1> DEFINE S == UpstreamStatuses \cup Target!Thrown \cup {408}
  <1>1. errs' \in Seq(S) /\ errs' # << >>
    BY AppendIsSeq DEF Target!AttemptFailed
  <1>2. \A m \in Target!MainErrors(errs') : Target!StatusOf(m) \in Nat
    BY <1>1, MainErrorIsRecorded, StatusIsNat
  <1>3. Target!StatusOf(e) \in Nat
    BY StatusIsNat
  <1>4. num \in Nat /\ cfg.attempts \in Nat
    BY TargetConfig DEF TargetInv, Target!TypeOK
  <1>5. InnerGoesOn
    <2>1. CASE num >= cfg.attempts + 1
      <3>1. pc' = "after" /\ resp' \in Nat /\ UNCHANGED <<num, k>>
        BY <1>3, <2>1 DEF Target!AttemptFailed, Target!EndRetries
      <3> QED
        BY <3>1 DEF InnerGoesOn
    <2>2. CASE ~(num >= cfg.attempts + 1) /\ noBackoff
      <3>1. pc' = "after" /\ resp' \in Nat /\ UNCHANGED <<num, k>>
        BY <1>2, <2>2 DEF Target!AttemptFailed, Target!EndRetries
      <3> QED
        BY <3>1 DEF InnerGoesOn
    <2>3. CASE ~(num >= cfg.attempts + 1) /\ ~noBackoff
      <3>1. num <= cfg.attempts
        BY <1>4, <2>3
      <3>2. pc' = "fetch" /\ num' = num + 1 /\ k' = num /\ UNCHANGED <<skip, resp>>
        BY <2>3 DEF Target!AttemptFailed
      <3> QED
        BY <3>1, <3>2 DEF InnerGoesOn
    <2> QED
      BY <2>1, <2>2, <2>3
  <1> QED
    BY <1>1, <1>5

\* The attempts.
LEMMA TargetFetch ==
  ASSUME TargetInv,
         \/ Target!FetchRedirect \/ Target!FetchAnswered \/ Target!FetchRetriable
         \/ Target!FetchRetryAfter \/ Target!RetryAfterElapsed
  PROVE  TargetInv'
  <1> USE TargetBounds
  <1> DEFINE S == UpstreamStatuses \cup Target!Thrown \cup {408}
  <1>1. /\ made \in Nat /\ num \in Nat /\ calls \in Nat /\ k = num - 1
        /\ pc = "fetch" => calls = made + k
        /\ pc = "wait" => calls = made + num
    BY DEF TargetInv, Target!TypeOK, Passes
  <1>2. errs \in Seq(S) /\ budget \in 0 .. RetryLimit /\ skip \in BOOLEAN
    BY DEF TargetInv, Target!TypeOK
  <1>3. CASE Target!FetchRedirect
    <2>1. pc = "fetch" /\ calls' = made + num /\ UNCHANGED <<Target!requestFixed, budget, errs>>
      BY <1>1, <1>3 DEF Target!FetchRedirect
    <2>2. InnerGoesOn
      BY <1>3 DEF Target!FetchRedirect, Target!EndRetries, InnerGoesOn
    <2> QED
      BY <1>2, <2>1, <2>2, InnerStep
  <1>4. CASE Target!FetchAnswered
    <2>1. pc = "fetch" /\ calls' = made + num /\ UNCHANGED <<Target!requestFixed, budget, errs>>
      BY <1>1, <1>4 DEF Target!FetchAnswered
    <2>2. PICK s \in UpstreamStatuses \cup {408} : Target!EndRetries(s)
      BY <1>4 DEF Target!FetchAnswered
    <2>3. s \in Nat
      BY TargetAssumption
    <2>4. skip' = skip /\ UNCHANGED <<num, k>>
      BY <1>4 DEF Target!FetchAnswered
    <2>5. InnerGoesOn
      BY <1>2, <2>2, <2>3, <2>4 DEF Target!EndRetries, InnerGoesOn
    <2> QED
      BY <1>2, <2>1, <2>5, InnerStep
  <1>5. CASE Target!FetchRetriable
    <2>1. pc = "fetch" /\ calls' = made + num /\ UNCHANGED <<Target!requestFixed, budget, skip>>
      BY <1>1, <1>5 DEF Target!FetchRetriable
    <2>2. PICK e \in S : Target!AttemptFailed(e, FALSE)
      BY <1>5 DEF Target!FetchRetriable
    <2>3. errs' \in Seq(S) /\ InnerGoesOn
      BY <1>2, <2>1, <2>2, FailedStep
    <2> QED
      BY <1>2, <2>1, <2>3, InnerStep
  <1>6. CASE Target!FetchRetryAfter
    <2>1. pc = "fetch" /\ calls' = made + num /\ UNCHANGED Target!requestFixed
      BY <1>1, <1>6 DEF Target!FetchRetryAfter
    <2>2. 429 \in UpstreamStatuses /\ 429 \in S
      BY <1>6 DEF Target!FetchRetryAfter
    <2>3. \/ skip' = TRUE /\ Target!AttemptFailed(429, TRUE) /\ UNCHANGED budget
          \/ /\ budget' \in 0 .. RetryLimit /\ pc' = "wait"
             /\ UNCHANGED <<skip, errs, num, k, resp>>
      <3>1. PICK after \in 1 .. RetryLimit :
              IF after >= RetryLimit \/ after > budget
                THEN skip' = TRUE /\ Target!AttemptFailed(429, TRUE) /\ UNCHANGED budget
                ELSE budget' = budget - after /\ pc' = "wait"
                     /\ UNCHANGED <<skip, errs, num, k, resp>>
        BY <1>6 DEF Target!FetchRetryAfter
      <3>2. CASE after >= RetryLimit \/ after > budget
        BY <3>1, <3>2
      <3>3. CASE ~(after >= RetryLimit \/ after > budget)
        <4>1. budget - after \in 0 .. RetryLimit
          BY <1>2, <3>3
        <4> QED
          BY <3>1, <3>3, <4>1
      <3> QED
        BY <3>2, <3>3
    <2>4. CASE skip' = TRUE /\ Target!AttemptFailed(429, TRUE) /\ UNCHANGED budget
      <3>1. errs' \in Seq(S) /\ InnerGoesOn
        BY <2>2, <2>4, FailedStep
      <3> QED
        BY <1>2, <2>1, <2>4, <3>1, InnerStep
    <2>5. CASE /\ budget' \in 0 .. RetryLimit /\ pc' = "wait"
               /\ UNCHANGED <<skip, errs, num, k, resp>>
      <3>1. errs' \in Seq(S) /\ InnerGoesOn
        BY <1>2, <2>2, <2>5 DEF InnerGoesOn
      <3> QED
        BY <2>1, <2>5, <3>1, InnerStep
    <2> QED
      BY <2>3, <2>4, <2>5
  <1>7. CASE Target!RetryAfterElapsed
    <2>1. pc = "wait" /\ calls' = made + num /\ UNCHANGED <<Target!requestFixed, budget, skip>>
      BY <1>1, <1>7 DEF Target!RetryAfterElapsed
    <2>2. PICK e \in S : Target!AttemptFailed(e, FALSE)
      <3>1. 429 \in S
        BY <2>1 DEF TargetInv, WaitsFor429
      <3> QED
        BY <1>7, <3>1 DEF Target!RetryAfterElapsed
    <2>3. FALSE \in BOOLEAN /\ skip' = skip /\ skip' \in BOOLEAN
      BY <1>2, <2>1
    <2>4. errs' \in Seq(S) /\ InnerGoesOn
      BY <1>2, <2>1, <2>2, <2>3, FailedStep
    <2> QED
      BY <1>2, <2>1, <2>4, InnerStep
  <1> QED
    BY <1>3, <1>4, <1>5, <1>6, <1>7

LEMMA TargetStutter ==
  ASSUME TargetInv, UNCHANGED <<cfg, pc, beforeFailed, Target!retryVars, answer>>
  PROVE  TargetInv'
  BY DEF TargetInv, Target!TypeOK, Passes, Unjudged, SkipEnds, WaitsFor429,
         Target!AnswerIsJudged, Target!retryVars

-----------------------------------------------------------------------------
\* The end of a pass.
LEMMA StatusAfterHooks ==
  ASSUME Target!TypeOK, NEW json, NEW verdict
  PROVE  /\ Target!HookedStatus(json, verdict) \in Nat
         /\ Target!HookedBody(json, verdict) \in 0 .. calls
  BY DEF Target!TypeOK, Target!HookedStatus, Target!HookedBody

LEMMA JudgedAfterPass ==
  ASSUME TargetInv, pc = "after", NEW verdict \in {"pass", "fail", "deny", "skipped"}
  PROVE  /\ Target!JudgedAfter(verdict) \subseteq
              [call : 1 .. calls, verdict : {"pass", "fail", "deny"}]
         /\ Target!JudgedAfter(verdict) =
              IF verdict = "skipped" THEN {} ELSE {[call |-> calls, verdict |-> verdict]}
  <1>1. calls \in Nat /\ calls >= 1 /\ (made = 0 => judged = {}) /\ made \in Nat
    BY DEF TargetInv, Target!TypeOK, Passes, Unjudged
  <1>2. Target!JudgedAfter(verdict) =
              IF verdict = "skipped" THEN {} ELSE {[call |-> calls, verdict |-> verdict]}
    <2>1. (IF made > 0 THEN {} ELSE judged) = {}
      BY <1>1
    <2> QED
      BY <2>1 DEF Target!JudgedAfter
  <1>3. CASE verdict = "skipped"
    BY <1>2, <1>3
  <1>4. CASE verdict # "skipped"
    <2>1. [call |-> calls, verdict |-> verdict] \in
            [call : 1 .. calls, verdict : {"pass", "fail", "deny"}]
      BY <1>1, <1>4
    <2> QED
      BY <1>2, <1>4, <2>1
  <1> QED
    BY <1>3, <1>4

LEMMA TargetAfter ==
  ASSUME TargetInv, Target!AfterHooks
  PROVE  TargetInv'
  <1> USE TargetBounds
  <1>1. PICK json \in Target!JsonRead,
             verdict \in IF resp = 200 THEN {"pass", "fail", "deny"} ELSE {"skipped"} :
          /\ judged' = Target!JudgedAfter(verdict)
          /\ IF Target!RetriesLeft /\ Target!HookedStatus(json, verdict) \in cfg.codes
               THEN Target!RetryAgain
               ELSE Target!Finish(Target!HookedStatus(json, verdict),
                                  Target!HookedBody(json, verdict), json)
    BY DEF Target!AfterHooks
  <1>2. pc = "after" /\ UNCHANGED <<cfg, beforeFailed, calls>>
    BY DEF Target!AfterHooks
  <1>3. verdict \in {"pass", "fail", "deny", "skipped"} /\ (resp = 200 <=> verdict # "skipped")
    BY <1>1
  <1>4. json \in BOOLEAN
    BY <1>1 DEF Target!JsonRead
  <1>5. /\ judged' \subseteq [call : 1 .. calls', verdict : {"pass", "fail", "deny"}]
        /\ judged' = IF verdict = "skipped" THEN {} ELSE {[call |-> calls, verdict |-> verdict]}
    BY <1>1, <1>2, <1>3, JudgedAfterPass
  <1>6. /\ made \in Nat /\ k \in Nat /\ num \in Nat /\ calls \in Nat /\ cfg.attempts \in Nat
        /\ cfg.attempts <= MaxRetries /\ k = num - 1 /\ calls = made + num
        /\ made <= cfg.attempts /\ num <= cfg.attempts + 1
    BY <1>2, TargetConfig DEF TargetInv, Target!TypeOK, Passes
  <1>7. CASE Target!RetriesLeft /\ Target!RetryAgain
    <2>1. /\ pc' = "fetch" /\ made' = k + 1 + made /\ num' = 1 /\ k' = 0 /\ errs' = << >>
          /\ budget' = RetryLimit /\ skip' = FALSE /\ resp' = 0 /\ answer' = answer
      BY <1>7 DEF Target!RetryAgain
    <2>2. made' \in Nat /\ made' <= cfg.attempts /\ calls = made' /\ made' # 0
      BY <1>6, <1>7, <2>1 DEF Target!RetriesLeft, Target!remainingRetryCount
    <2>3. errs' \in Seq(UpstreamStatuses \cup Target!Thrown \cup {408})
      BY <2>1, EmptySeq
    <2>4. answer' = Target!NoAnswer
      BY <1>2, <2>1 DEF TargetInv, Unjudged
    <2>5. answer' \in [status : Nat, body : 0 .. calls', json : BOOLEAN,
                       retry : {-1} \cup Nat, exception : BOOLEAN]
      BY <1>2, <1>6, <2>4 DEF Target!NoAnswer
    <2>6. /\ made' \in 0 .. MaxRetries /\ k' \in 0 .. MaxRetries /\ num' \in 1 .. (MaxRetries + 1)
          /\ budget' \in 0 .. RetryLimit
      BY <1>6, <2>1, <2>2
    <2>7. Target!TypeOK'
      BY <1>2, <1>5, <2>1, <2>3, <2>5, <2>6 DEF TargetInv, Target!TypeOK
    <2>8. Passes'
      BY <1>2, <1>6, <2>1, <2>2 DEF Passes
    <2>9. Unjudged' /\ SkipEnds' /\ WaitsFor429'
      BY <2>1, <2>2, <2>4 DEF Unjudged, SkipEnds, WaitsFor429
    <2> QED
      BY <2>1, <2>7, <2>8, <2>9 DEF TargetInv, Target!AnswerIsJudged
  <1>8. CASE Target!Finish(Target!HookedStatus(json, verdict),
                           Target!HookedBody(json, verdict), json)
    <2> DEFINE st == Target!HookedStatus(json, verdict)
               bd == Target!HookedBody(json, verdict)
    <2>1. st \in Nat /\ bd \in 0 .. calls
      BY StatusAfterHooks DEF TargetInv
    <2>2. /\ pc' = "done" /\ UNCHANGED <<made, num, k, errs, budget, skip, resp>>
          /\ answer' = [status |-> st, body |-> bd, json |-> json, exception |-> FALSE,
                        retry |-> IF skip \/ (k + made = cfg.attempts /\ st \in cfg.codes)
                                  THEN -1 ELSE k + made]
      BY <1>8 DEF Target!Finish
    <2>3. answer' \in [status : Nat, body : 0 .. calls', json : BOOLEAN,
                       retry : {-1} \cup Nat, exception : BOOLEAN]
      <3>1. k + made \in {-1} \cup Nat
        BY <1>6
      <3> QED
        BY <1>2, <1>4, <2>1, <2>2, <3>1
    <2>4. Target!TypeOK'
      BY <1>2, <1>5, <2>2, <2>3 DEF TargetInv, Target!TypeOK
    <2>5. Passes'
      BY <1>2, <1>6, <2>2 DEF Passes
    <2>6. Unjudged' /\ SkipEnds' /\ WaitsFor429'
      BY <2>2 DEF Unjudged, SkipEnds, WaitsFor429
    <2>7. Target!AnswerIsJudged'
      <3>1. SUFFICES ASSUME answer'.body # 0
                     PROVE  /\ answer'.body = calls'
                            /\ \A r \in judged' :
                                 r.call = calls' /\ (r.verdict = "deny" => ~answer'.json)
                            /\ answer'.status = 200 =>
                                 /\ judged' = {[call |-> calls', verdict |-> "pass"]}
                                 /\ ~beforeFailed'
        BY DEF Target!AnswerIsJudged
      <3>2. bd = calls /\ ~(json /\ verdict = "deny")
        BY <2>2, <3>1 DEF Target!HookedBody
      <3>3. st = 200 => verdict = "pass" /\ ~beforeFailed
        BY <1>3, <3>2 DEF Target!HookedStatus
      <3>4. \A r \in judged' : r.call = calls' /\ (r.verdict = "deny" => ~json)
        BY <1>2, <1>5, <3>2
      <3>5. st = 200 => judged' = {[call |-> calls', verdict |-> "pass"]} /\ ~beforeFailed'
        BY <1>2, <1>5, <3>3
      <3> QED
        BY <1>2, <2>2, <3>2, <3>4, <3>5
    <2> QED
      BY <2>4, <2>5, <2>6, <2>7 DEF TargetInv
  <1> QED
    BY <1>1, <1>7, <1>8

LEMMA TargetInitially == Target!Init => TargetInv
  <1> SUFFICES ASSUME Target!Init  PROVE TargetInv
    OBVIOUS
  <1> USE TargetBounds
  <1>1. cfg \in Target!Configs /\ cfg.attempts \in Nat
    <2>1. cfg.attempts \in 0 .. MaxRetries
      BY DEF Target!Init, Target!Configs
    <2> QED
      BY <2>1 DEF Target!Init
  <1>2. errs \in Seq(UpstreamStatuses \cup Target!Thrown \cup {408})
    BY EmptySeq DEF Target!Init
  <1>3. answer \in [status : Nat, body : 0 .. calls, json : BOOLEAN,
                    retry : {-1} \cup Nat, exception : BOOLEAN]
    BY DEF Target!Init, Target!NoAnswer
  <1>4. Target!TypeOK
    <2>1. made \in 0 .. MaxRetries /\ k \in 0 .. MaxRetries /\ num \in 1 .. (MaxRetries + 1)
      BY DEF Target!Init
    <2>2. budget \in 0 .. RetryLimit /\ calls \in Nat /\ resp \in Nat
      BY DEF Target!Init
    <2>3. pc = "gate" /\ beforeFailed = FALSE /\ skip = FALSE /\ judged = {}
      BY DEF Target!Init
    <2> QED
      BY <1>1, <1>2, <1>3, <2>1, <2>2, <2>3 DEF Target!TypeOK
  <1>5. Passes /\ Unjudged /\ SkipEnds /\ WaitsFor429
    BY <1>1 DEF Target!Init, Passes, Unjudged, SkipEnds, WaitsFor429
  <1> QED
    BY <1>4, <1>5 DEF Target!Init, TargetInv, Target!AnswerIsJudged

LEMMA TargetStep == TargetInv /\ Target!Next => TargetInv'
  <1> SUFFICES ASSUME TargetInv, Target!Next  PROVE TargetInv'
    OBVIOUS
  <1>1. CASE Target!Gate \/ Target!BeforeHooks \/ Target!Cache \/ Target!PreRequestValidator
    BY <1>1, TargetBefore
  <1>2. CASE \/ Target!FetchRedirect \/ Target!FetchAnswered \/ Target!FetchRetriable
             \/ Target!FetchRetryAfter \/ Target!RetryAfterElapsed
    BY <1>2, TargetFetch
  <1>3. CASE Target!AfterHooks
    BY <1>3, TargetAfter
  <1>4. CASE Target!ResponseUnreadable
    <2>1. pc # "done" /\ UNCHANGED <<cfg, beforeFailed, Target!retryVars>>
      BY <1>4 DEF Target!ResponseUnreadable
    <2>2. pc' = "done" /\ answer' \in OwnAnswers
      BY <1>4, ThrowIsOwn DEF Target!ResponseUnreadable
    <2>3. beforeFailed' \in BOOLEAN
      BY <2>1 DEF TargetInv, Target!TypeOK
    <2> QED
      BY <2>1, <2>2, <2>3, OwnAnswer
  <1>5. CASE Target!Answered
    BY <1>5, TargetStutter DEF Target!Answered, Target!vars, Target!retryVars
  <1> QED
    BY <1>1, <1>2, <1>3, <1>4, <1>5 DEF Target!Next

\* A step that the retrying has ended before.
LEMMA SkipEndsTheCalls ==
  ASSUME TargetInv, Target!Next
  PROVE  Target!SkipStep
  <1> SUFFICES ASSUME skip  PROVE pc' \notin {"fetch", "wait"}
    BY DEF Target!SkipStep
  <1>1. pc \in {"after", "done"}
    BY DEF TargetInv, SkipEnds
  <1>2. CASE Target!AfterHooks
    <2>1. ~Target!RetriesLeft
      BY DEF Target!RetriesLeft
    <2> QED
      BY <1>2, <2>1 DEF Target!AfterHooks, Target!Finish
  <1>3. CASE Target!ResponseUnreadable
    BY <1>3 DEF Target!ResponseUnreadable, Target!Throw
  <1>4. CASE Target!Answered
    BY <1>1, <1>4 DEF Target!Answered, Target!vars
  <1> QED
    BY <1>1, <1>2, <1>3, <1>4
       DEF Target!Next, Target!Gate, Target!BeforeHooks, Target!Cache, Target!PreRequestValidator,
           Target!FetchRedirect, Target!FetchAnswered, Target!FetchRetriable,
           Target!FetchRetryAfter, Target!RetryAfterElapsed

LEMMA TargetIsSafe == TargetInv => Target!TypeOK /\ Target!CallsAreBounded /\ Target!AnswerIsJudged
  <1> SUFFICES ASSUME TargetInv  PROVE Target!CallsAreBounded
    BY DEF TargetInv
  <1>1. /\ made \in Nat /\ num \in Nat /\ cfg.attempts \in Nat
        /\ pc \in {"gate", "before", "cache", "validate", "fetch", "wait", "after", "done"}
    BY TargetConfig DEF TargetInv, Target!TypeOK
  <1> QED
    BY <1>1 DEF TargetInv, Passes, Target!CallsAreBounded

-----------------------------------------------------------------------------
\* TokenCaches.

\* What can be asked for and handed out.
Roles == {r \in cfg.requests : r[1] = "aws"}
Wants == {r[2] : r \in cfg.requests} \cup {SubSeq(r[2], 1, 2) : r \in Roles}
Toks == [kind : Tokens!Kinds, for : Wants]
Entry == [key : Wants, tok : Toks, keep : Nat, left : Nat]
UserState ==
  [pc : {"idle", "lookup", "join", "waiting", "done"},
   kind : Tokens!Kinds \cup {None}, want : Wants \cup {None},
   by : Tokens!Users \cup {None}, tok : Toks \cup {None}, live : BOOLEAN]
Exchange ==
  [pc : {"none", "chain", "sent"}, kind : Tokens!Kinds \cup {None},
   want : Wants \cup {None}, tries : {0, 1}, via : Toks \cup {None}, viaLive : BOOLEAN]

TokenTypes ==
  /\ cfg \in Settings
  /\ cache \in [Tokens!Kinds -> Seq(Entry)]
  /\ inflight \subseteq [kind : Tokens!Kinds, key : Wants, by : Tokens!Users]
  /\ user \in [Tokens!Users -> UserState]
  /\ job \in [Tokens!Users -> Exchange]

\* The entries of a cache: each holds the token of its own key and is given up
\* before the token is, and no two have the same key.
Proper(s, kind) ==
  /\ s \in Seq(Entry)
  /\ \A i \in DOMAIN s : /\ s[i].tok = [kind |-> kind, for |-> s[i].key]
                         /\ s[i].keep <= s[i].left
  /\ \A i, j \in DOMAIN s : s[i].key = s[j].key => i = j

Caches ==
  /\ \A kind \in Tokens!Kinds : Proper(cache[kind], kind)
  /\ \A kind \in {"oauth", "aws", "vertex"} : Len(cache[kind]) <= MaxTokens

\* The exchanges in flight are those that run, at most one of a key.
Flights ==
  /\ \A f \in inflight :
       job[f.by].pc # "none" /\ f.kind = job[f.by].kind /\ f.key = job[f.by].want
  /\ \A u \in Tokens!Users : job[u].pc # "none" => \E f \in inflight : f.by = u
  /\ \A u, v \in Tokens!Users :
       /\ job[u].pc # "none" /\ job[v].pc # "none"
       /\ job[u].kind = job[v].kind /\ job[u].want = job[v].want
       => u = v

\* Who waits waits for a running exchange of what it asked for, and whoever
\* started one waits for it.
Waits ==
  \A u \in Tokens!Users :
    /\ user[u].pc \in {"lookup", "join", "waiting"} =>
         /\ user[u].kind \in Tokens!Kinds /\ user[u].want \in Wants
         /\ user[u].kind = "aws" => SubSeq(user[u].want, 1, 2) \in Wants
    /\ user[u].pc = "join" => user[u].kind = "vertex"
    /\ user[u].pc = "waiting" =>
         /\ user[u].by \in Tokens!Users /\ job[user[u].by].pc # "none"
         /\ job[user[u].by].kind = user[u].kind /\ job[user[u].by].want = user[u].want
    /\ job[u].pc # "none" => user[u].pc = "waiting" /\ user[u].by = u

\* The oauth request of an aws exchange asks for the credential of the role,
\* and runs while the exchange is at that step only.
Chains ==
  \A c \in Callers :
    LET a == <<c, "call">>  h == <<c, "chain">> IN
    /\ job[h].pc # "chain"
    /\ user[h].pc # "idle" => user[h].kind = "oauth"
    /\ job[a].pc = "chain" =>
         /\ job[a].kind = "aws"
         /\ user[h].pc # "idle" /\ user[h].want = SubSeq(job[a].want, 1, 2)
    /\ job[a].pc # "chain" => user[h].pc \in {"idle", "done"}

\* While an exchange of one of the caches that do not look before they store
\* runs, its key is not cached.
Uncached ==
  \A u \in Tokens!Users :
    job[u].pc # "none" /\ job[u].kind \in {"oauth", "aws"} =>
      \A i \in DOMAIN cache[job[u].kind] : cache[job[u].kind][i].key # job[u].want

\* What was handed out.
HandedOut ==
  /\ \A u \in Tokens!Users : user[u].tok # None =>
       /\ user[u].tok = [kind |-> user[u].kind, for |-> user[u].want]
       /\ user[u].live
  /\ \A u \in Tokens!Users : job[u].via # None =>
       job[u].via.for = SubSeq(job[u].want, 1, 2) /\ job[u].viaLive
  /\ \A u \in Tokens!Users : job[u].pc = "sent" => (job[u].via # None <=> job[u].kind = "aws")

TokenInv ==
  TokenTypes /\ Caches /\ Flights /\ Waits /\ Chains /\ Uncached /\ HandedOut

LEMMA ProperRemoved ==
  ASSUME NEW kind, NEW s, Proper(s, kind), NEW i \in DOMAIN s
  PROVE  /\ Proper(Tokens!RemoveAt(s, i), kind)
         /\ Len(Tokens!RemoveAt(s, i)) = Len(s) - 1
         /\ \A j \in DOMAIN Tokens!RemoveAt(s, i) :
              /\ Tokens!RemoveAt(s, i)[j].key # s[i].key
              /\ \E l \in DOMAIN s : Tokens!RemoveAt(s, i)[j] = s[l]
  <1> DEFINE front == SubSeq(s, 1, i - 1)
             back == SubSeq(s, i + 1, Len(s))
             r == Tokens!RemoveAt(s, i)
  <1>1. s \in Seq(Entry) /\ Len(s) \in Nat /\ DOMAIN s = 1 .. Len(s) /\ i \in 1 .. Len(s)
    BY LenProperties DEF Proper
  <1>2. /\ front \in Seq(Entry) /\ Len(front) = i - 1
        /\ \A j \in 1 .. (i - 1) : front[j] = s[j]
    <2>1. \A j \in 1 .. (i - 1) : s[j] \in Entry
      BY <1>1, ElementOfSeq
    <2> QED
      BY <1>1, <2>1, SubSeqProperties
  <1>3. /\ back \in Seq(Entry) /\ Len(back) = Len(s) - i
        /\ \A j \in 1 .. (Len(s) - i) : back[j] = s[i + j]
    <2>1. \A j \in (i + 1) .. Len(s) : s[j] \in Entry
      BY <1>1, ElementOfSeq
    <2>2. /\ back \in Seq(Entry) /\ Len(back) = IF i + 1 <= Len(s) THEN Len(s) - (i + 1) + 1 ELSE 0
          /\ \A j \in 1 .. (Len(s) - (i + 1) + 1) : back[j] = s[i + 1 + j - 1]
      BY <1>1, <2>1, SubSeqProperties
    <2> QED
      BY <1>1, <2>2
  <1> HIDE DEF front, back
  <1>4. r = front \o back
    BY DEF Tokens!RemoveAt, front, back
  <1> HIDE DEF r
  <1>5. /\ r \in Seq(Entry) /\ Len(r) = Len(s) - 1 /\ DOMAIN r = 1 .. (Len(s) - 1)
        /\ \A j \in 1 .. (Len(s) - 1) : r[j] = IF j <= i - 1 THEN front[j] ELSE back[j - (i - 1)]
    <2>1. /\ r \in Seq(Entry) /\ Len(r) = Len(front) + Len(back)
          /\ \A j \in 1 .. (Len(front) + Len(back)) :
               r[j] = IF j <= Len(front) THEN front[j] ELSE back[j - Len(front)]
      BY <1>2, <1>3, <1>4, ConcatProperties
    <2>2. Len(front) + Len(back) = Len(s) - 1
      BY <1>1, <1>2, <1>3
    <2>3. DOMAIN r = 1 .. Len(r)
      BY <2>1, LenProperties
    <2> QED
      BY <1>2, <2>1, <2>2, <2>3
  <1>6. \A j \in 1 .. (Len(s) - 1) : r[j] = s[IF j < i THEN j ELSE j + 1]
    <2> SUFFICES ASSUME NEW j \in 1 .. (Len(s) - 1)
                 PROVE  r[j] = s[IF j < i THEN j ELSE j + 1]
      OBVIOUS
    <2>1. CASE j < i
      BY <1>1, <1>2, <1>5, <2>1
    <2>2. CASE ~(j < i)
      <3>1. j - (i - 1) \in 1 .. (Len(s) - i) /\ i + (j - (i - 1)) = j + 1
        BY <1>1, <2>2
      <3>2. r[j] = back[j - (i - 1)]
        BY <1>1, <1>5, <2>2
      <3> QED
        BY <1>3, <2>2, <3>1, <3>2
    <2> QED
      BY <2>1, <2>2
  <1>7. \A j \in DOMAIN r : \E l \in DOMAIN s : r[j] = s[l] /\ l = (IF j < i THEN j ELSE j + 1)
    BY <1>1, <1>5, <1>6
  <1> DEFINE at(j) == IF j < i THEN j ELSE j + 1
  <1>11. \A j \in DOMAIN r : at(j) \in DOMAIN s /\ at(j) # i /\ r[j] = s[at(j)]
    BY <1>1, <1>5, <1>6
  <1>12. \A j, l \in DOMAIN r : at(j) = at(l) => j = l
    BY <1>1, <1>5
  <1>13. \A j, l \in DOMAIN s : s[j].key = s[l].key => j = l
    BY DEF Proper
  <1> HIDE DEF at
  <1>8. \A j \in DOMAIN r : r[j].key # s[i].key
    BY <1>1, <1>11, <1>13
  <1>9. \A j, l \in DOMAIN r : r[j].key = r[l].key => j = l
    BY <1>11, <1>12, <1>13
  <1>10. Proper(r, kind)
    BY <1>5, <1>7, <1>9 DEF Proper
  <1> QED
    BY <1>5, <1>7, <1>8, <1>10 DEF r

LEMMA ProperTail ==
  ASSUME NEW kind, NEW s, Proper(s, kind), s # <<>>
  PROVE  /\ Proper(Tail(s), kind) /\ Len(Tail(s)) = Len(s) - 1 /\ Len(s) \in Nat
         /\ \A j \in DOMAIN Tail(s) : \E l \in DOMAIN s : Tail(s)[j] = s[l]
  <1>1. s \in Seq(Entry) /\ Len(s) \in Nat /\ DOMAIN s = 1 .. Len(s)
    BY LenProperties DEF Proper
  <1>2. /\ Tail(s) \in Seq(Entry) /\ Len(Tail(s)) = Len(s) - 1
        /\ \A j \in 1 .. (Len(s) - 1) : Tail(s)[j] = s[j + 1]
    BY <1>1, HeadTailProperties
  <1>3. DOMAIN Tail(s) = 1 .. (Len(s) - 1)
    BY <1>2, LenProperties
  <1>4. \A j \in DOMAIN Tail(s) : j + 1 \in DOMAIN s /\ Tail(s)[j] = s[j + 1]
    BY <1>1, <1>2, <1>3
  <1>5. Proper(Tail(s), kind)
    BY <1>2, <1>3, <1>4 DEF Proper
  <1> QED
    BY <1>1, <1>2, <1>4, <1>5

LEMMA ProperAppend ==
  ASSUME NEW kind, NEW s, Proper(s, kind), NEW e \in Entry,
         e.tok = [kind |-> kind, for |-> e.key], e.keep <= e.left,
         \A i \in DOMAIN s : s[i].key # e.key
  PROVE  /\ Proper(Append(s, e), kind) /\ Len(Append(s, e)) = Len(s) + 1 /\ Len(s) \in Nat
         /\ \A j \in DOMAIN Append(s, e) :
              Append(s, e)[j] = e \/ \E l \in DOMAIN s : Append(s, e)[j] = s[l]
  <1>1. s \in Seq(Entry) /\ Len(s) \in Nat /\ DOMAIN s = 1 .. Len(s)
    BY LenProperties DEF Proper
  <1>2. /\ Append(s, e) \in Seq(Entry) /\ Len(Append(s, e)) = Len(s) + 1
        /\ \A j \in 1 .. Len(s) : Append(s, e)[j] = s[j]
        /\ Append(s, e)[Len(s) + 1] = e
    BY <1>1, AppendProperties
  <1>3. DOMAIN Append(s, e) = 1 .. (Len(s) + 1)
    BY <1>2, LenProperties
  <1>4. \A j \in DOMAIN Append(s, e) :
          \/ j = Len(s) + 1 /\ Append(s, e)[j] = e
          \/ j \in DOMAIN s /\ Append(s, e)[j] = s[j]
    BY <1>1, <1>2, <1>3
  <1>5. \A i, j \in DOMAIN Append(s, e) : Append(s, e)[i].key = Append(s, e)[j].key => i = j
    BY <1>4 DEF Proper
  <1>6. Proper(Append(s, e), kind)
    BY <1>2, <1>4, <1>5 DEF Proper
  <1> QED
    BY <1>1, <1>2, <1>4, <1>6

\* A token is given up before it dies: the skew covers its time under way.
LEMMA KeptIsCovered ==
  ASSUME cfg \in Settings, NEW kind \in Tokens!Kinds,
         NEW life \in cfg.lifetimes \cup {None}, NEW d \in 0 .. Latency
  PROVE  LET l == Tokens!LifetimeOf(kind, life) IN
         /\ l - d \in Nat /\ l - d > 0
         /\ Tokens!KeptFor(kind, l) \in Nat /\ Tokens!KeptFor(kind, l) <= l - d
  <1> DEFINE l == Tokens!LifetimeOf(kind, life)
             skew == Early[kind]
  <1>1. l \in cfg.lifetimes \cup {Lives[kind]}
    BY DEF Tokens!LifetimeOf
  <1>2. /\ Latency \in Nat /\ skew \in Nat /\ Latency <= skew
        /\ l \in Nat /\ Latency < l /\ 2 * Latency <= l
    BY <1>1, TokenAssumption
  <1> HIDE DEF l, skew
  <1>3. l \div 2 \in Nat /\ Latency <= l \div 2 /\ l \div 2 <= l
    BY <1>2
  <1>4. Tokens!KeptFor(kind, l) =
          IF kind \in {"gcp", "vertex"} THEN IF l > skew THEN l - skew ELSE 0
          ELSE l - (IF skew < l \div 2 THEN skew ELSE l \div 2)
    BY DEF Tokens!KeptFor, skew
  <1>5. Tokens!KeptFor(kind, l) \in Nat /\ Tokens!KeptFor(kind, l) <= l - d
    <2>1. CASE kind \in {"gcp", "vertex"}
      BY <1>2, <1>4, <2>1
    <2>2. CASE kind \notin {"gcp", "vertex"}
      BY <1>2, <1>3, <1>4, <2>2
    <2> QED
      BY <2>1, <2>2
  <1> QED
    BY <1>2, <1>5 DEF l

LEMMA WithoutIsProper ==
  ASSUME Caches, NEW kind \in Tokens!Kinds, NEW key
  PROVE  /\ Proper(Tokens!Without(kind, key), kind)
         /\ Len(Tokens!Without(kind, key)) \in Nat
         /\ Len(Tokens!Without(kind, key)) <= Len(cache[kind])
         /\ \A j \in DOMAIN Tokens!Without(kind, key) :
              /\ Tokens!Without(kind, key)[j].key # key
              /\ \E l \in DOMAIN cache[kind] : Tokens!Without(kind, key)[j] = cache[kind][l]
  <1> DEFINE at == CHOOSE i \in Tokens!EntriesOf(kind, key) : TRUE
  <1>1. Proper(cache[kind], kind) /\ Len(cache[kind]) \in Nat
    BY LenProperties DEF Caches, Proper
  <1>2. CASE Tokens!EntriesOf(kind, key) = {}
    <2>1. Tokens!Without(kind, key) = cache[kind]
      BY <1>2 DEF Tokens!Without
    <2>2. \A i \in DOMAIN cache[kind] : cache[kind][i].key # key
      BY <1>2 DEF Tokens!EntriesOf
    <2> QED
      BY <1>1, <2>1, <2>2
  <1>3. CASE Tokens!EntriesOf(kind, key) # {}
    <2>1. at \in Tokens!EntriesOf(kind, key)
      BY <1>3
    <2>2. at \in DOMAIN cache[kind] /\ cache[kind][at].key = key
      BY <2>1 DEF Tokens!EntriesOf
    <2>3. Tokens!Without(kind, key) = Tokens!RemoveAt(cache[kind], at)
      BY <1>3 DEF Tokens!Without
    <2> HIDE DEF at
    <2>4. /\ Proper(Tokens!RemoveAt(cache[kind], at), kind)
          /\ Len(Tokens!RemoveAt(cache[kind], at)) = Len(cache[kind]) - 1
          /\ \A j \in DOMAIN Tokens!RemoveAt(cache[kind], at) :
               /\ Tokens!RemoveAt(cache[kind], at)[j].key # cache[kind][at].key
               /\ \E l \in DOMAIN cache[kind] : Tokens!RemoveAt(cache[kind], at)[j] = cache[kind][l]
      BY <1>1, <2>2, ProperRemoved
    <2>5. Len(Tokens!RemoveAt(cache[kind], at)) \in Nat
      BY <2>4, LenProperties DEF Proper
    <2> QED
      BY <1>1, <2>2, <2>3, <2>4, <2>5
  <1> QED
    BY <1>2, <1>3

LEMMA EvictedIsProper ==
  ASSUME NEW kind, NEW s, Proper(s, kind),
         kind \in {"oauth", "aws", "vertex"} => Len(s) <= MaxTokens
  PROVE  /\ Proper(Tokens!Evicted(kind, s), kind)
         /\ kind \in {"oauth", "aws", "vertex"} => Len(Tokens!Evicted(kind, s)) < MaxTokens
         /\ \A j \in DOMAIN Tokens!Evicted(kind, s) :
              \E l \in DOMAIN s : Tokens!Evicted(kind, s)[j] = s[l]
  <1>1. MaxTokens \in Nat /\ MaxTokens > 0
    BY TokenAssumption
  <1>2. s \in Seq(Entry) /\ Len(s) \in Nat
    BY LenProperties DEF Proper
  <1>3. CASE kind \in {"oauth", "aws", "vertex"} /\ Len(s) >= MaxTokens
    <2>1. s # <<>>
      BY <1>1, <1>2, <1>3, EmptySeq
    <2>2. Tokens!Evicted(kind, s) = Tail(s)
      BY <1>3 DEF Tokens!Evicted
    <2>3. /\ Proper(Tail(s), kind) /\ Len(Tail(s)) = Len(s) - 1
          /\ \A j \in DOMAIN Tail(s) : \E l \in DOMAIN s : Tail(s)[j] = s[l]
      BY <2>1, ProperTail
    <2>4. Len(Tail(s)) < MaxTokens
      BY <1>1, <1>2, <1>3, <2>3
    <2> QED
      BY <2>2, <2>3, <2>4
  <1>4. CASE ~(kind \in {"oauth", "aws", "vertex"} /\ Len(s) >= MaxTokens)
    <2>1. Tokens!Evicted(kind, s) = s
      BY <1>4 DEF Tokens!Evicted
    <2>2. kind \in {"oauth", "aws", "vertex"} => Len(s) < MaxTokens
      BY <1>1, <1>2, <1>4
    <2> QED
      BY <2>1, <2>2
  <1> QED
    BY <1>3, <1>4

LEMMA RunningIsKnown ==
  ASSUME TokenInv, NEW u \in Tokens!Users, job[u].pc # "none"
  PROVE  job[u].kind \in Tokens!Kinds /\ job[u].want \in Wants
  BY DEF TokenInv, Flights, TokenTypes

\* What an answer puts into its cache.
LEMMA StoredIsProper ==
  ASSUME TokenInv, NEW u \in Tokens!Users, job[u].pc = "sent",
         NEW life \in cfg.lifetimes \cup {None}, NEW d \in 0 .. Latency
  PROVE  LET kind == job[u].kind
             l == Tokens!LifetimeOf(kind, life)
             s == Tokens!Stored(kind, Tokens!KeyOf(kind, job[u].want),
                                [kind |-> kind, for |-> job[u].want], l, l - d)
         IN  /\ Proper(s, kind)
             /\ kind \in {"oauth", "aws", "vertex"} => Len(s) <= MaxTokens
             /\ \A j \in DOMAIN s : \/ s[j].key = job[u].want
                                    \/ \E i \in DOMAIN cache[kind] : s[j] = cache[kind][i]
  <1> DEFINE kind == job[u].kind
             key == job[u].want
             tok == [kind |-> kind, for |-> key]
             l == Tokens!LifetimeOf(kind, life)
             keep == Tokens!KeptFor(kind, l)
             entry == [key |-> key, tok |-> tok, keep |-> keep, left |-> l - d]
             room == Tokens!Evicted(kind, Tokens!Without(kind, key))
             s == Tokens!Stored(kind, Tokens!KeyOf(kind, key), tok, l, l - d)
  <1> SUFFICES /\ Proper(s, kind)
               /\ kind \in {"oauth", "aws", "vertex"} => Len(s) <= MaxTokens
               /\ \A j \in DOMAIN s : \/ s[j].key = key
                                      \/ \E i \in DOMAIN cache[kind] : s[j] = cache[kind][i]
    OBVIOUS
  <1>1. kind \in Tokens!Kinds /\ key \in Wants
    BY RunningIsKnown
  <1>2. keep \in Nat /\ l - d \in Nat /\ keep <= l - d
    <2>1. cfg \in Settings
      BY DEF TokenInv, TokenTypes
    <2> HIDE DEF kind
    <2> QED
      BY <1>1, <2>1, KeptIsCovered
  <1>3. entry \in Entry /\ entry.key = key /\ entry.tok = tok /\ entry.keep <= entry.left
    <2>1. tok \in Toks
      BY <1>1 DEF Toks
    <2> HIDE DEF tok, keep, l, key
    <2> QED
      BY <1>1, <1>2, <2>1 DEF Entry
  <1>4. s = CASE kind = "gcp"    -> <<entry>>
             [] kind = "vertex" -> IF keep <= 0 THEN cache[kind] ELSE Append(room, entry)
             [] kind = "vendor" -> Append(Tokens!Without(kind, key), entry)
             [] OTHER           -> Append(Tokens!Evicted(kind, cache[kind]), entry)
    BY DEF Tokens!Stored, Tokens!KeyOf
  <1> HIDE DEF s, entry, keep, l, kind, key
  <1>5. /\ Proper(cache[kind], kind)
        /\ kind \in {"oauth", "aws", "vertex"} => Len(cache[kind]) <= MaxTokens
    BY <1>1 DEF TokenInv, Caches
  <1>6. /\ Proper(Tokens!Without(kind, key), kind)
        /\ Len(Tokens!Without(kind, key)) \in Nat
        /\ Len(Tokens!Without(kind, key)) <= Len(cache[kind])
        /\ \A j \in DOMAIN Tokens!Without(kind, key) :
             /\ Tokens!Without(kind, key)[j].key # key
             /\ \E i \in DOMAIN cache[kind] : Tokens!Without(kind, key)[j] = cache[kind][i]
    <2>1. Caches
      BY DEF TokenInv
    <2> QED
      BY <1>1, <2>1, WithoutIsProper
  <1>7. MaxTokens \in Nat /\ Len(cache[kind]) \in Nat
    BY <1>5, TokenAssumption, LenProperties DEF Proper
  \* Appended to a cache in which the key is not.
  <1>8. ASSUME NEW t, Proper(t, kind), \A i \in DOMAIN t : t[i].key # key,
               kind \in {"oauth", "aws", "vertex"} => Len(t) < MaxTokens,
               \A j \in DOMAIN t : \E i \in DOMAIN cache[kind] : t[j] = cache[kind][i]
        PROVE  /\ Proper(Append(t, entry), kind)
               /\ kind \in {"oauth", "aws", "vertex"} => Len(Append(t, entry)) <= MaxTokens
               /\ \A j \in DOMAIN Append(t, entry) :
                    \/ Append(t, entry)[j].key = key
                    \/ \E i \in DOMAIN cache[kind] : Append(t, entry)[j] = cache[kind][i]
    <2>1. /\ Proper(Append(t, entry), kind) /\ Len(Append(t, entry)) = Len(t) + 1 /\ Len(t) \in Nat
          /\ \A j \in DOMAIN Append(t, entry) :
               Append(t, entry)[j] = entry \/ \E i \in DOMAIN t : Append(t, entry)[j] = t[i]
      BY <1>3, <1>8, ProperAppend
    <2> QED
      BY <1>3, <1>7, <1>8, <2>1
  <1>9. CASE kind = "gcp"
    <2>1. s = <<entry>>
      BY <1>4, <1>9
    <2>2. <<entry>> \in Seq(Entry) /\ DOMAIN <<entry>> = {1} /\ <<entry>>[1] = entry
      BY <1>3
    <2>3. Proper(<<entry>>, kind)
      BY <1>3, <2>2 DEF Proper
    <2> QED
      BY <1>3, <1>9, <2>1, <2>2, <2>3
  <1>10. CASE kind = "vertex"
    <2>1. /\ Proper(room, kind) /\ Len(room) < MaxTokens
          /\ \A j \in DOMAIN room : \E i \in DOMAIN Tokens!Without(kind, key) :
               room[j] = Tokens!Without(kind, key)[i]
      <3>1. Len(Tokens!Without(kind, key)) <= MaxTokens
        BY <1>5, <1>6, <1>7, <1>10
      <3> QED
        BY <1>6, <1>10, <3>1, EvictedIsProper
    <2>2. CASE keep <= 0
      <3>1. s = cache[kind]
        BY <1>4, <1>10, <2>2
      <3> QED
        BY <1>5, <3>1
    <2>3. CASE ~(keep <= 0)
      <3>1. s = Append(room, entry)
        BY <1>4, <1>10, <2>3
      <3> HIDE DEF room
      <3> QED
        BY <1>6, <1>8, <2>1, <3>1
    <2> QED
      BY <2>2, <2>3
  <1>11. CASE kind = "vendor"
    <2>1. s = Append(Tokens!Without(kind, key), entry)
      BY <1>4, <1>11
    <2> QED
      BY <1>6, <1>8, <1>11, <2>1
  <1>12. CASE kind \in {"oauth", "aws"}
    <2>1. s = Append(Tokens!Evicted(kind, cache[kind]), entry)
      BY <1>4, <1>12
    <2>2. /\ Proper(Tokens!Evicted(kind, cache[kind]), kind)
          /\ Len(Tokens!Evicted(kind, cache[kind])) < MaxTokens
          /\ \A j \in DOMAIN Tokens!Evicted(kind, cache[kind]) :
               \E i \in DOMAIN cache[kind] : Tokens!Evicted(kind, cache[kind])[j] = cache[kind][i]
      BY <1>5, <1>12, EvictedIsProper
    <2>3. \A i \in DOMAIN cache[kind] : cache[kind][i].key # key
      BY <1>12 DEF TokenInv, Uncached, kind, key
    <2> QED
      BY <1>8, <2>1, <2>2, <2>3
  <1> QED
    BY <1>1, <1>9, <1>10, <1>11, <1>12 DEF Tokens!Kinds

LEMMA CallersUsers ==
  /\ \A c \in Callers : <<c, "call">> \in Tokens!Users /\ <<c, "chain">> \in Tokens!Users
  /\ \A u \in Tokens!Users : u[1] \in Callers /\ (u = <<u[1], "call">> \/ u = <<u[1], "chain">>)
  BY DEF Tokens!Users

\* A part of the invariant is about the caches only.
CachesOK == cache \in [Tokens!Kinds -> Seq(Entry)] /\ Caches
CacheParts == CachesOK /\ Uncached

LEMMA CachesUntouched ==
  ASSUME TokenInv, UNCHANGED <<cfg, cache, job>>
  PROVE  CacheParts'
  <1>1. Entry' = Entry
    BY DEF Entry, Toks, Wants, Roles
  <1>2. Caches'
    BY <1>1 DEF TokenInv, Caches, Proper
  <1>3. Uncached'
    BY DEF TokenInv, Uncached
  <1> QED
    BY <1>1, <1>2, <1>3 DEF TokenInv, TokenTypes, CacheParts, CachesOK

\* Whoever does not wait goes on, and no exchange begins or ends.
LEMMA UserMoves ==
  ASSUME TokenInv, NEW u \in Tokens!Users, user[u].pc # "waiting",
         NEW s \in UserState, user' \in [Tokens!Users -> UserState], user'[u] = s,
         \A w \in Tokens!Users : w # u => user'[w] = user[w],
         UNCHANGED <<cfg, inflight, job>>, CacheParts',
         s.pc \in {"lookup", "join", "waiting"} =>
           /\ s.kind \in Tokens!Kinds /\ s.want \in Wants
           /\ s.kind = "aws" => SubSeq(s.want, 1, 2) \in Wants,
         s.pc = "join" => s.kind = "vertex",
         s.pc = "waiting" =>
           /\ s.by \in Tokens!Users /\ job[s.by].pc # "none"
           /\ job[s.by].kind = s.kind /\ job[s.by].want = s.want,
         u = <<u[1], "chain">> =>
           /\ user[u].pc \notin {"idle", "done"} /\ s.pc # "idle"
           /\ s.kind = "oauth" /\ s.want = user[u].want,
         s.tok # None => s.tok = [kind |-> s.kind, for |-> s.want] /\ s.live
  PROVE  TokenInv'
  <1>1. TokenTypes /\ Flights /\ Waits /\ Chains /\ HandedOut
    BY DEF TokenInv
  <1>2. /\ user' \in [Tokens!Users -> UserState] /\ user'[u] = s
        /\ \A w \in Tokens!Users : w # u => user'[w] = user[w]
    OBVIOUS
  <1>3. /\ Toks' = Toks /\ Wants' = Wants /\ Roles' = Roles
        /\ Entry' = Entry /\ UserState' = UserState /\ Exchange' = Exchange
    BY DEF Toks, Wants, Roles, Entry, UserState, Exchange
  <1>4. TokenTypes'
    BY <1>1, <1>2, <1>3 DEF TokenTypes, CacheParts, CachesOK
  <1>5. Flights'
    BY <1>1 DEF Flights
  <1>6. job[u].pc = "none"
    BY <1>1 DEF Waits
  <1>7. Waits'
    BY <1>1, <1>2, <1>3, <1>6 DEF Waits
  <1>8. Chains'
    <2> SUFFICES ASSUME NEW c \in Callers
                 PROVE  /\ job[<<c, "chain">>].pc # "chain"
                        /\ user'[<<c, "chain">>].pc # "idle" => user'[<<c, "chain">>].kind = "oauth"
                        /\ job[<<c, "call">>].pc = "chain" =>
                             /\ job[<<c, "call">>].kind = "aws"
                             /\ user'[<<c, "chain">>].pc # "idle"
                             /\ user'[<<c, "chain">>].want = SubSeq(job[<<c, "call">>].want, 1, 2)
                        /\ job[<<c, "call">>].pc # "chain" => user'[<<c, "chain">>].pc \in {"idle", "done"}
      BY DEF Chains
    <2>1. CASE u = <<c, "chain">>
      BY <1>1, <1>2, <2>1 DEF Chains
    <2>2. CASE u # <<c, "chain">>
      <3>1. user'[<<c, "chain">>] = user[<<c, "chain">>]
        BY <1>2, <2>2, CallersUsers
      <3> QED
        BY <1>1, <3>1 DEF Chains
    <2> QED
      BY <2>1, <2>2
  <1>9. HandedOut'
    <2>1. ASSUME NEW w \in Tokens!Users, user'[w].tok # None
          PROVE  user'[w].tok = [kind |-> user'[w].kind, for |-> user'[w].want] /\ user'[w].live
      <3>1. CASE w = u
        BY <1>2, <2>1, <3>1
      <3>2. CASE w # u
        BY <1>1, <1>2, <2>1, <3>2 DEF HandedOut
      <3> QED
        BY <3>1, <3>2
    <2> QED
      BY <1>1, <2>1 DEF HandedOut
  <1> QED
    BY <1>4, <1>5, <1>7, <1>8, <1>9 DEF TokenInv, CacheParts, CachesOK

LEMMA TokensAsk ==
  ASSUME TokenInv, NEW c \in Callers, Tokens!Ask(c)
  PROVE  TokenInv'
  <1> DEFINE u == <<c, "call">>
  <1>1. PICK r \in cfg.requests :
          user' = [user EXCEPT ![u] = [Tokens!Idle EXCEPT !.pc = "lookup", !.kind = r[1],
                                                          !.want = r[2]]]
    BY DEF Tokens!Ask
  <1> DEFINE s == [Tokens!Idle EXCEPT !.pc = "lookup", !.kind = r[1], !.want = r[2]]
  <1>2. user' = [user EXCEPT ![u] = s]
    BY <1>1
  <1>3. r[1] \in Tokens!Kinds /\ r[2] \in Wants /\ (r[1] = "aws" => SubSeq(r[2], 1, 2) \in Wants)
    BY TokenAssumption DEF TokenInv, TokenTypes, Wants, Roles
  <1>4. u \in Tokens!Users /\ u # <<u[1], "chain">> /\ user[u].pc # "waiting"
    BY CallersUsers DEF Tokens!Ask
  <1>5. s \in UserState
    BY <1>3 DEF UserState, Tokens!Idle
  <1>6. UNCHANGED <<cfg, inflight, job>> /\ CacheParts'
    BY CachesUntouched DEF Tokens!Ask
  <1>7. s.pc = "lookup" /\ s.tok = None /\ s.kind = r[1] /\ s.want = r[2]
    BY DEF Tokens!Idle
  <1> HIDE DEF s, u
  <1>8. /\ user' \in [Tokens!Users -> UserState] /\ user'[u] = s
        /\ \A w \in Tokens!Users : w # u => user'[w] = user[w]
    BY <1>2, <1>4, <1>5 DEF TokenInv, TokenTypes
  <1> QED
    BY <1>3, <1>4, <1>5, <1>6, <1>7, <1>8, UserMoves

LEMMA TokensRefuse ==
  ASSUME TokenInv, NEW c \in Callers, Tokens!Refuse(c)
  PROVE  TokenInv'
  <1> DEFINE u == <<c, "call">>
             s == [user[u] EXCEPT !.pc = "done"]
  <1>1. u \in Tokens!Users /\ u # <<u[1], "chain">> /\ user[u].pc # "waiting"
    BY CallersUsers DEF Tokens!Refuse
  <1>2. user[u] \in UserState
    BY <1>1 DEF TokenInv, TokenTypes
  <1>3. s \in UserState /\ s.pc = "done" /\ s.tok = user[u].tok /\ s.live = user[u].live
        /\ s.kind = user[u].kind /\ s.want = user[u].want
    BY <1>2 DEF UserState
  <1>4. user' = [user EXCEPT ![u] = s]
    BY DEF Tokens!Refuse
  <1>5. UNCHANGED <<cfg, inflight, job>> /\ CacheParts'
    BY CachesUntouched DEF Tokens!Refuse
  <1>6. user[u].tok # None =>
          user[u].tok = [kind |-> user[u].kind, for |-> user[u].want] /\ user[u].live
    BY <1>1 DEF TokenInv, HandedOut
  <1> HIDE DEF s, u
  <1>7. /\ user' \in [Tokens!Users -> UserState] /\ user'[u] = s
        /\ \A w \in Tokens!Users : w # u => user'[w] = user[w]
    BY <1>1, <1>3, <1>4 DEF TokenInv, TokenTypes
  <1> QED
    BY <1>1, <1>3, <1>5, <1>6, <1>7, UserMoves

\* The keys of the running exchanges of the caches that do not look before
\* they store, and the key that u asks for, are not in the next cache.
KeysAreFree(u) ==
  /\ \A v \in Tokens!Users :
       job[v].pc # "none" /\ job[v].kind \in {"oauth", "aws"} =>
         \A i \in DOMAIN cache'[job[v].kind] : cache'[job[v].kind][i].key # job[v].want
  /\ user[u].kind \in {"oauth", "aws"} =>
       \A i \in DOMAIN cache'[user[u].kind] : cache'[user[u].kind][i].key # user[u].want

\* What a lookup removes from the cache.
LEMMA CacheForgets ==
  ASSUME TokenInv, NEW u \in Tokens!Users, user[u].kind \in Tokens!Kinds, cfg' = cfg,
         cache' = [cache EXCEPT ![user[u].kind] = Tokens!Without(user[u].kind, user[u].want)]
  PROVE  CachesOK' /\ KeysAreFree(u)
  <1> DEFINE kind == user[u].kind
             key == user[u].want
             t == Tokens!Without(kind, key)
  <1>1. TokenTypes /\ Caches /\ Uncached /\ kind \in Tokens!Kinds
    BY DEF TokenInv
  <1>a. cache' = [cache EXCEPT ![kind] = t]
    OBVIOUS
  <1> HIDE DEF kind, key
  <1>2. /\ Proper(t, kind) /\ Len(t) \in Nat /\ Len(t) <= Len(cache[kind])
        /\ \A j \in DOMAIN t :
             t[j].key # key /\ \E l \in DOMAIN cache[kind] : t[j] = cache[kind][l]
    BY <1>1, WithoutIsProper
  <1>3. MaxTokens \in Nat /\ Len(cache[kind]) \in Nat /\ t \in Seq(Entry)
    BY <1>1, <1>2, TokenAssumption, LenProperties DEF Caches, Proper
  <1> HIDE DEF t
  <1>4. /\ cache' \in [Tokens!Kinds -> Seq(Entry)] /\ cache'[kind] = t
        /\ \A k2 \in Tokens!Kinds : k2 # kind => cache'[k2] = cache[k2]
    BY <1>1, <1>3, <1>a DEF TokenTypes
  <1>5. Entry' = Entry
    BY DEF Entry, Toks, Wants, Roles
  <1>6. Caches'
    <2>1. \A k2 \in Tokens!Kinds : Proper(cache'[k2], k2)
      BY <1>1, <1>2, <1>4 DEF Caches
    <2>2. \A k2 \in {"oauth", "aws", "vertex"} : Len(cache'[k2]) <= MaxTokens
      BY <1>1, <1>2, <1>3, <1>4 DEF Caches, Tokens!Kinds
    <2> QED
      BY <2>1, <2>2, <1>5 DEF Caches, Proper
  <1>7. \A k2 \in Tokens!Kinds : \A j \in DOMAIN cache'[k2] :
          \E l \in DOMAIN cache[k2] : cache'[k2][j] = cache[k2][l]
    BY <1>2, <1>4
  <1>8. KeysAreFree(u)
    BY <1>1, <1>2, <1>4, <1>7 DEF Uncached, KeysAreFree, Tokens!Kinds, kind, key
  <1> QED
    BY <1>4, <1>5, <1>6, <1>8 DEF CachesOK

LEMMA TokensJoin ==
  ASSUME TokenInv, NEW u \in Tokens!Users, user[u].pc \in {"lookup", "join"}, cfg' = cfg,
         CachesOK', KeysAreFree(u), UNCHANGED <<inflight, job>>, NEW f \in inflight,
         f.kind = user[u].kind, f.key = user[u].want,
         NEW s \in UserState, user' = [user EXCEPT ![u] = s], s.pc = "waiting", s.by = f.by,
         s.kind = user[u].kind, s.want = user[u].want, s.tok = user[u].tok,
         s.live = user[u].live
  PROVE  TokenInv'
  <1>1. TokenTypes /\ Flights /\ Waits /\ Chains /\ HandedOut
    BY DEF TokenInv
  <1>2. /\ f.by \in Tokens!Users /\ job[f.by].pc # "none"
        /\ job[f.by].kind = user[u].kind /\ job[f.by].want = user[u].want
    BY <1>1 DEF TokenTypes, Flights
  <1>3. /\ user' \in [Tokens!Users -> UserState] /\ user'[u] = s
        /\ \A w \in Tokens!Users : w # u => user'[w] = user[w]
    BY <1>1 DEF TokenTypes
  <1>4. CacheParts'
    BY DEF CacheParts, Uncached, KeysAreFree
  <1>5. /\ user[u].kind \in Tokens!Kinds /\ user[u].want \in Wants
        /\ user[u].kind = "aws" => SubSeq(user[u].want, 1, 2) \in Wants
    BY <1>1 DEF Waits
  <1>6. u = <<u[1], "chain">> => user[u].kind = "oauth"
    <2>1. u[1] \in Callers
      BY CallersUsers
    <2>2. user[<<u[1], "chain">>].pc # "idle" => user[<<u[1], "chain">>].kind = "oauth"
      BY <1>1, <2>1 DEF Chains
    <2>3. user[u].pc # "idle"
      OBVIOUS
    <2> QED
      BY <2>2, <2>3
  <1>7. user[u].tok # None =>
           user[u].tok = [kind |-> user[u].kind, for |-> user[u].want] /\ user[u].live
    BY <1>1 DEF HandedOut
  <1>8. s.tok # None => s.tok = [kind |-> s.kind, for |-> s.want] /\ s.live
    BY <1>7
  <1>9. u = <<u[1], "chain">> =>
           /\ user[u].pc \notin {"idle", "done"} /\ s.pc # "idle"
           /\ s.kind = "oauth" /\ s.want = user[u].want
    BY <1>6
  <1>10. user[u].pc # "waiting" /\ UNCHANGED <<cfg, inflight, job>>
    OBVIOUS
  <1>11. /\ s.kind \in Tokens!Kinds /\ s.want \in Wants
         /\ s.kind = "aws" => SubSeq(s.want, 1, 2) \in Wants
         /\ s.by \in Tokens!Users /\ job[s.by].pc # "none"
         /\ job[s.by].kind = s.kind /\ job[s.by].want = s.want /\ s.pc # "join"
    BY <1>2, <1>5
  <1> QED
    BY <1>3, <1>4, <1>8, <1>9, <1>10, <1>11, UserMoves

\* A user that found no exchange in flight begins one; an "aws" exchange makes
\* its chain ask for the token it will trade.
LEMMA ExchangeBegins ==
  ASSUME TokenInv, NEW u \in Tokens!Users, user[u].pc \in {"lookup", "join"}, cfg' = cfg,
         CachesOK', KeysAreFree(u),
         \A f \in inflight : ~(f.kind = user[u].kind /\ f.key = user[u].want),
         inflight' = inflight \cup {[kind |-> user[u].kind, key |-> user[u].want, by |-> u]},
         user' \in [Tokens!Users -> UserState], job' \in [Tokens!Users -> Exchange],
         \A v \in Tokens!Users : v # u => job'[v] = job[v],
         job'[u].kind = user[u].kind, job'[u].want = user[u].want, job'[u].via = None,
         job'[u].pc = IF user[u].kind = "aws" THEN "chain" ELSE "sent",
         user'[u].pc = "waiting", user'[u].by = u, user'[u].kind = user[u].kind,
         user'[u].want = user[u].want, user'[u].tok = user[u].tok,
         user'[u].live = user[u].live,
         \A w \in Tokens!Users : w # u =>
           IF user[u].kind = "aws" /\ w = <<u[1], "chain">>
           THEN /\ user'[w].pc = "lookup" /\ user'[w].kind = "oauth" /\ user'[w].tok = None
                /\ user'[w].want = SubSeq(user[u].want, 1, 2)
           ELSE user'[w] = user[w]
  PROVE  TokenInv'
  <1>1. TokenTypes /\ Flights /\ Waits /\ Chains /\ HandedOut
    BY DEF TokenInv
  <1>2. /\ user[u].kind \in Tokens!Kinds /\ user[u].want \in Wants
        /\ user[u].kind = "aws" => SubSeq(user[u].want, 1, 2) \in Wants
        /\ job[u].pc = "none"
    BY <1>1 DEF Waits
  <1>3. /\ Toks' = Toks /\ Wants' = Wants /\ Roles' = Roles
        /\ Entry' = Entry /\ UserState' = UserState /\ Exchange' = Exchange
    BY DEF Toks, Wants, Roles, Entry, UserState, Exchange
  <1>4. TokenTypes'
    <2>1. inflight' \subseteq [kind : Tokens!Kinds, key : Wants, by : Tokens!Users]
      BY <1>1, <1>2 DEF TokenTypes
    <2> QED
      BY <1>1, <1>3, <2>1 DEF TokenTypes, CachesOK
  <1>5. Flights'
    <2>1. \A f \in inflight' :
            job'[f.by].pc # "none" /\ f.kind = job'[f.by].kind /\ f.key = job'[f.by].want
      BY <1>1, <1>2 DEF Flights, TokenTypes
    <2>2. \A v \in Tokens!Users : job'[v].pc # "none" => \E f \in inflight' : f.by = v
      <3> SUFFICES ASSUME NEW v \in Tokens!Users, job'[v].pc # "none"
                   PROVE  \E f \in inflight' : f.by = v
        OBVIOUS
      <3>1. CASE v = u
        <4>1. [kind |-> user[u].kind, key |-> user[u].want, by |-> u] \in inflight'
          OBVIOUS
        <4> QED
          BY <3>1, <4>1
      <3>2. CASE v # u
        <4>1. job[v].pc # "none"
          BY <3>2
        <4> QED
          BY <1>1, <4>1 DEF Flights
      <3> QED
        BY <3>1, <3>2
    <2>3. \A v \in Tokens!Users : v # u /\ job[v].pc # "none" =>
            ~(job[v].kind = user[u].kind /\ job[v].want = user[u].want)
      BY <1>1 DEF Flights
    <2>4. \A v, w \in Tokens!Users :
            /\ job'[v].pc # "none" /\ job'[w].pc # "none"
            /\ job'[v].kind = job'[w].kind /\ job'[v].want = job'[w].want
            => v = w
      BY <1>1, <2>3 DEF Flights
    <2> QED
      BY <2>1, <2>2, <2>4 DEF Flights
  \* The chain of an "aws" exchange is at rest before.
  <1>6. user[u].kind = "aws" =>
          LET h == <<u[1], "chain">> IN
          /\ u = <<u[1], "call">> /\ h \in Tokens!Users /\ h # u
          /\ user[h].pc \in {"idle", "done"} /\ job[h].pc = "none"
    BY <1>1, <1>2, CallersUsers DEF Waits, Chains
  <1>7. Waits'
    <2> SUFFICES ASSUME NEW w \in Tokens!Users
                 PROVE  /\ user'[w].pc \in {"lookup", "join", "waiting"} =>
                             /\ user'[w].kind \in Tokens!Kinds /\ user'[w].want \in Wants
                             /\ user'[w].kind = "aws" => SubSeq(user'[w].want, 1, 2) \in Wants
                        /\ user'[w].pc = "join" => user'[w].kind = "vertex"
                        /\ user'[w].pc = "waiting" =>
                             /\ user'[w].by \in Tokens!Users /\ job'[user'[w].by].pc # "none"
                             /\ job'[user'[w].by].kind = user'[w].kind
                             /\ job'[user'[w].by].want = user'[w].want
                        /\ job'[w].pc # "none" => user'[w].pc = "waiting" /\ user'[w].by = w
      BY <1>3 DEF Waits
    <2>1. CASE w = u
      BY <1>2, <2>1
    <2>2. CASE w # u /\ user[u].kind = "aws" /\ w = <<u[1], "chain">>
      BY <1>2, <1>6, <2>2 DEF Tokens!Kinds
    <2>3. CASE w # u /\ ~(user[u].kind = "aws" /\ w = <<u[1], "chain">>)
      <3>1. user'[w] = user[w] /\ job'[w] = job[w]
        BY <2>3
      <3>2. user[w].pc = "waiting" => user[w].by # u
        BY <1>1, <1>2 DEF Waits
      <3> QED
        BY <1>1, <3>1, <3>2 DEF Waits
    <2> QED
      BY <2>1, <2>2, <2>3
  <1>8. Chains'
    <2> SUFFICES ASSUME NEW c \in Callers
                 PROVE  LET a == <<c, "call">>  h == <<c, "chain">> IN
                        /\ job'[h].pc # "chain"
                        /\ user'[h].pc # "idle" => user'[h].kind = "oauth"
                        /\ job'[a].pc = "chain" =>
                             /\ job'[a].kind = "aws" /\ user'[h].pc # "idle"
                             /\ user'[h].want = SubSeq(job'[a].want, 1, 2)
                        /\ job'[a].pc # "chain" => user'[h].pc \in {"idle", "done"}
      BY DEF Chains
    <2> DEFINE a == <<c, "call">>
               h == <<c, "chain">>
    <2>1. a \in Tokens!Users /\ h \in Tokens!Users /\ a # h /\ a[1] = c /\ h[1] = c
      BY CallersUsers
    <2>2. /\ job[h].pc # "chain"
          /\ user[h].pc # "idle" => user[h].kind = "oauth"
          /\ job[a].pc = "chain" =>
               /\ job[a].kind = "aws" /\ user[h].pc # "idle"
               /\ user[h].want = SubSeq(job[a].want, 1, 2)
          /\ job[a].pc # "chain" => user[h].pc \in {"idle", "done"}
      BY <1>1 DEF Chains
    <2> HIDE DEF a, h
    <2>3. CASE u = h
      <3>1. user[u].kind = "oauth" /\ job'[a] = job[a]
        BY <2>1, <2>2, <2>3
      <3> QED
        BY <2>1, <2>2, <2>3, <3>1 DEF a, h
    <2>4. CASE u = a /\ user[u].kind = "aws"
      <3>1. /\ job'[h] = job[h] /\ user'[h].pc = "lookup" /\ user'[h].kind = "oauth"
            /\ user'[h].want = SubSeq(user[u].want, 1, 2)
        BY <2>1, <2>4 DEF h
      <3> QED
        BY <2>2, <2>4, <3>1 DEF a, h
    <2>5. CASE u # h /\ ~(u = a /\ user[u].kind = "aws")
      <3>1. job'[h] = job[h]
        BY <2>1, <2>5
      <3>2. user'[h] = user[h]
        <4>1. ~(user[u].kind = "aws" /\ h = <<u[1], "chain">>)
          BY <1>6, <2>1, <2>5 DEF a
        <4> QED
          BY <2>1, <2>5, <4>1
      <3>3. CASE u = a
        <4>1. job'[a].pc = "sent" /\ job[a].pc = "none"
          BY <1>2, <2>5, <3>3
        <4> QED
          BY <2>2, <3>1, <3>2, <4>1 DEF a, h
      <3>4. CASE u # a
        <4>1. job'[a] = job[a]
          BY <2>1, <3>4
        <4> QED
          BY <2>2, <3>1, <3>2, <4>1 DEF a, h
      <3> QED
        BY <3>3, <3>4
    <2> QED
      BY <2>3, <2>4, <2>5
  <1>9. Uncached'
    BY DEF Uncached, KeysAreFree
  <1>10. HandedOut'
    <2>1. ASSUME NEW w \in Tokens!Users, user'[w].tok # None
          PROVE  user'[w].tok = [kind |-> user'[w].kind, for |-> user'[w].want] /\ user'[w].live
      <3>1. CASE w = u
        <4>1. user[u].tok = [kind |-> user[u].kind, for |-> user[u].want] /\ user[u].live
          BY <1>1, <2>1, <3>1 DEF HandedOut
        <4> QED
          BY <3>1, <4>1
      <3>2. CASE w # u
        <4>1. user'[w] = user[w]
          BY <2>1, <3>2
        <4>2. user[w].tok # None
          BY <2>1, <4>1
        <4>3. user[w].tok = [kind |-> user[w].kind, for |-> user[w].want] /\ user[w].live
          BY <1>1, <4>2 DEF HandedOut
        <4> QED
          BY <4>1, <4>3, Zenon
      <3> QED
        BY <3>1, <3>2
    <2>2. ASSUME NEW w \in Tokens!Users, job'[w].via # None
          PROVE  job'[w].via.for = SubSeq(job'[w].want, 1, 2) /\ job'[w].viaLive
      <3>1. job'[w] = job[w]
        BY <2>2
      <3> QED
        BY <1>1, <2>2, <3>1 DEF HandedOut
    <2>3. \A w \in Tokens!Users :
            job'[w].pc = "sent" => (job'[w].via # None <=> job'[w].kind = "aws")
      BY <1>1 DEF HandedOut
    <2> QED
      BY <2>1, <2>2, <2>3 DEF HandedOut
  <1> QED
    BY <1>4, <1>5, <1>7, <1>8, <1>9, <1>10 DEF TokenInv, CachesOK

LEMMA TokensJoinOrStart ==
  ASSUME TokenInv, NEW u \in Tokens!Users, user[u].pc \in {"lookup", "join"}, cfg' = cfg,
         CachesOK', KeysAreFree(u), Tokens!JoinOrStart(u)
  PROVE  TokenInv'
  <1> DEFINE kind == user[u].kind
             want == user[u].want
             running == {f \in inflight : f.kind = kind /\ f.key = want}
  <1>1. TokenTypes /\ Waits /\ Chains
    BY DEF TokenInv
  <1>2. user[u] \in UserState
    BY <1>1 DEF TokenTypes
  <1>3. kind \in Tokens!Kinds /\ want \in Wants /\ (kind = "aws" => SubSeq(want, 1, 2) \in Wants)
    BY <1>1 DEF Waits
  <1>4. CASE running # {}
    <2>1. PICK f \in running :
            /\ user' = [user EXCEPT ![u] = [@ EXCEPT !.pc = "waiting", !.by = f.by]]
            /\ UNCHANGED <<inflight, job>>
      BY <1>4 DEF Tokens!JoinOrStart, Tokens!KeyOf
    <2> DEFINE s == [user[u] EXCEPT !.pc = "waiting", !.by = f.by]
    <2>2. f \in inflight /\ f.kind = kind /\ f.key = want /\ f.by \in Tokens!Users
      BY <1>1 DEF TokenTypes
    <2>3. /\ s \in UserState /\ s.pc = "waiting" /\ s.by = f.by /\ s.kind = user[u].kind
          /\ s.want = user[u].want /\ s.tok = user[u].tok /\ s.live = user[u].live
      BY <1>2, <2>2 DEF UserState
    <2>4. user' = [user EXCEPT ![u] = s]
      BY <2>1
    <2> HIDE DEF s
    <2> QED
      BY <2>1, <2>2, <2>3, <2>4, TokensJoin
  <1>5. CASE running = {}
    <2> DEFINE s == [user[u] EXCEPT !.pc = "waiting", !.by = u]
               h == <<u[1], "chain">>
               b == [Tokens!Idle EXCEPT !.pc = "lookup", !.kind = "oauth",
                                        !.want = SubSeq(want, 1, 2)]
               j == [Tokens!NoJob EXCEPT !.pc = "chain", !.kind = kind, !.want = want]
               i == [Tokens!NoJob EXCEPT !.pc = "sent", !.kind = kind, !.want = want]
    <2>1. /\ Tokens!Started(u, kind, want)
          /\ inflight' = inflight \cup {[kind |-> kind, key |-> want, by |-> u]}
      BY <1>5 DEF Tokens!JoinOrStart, Tokens!KeyOf
    <2>2. \A f \in inflight : ~(f.kind = kind /\ f.key = want)
      BY <1>5
    <2>3. /\ s \in UserState /\ s.pc = "waiting" /\ s.by = u /\ s.kind = user[u].kind
          /\ s.want = user[u].want /\ s.tok = user[u].tok /\ s.live = user[u].live
      BY <1>2 DEF UserState
    <2>4. CASE kind = "aws"
      <3>1. user' = [user EXCEPT ![u] = s, ![h] = b] /\ job' = [job EXCEPT ![u] = j]
        BY <2>1, <2>4 DEF Tokens!Started
      <3>2. /\ b \in UserState /\ b.pc = "lookup" /\ b.kind = "oauth" /\ b.tok = None
            /\ b.want = SubSeq(want, 1, 2)
        BY <1>3, <2>4 DEF UserState, Tokens!Idle, Tokens!Kinds
      <3>3. /\ j \in Exchange /\ j.pc = "chain" /\ j.kind = kind /\ j.want = want /\ j.via = None
        BY <1>3 DEF Exchange, Tokens!NoJob
      <3>4. h \in Tokens!Users /\ u # h
        <4>1. h \in Tokens!Users /\ u[1] \in Callers
          BY CallersUsers
        <4>2. user[h].pc # "idle" => user[h].kind = "oauth"
          BY <1>1, <4>1 DEF Chains
        <4> QED
          BY <2>4, <4>1, <4>2
      <3> HIDE DEF s, b, j, i, h
      <3>5. /\ user' \in [Tokens!Users -> UserState] /\ user'[u] = s /\ user'[h] = b
            /\ \A w \in Tokens!Users : w # u /\ w # h => user'[w] = user[w]
        BY <1>1, <2>3, <3>1, <3>2, <3>4 DEF TokenTypes
      <3>6. /\ job' \in [Tokens!Users -> Exchange] /\ job'[u] = j
            /\ \A w \in Tokens!Users : w # u => job'[w] = job[w]
        BY <1>1, <3>1, <3>3 DEF TokenTypes
      <3>7. \A w \in Tokens!Users : w # u =>
              IF kind = "aws" /\ w = <<u[1], "chain">>
              THEN /\ user'[w].pc = "lookup" /\ user'[w].kind = "oauth" /\ user'[w].tok = None
                   /\ user'[w].want = SubSeq(want, 1, 2)
              ELSE user'[w] = user[w]
        BY <2>4, <3>2, <3>5 DEF h
      <3> QED
        BY <2>1, <2>2, <2>3, <2>4, <3>3, <3>5, <3>6, <3>7, ExchangeBegins
    <2>5. CASE kind # "aws"
      <3>1. user' = [user EXCEPT ![u] = s] /\ job' = [job EXCEPT ![u] = i]
        BY <2>1, <2>5 DEF Tokens!Started
      <3>3. /\ i \in Exchange /\ i.pc = "sent" /\ i.kind = kind /\ i.want = want /\ i.via = None
        BY <1>3 DEF Exchange, Tokens!NoJob
      <3> HIDE DEF s, b, j, i, h
      <3>5. /\ user' \in [Tokens!Users -> UserState] /\ user'[u] = s
            /\ \A w \in Tokens!Users : w # u => user'[w] = user[w]
        BY <1>1, <2>3, <3>1 DEF TokenTypes
      <3>6. /\ job' \in [Tokens!Users -> Exchange] /\ job'[u] = i
            /\ \A w \in Tokens!Users : w # u => job'[w] = job[w]
        BY <1>1, <3>1, <3>3 DEF TokenTypes
      <3>7. \A w \in Tokens!Users : w # u =>
              IF kind = "aws" /\ w = <<u[1], "chain">>
              THEN /\ user'[w].pc = "lookup" /\ user'[w].kind = "oauth" /\ user'[w].tok = None
                   /\ user'[w].want = SubSeq(want, 1, 2)
              ELSE user'[w] = user[w]
        BY <2>5, <3>5
      <3> QED
        BY <2>1, <2>2, <2>3, <2>5, <3>3, <3>5, <3>6, <3>7, ExchangeBegins
    <2> QED
      BY <2>4, <2>5
  <1> QED
    BY <1>4, <1>5

LEMMA TokensLook ==
  ASSUME TokenInv, NEW u \in Tokens!Users, Tokens!Look(u)
  PROVE  TokenInv'
  <1> DEFINE kind == user[u].kind
             want == user[u].want
             live == {i \in Tokens!EntriesOf(kind, want) : cache[kind][i].keep > 0}
  <1>1. TokenTypes /\ Waits /\ Chains /\ Caches /\ Uncached
    BY DEF TokenInv
  <1>2. user[u] \in UserState /\ user[u].pc = "lookup" /\ cfg' = cfg
    BY <1>1 DEF TokenTypes, Tokens!Look
  <1>3. kind \in Tokens!Kinds /\ want \in Wants /\ (kind = "aws" => SubSeq(want, 1, 2) \in Wants)
    BY <1>1, <1>2 DEF Waits
  <1>4. u = <<u[1], "chain">> => kind = "oauth"
    <2>1. u[1] \in Callers
      BY CallersUsers
    <2>2. user[<<u[1], "chain">>].pc # "idle" => user[<<u[1], "chain">>].kind = "oauth"
      BY <1>1, <2>1 DEF Chains
    <2> QED
      BY <1>2, <2>2
  <1>5. CASE live # {}
    <2>1. PICK i \in live :
            /\ user' = [user EXCEPT ![u] =
                          Tokens!Got(u, cache[kind][i].tok, cache[kind][i].left > 0)]
            /\ UNCHANGED <<cache, inflight, job>>
      BY <1>5 DEF Tokens!Look, Tokens!KeyOf
    <2> DEFINE tok == cache[kind][i].tok
               alive == cache[kind][i].left > 0
               s == [user[u] EXCEPT !.pc = "done", !.tok = tok, !.live = alive]
    <2>2. i \in DOMAIN cache[kind] /\ cache[kind][i].key = want /\ cache[kind][i].keep > 0
      BY DEF Tokens!EntriesOf
    <2>3. Proper(cache[kind], kind)
      BY <1>1, <1>3 DEF Caches
    <2>4. cache[kind][i] \in Entry /\ tok = [kind |-> kind, for |-> want]
          /\ cache[kind][i].keep <= cache[kind][i].left
      BY <2>2, <2>3, LenProperties, ElementOfSeq DEF Proper
    <2>5. alive
      BY <2>2, <2>4 DEF Entry
    <2>6. tok \in Toks
      BY <1>3, <2>4 DEF Toks
    <2> HIDE DEF tok, alive
    <2>7. /\ s \in UserState /\ s.pc = "done" /\ s.tok = tok /\ s.kind = kind /\ s.want = want
      BY <1>2, <2>5, <2>6 DEF UserState
    <2>8. s.live
      BY <1>2, <2>5 DEF UserState
    <2>9. user' = [user EXCEPT ![u] = s]
      BY <2>1 DEF Tokens!Got, tok, alive
    <2> HIDE DEF s
    <2>10. /\ user' \in [Tokens!Users -> UserState] /\ user'[u] = s
           /\ \A w \in Tokens!Users : w # u => user'[w] = user[w]
      BY <1>1, <2>7, <2>9 DEF TokenTypes
    <2>11. CacheParts' /\ UNCHANGED <<cfg, inflight, job>>
      BY <1>2, <2>1, CachesUntouched
    <2>12. s.tok = [kind |-> s.kind, for |-> s.want]
      BY <2>4, <2>7 DEF tok
    <2>13. u = <<u[1], "chain">> =>
             /\ user[u].pc \notin {"idle", "done"} /\ s.pc # "idle"
             /\ s.kind = "oauth" /\ s.want = user[u].want
      BY <1>2, <1>4, <2>7
    <2> QED
      BY <1>2, <2>7, <2>8, <2>10, <2>11, <2>12, <2>13, UserMoves
  <1>6. CASE live = {}
    <2>1. /\ cache' = IF kind = "gcp" THEN cache
                      ELSE [cache EXCEPT ![kind] = Tokens!Without(kind, want)]
          /\ IF kind = "vertex"
             THEN user' = [user EXCEPT ![u].pc = "join"] /\ UNCHANGED <<inflight, job>>
             ELSE Tokens!JoinOrStart(u)
      BY <1>6 DEF Tokens!Look, Tokens!KeyOf
    <2>2. CachesOK' /\ KeysAreFree(u)
      <3>1. CASE kind = "gcp"
        <4>1. cache' = cache
          BY <2>1, <3>1
        <4>2. CachesOK'
          <5>1. Entry' = Entry
            BY <1>2 DEF Entry, Toks, Wants, Roles
          <5> QED
            BY <1>1, <4>1, <5>1 DEF TokenTypes, CachesOK, Caches, Proper
        <4>3. KeysAreFree(u)
          BY <1>1, <3>1, <4>1 DEF Uncached, KeysAreFree
        <4> QED
          BY <4>2, <4>3
      <3>2. CASE kind # "gcp"
        BY <1>2, <1>3, <2>1, <3>2, CacheForgets
      <3> QED
        BY <3>1, <3>2
    <2>3. CASE kind = "vertex"
      <3> DEFINE s == [user[u] EXCEPT !.pc = "join"]
      <3>1. user' = [user EXCEPT ![u] = s] /\ UNCHANGED <<cfg, inflight, job>>
        BY <1>2, <2>1, <2>3
      <3>2. /\ s \in UserState /\ s.pc = "join" /\ s.kind = kind /\ s.want = want
            /\ s.tok = user[u].tok /\ s.live = user[u].live
        BY <1>2 DEF UserState
      <3> HIDE DEF s
      <3>3. /\ user' \in [Tokens!Users -> UserState] /\ user'[u] = s
            /\ \A w \in Tokens!Users : w # u => user'[w] = user[w]
        BY <1>1, <3>1, <3>2 DEF TokenTypes
      <3>4. CacheParts'
        BY <2>2, <3>1 DEF CacheParts, Uncached, KeysAreFree
      <3>5. user[u].tok # None => user[u].tok = [kind |-> kind, for |-> want] /\ user[u].live
        BY DEF TokenInv, HandedOut
      <3>6. s.tok # None => s.tok = [kind |-> s.kind, for |-> s.want] /\ s.live
        BY <3>2, <3>5
      <3>7. u # <<u[1], "chain">>
        BY <1>4, <2>3
      <3> QED
        BY <1>2, <1>3, <2>3, <3>1, <3>2, <3>3, <3>4, <3>6, <3>7, UserMoves
    <2>4. CASE kind # "vertex"
      BY <1>2, <2>1, <2>2, <2>4, TokensJoinOrStart
    <2> QED
      BY <2>3, <2>4
  <1> QED
    BY <1>5, <1>6

LEMMA TokensJoinStep ==
  ASSUME TokenInv, NEW u \in Tokens!Users, Tokens!Join(u)
  PROVE  TokenInv'
  <1>1. user[u].pc = "join" /\ Tokens!JoinOrStart(u) /\ UNCHANGED <<cfg, cache>>
    BY DEF Tokens!Join
  <1>2. TokenTypes /\ Waits /\ Caches /\ Uncached
    BY DEF TokenInv
  <1>3. user[u].kind = "vertex"
    BY <1>1, <1>2 DEF Waits
  <1>4. CachesOK'
    <2>1. Entry' = Entry
      BY <1>1 DEF Entry, Toks, Wants, Roles
    <2> QED
      BY <1>1, <1>2, <2>1 DEF TokenTypes, CachesOK, Caches, Proper
  <1>5. KeysAreFree(u)
    BY <1>1, <1>2, <1>3 DEF Uncached, KeysAreFree
  <1> QED
    BY <1>1, <1>4, <1>5, TokensJoinOrStart

\* A promise settles: everyone who waits for the exchange goes on.
LEMMA TokensSettle ==
  ASSUME TokenInv, NEW u \in Tokens!Users, job[u].pc # "none",
         job[u].pc = "chain" => user[<<u[1], "chain">>].pc = "done",
         NEW tok, NEW live \in BOOLEAN,
         tok = None \/ (tok = [kind |-> job[u].kind, for |-> job[u].want] /\ live),
         Tokens!Settle(u, tok, live), cfg' = cfg, CachesOK',
         \A v \in Tokens!Users :
           v # u /\ job[v].pc # "none" /\ job[v].kind \in {"oauth", "aws"} =>
             \A i \in DOMAIN cache'[job[v].kind] : cache'[job[v].kind][i].key # job[v].want
  PROVE  TokenInv'
  <1>1. TokenTypes /\ Flights /\ Waits /\ Chains /\ HandedOut
    BY DEF TokenInv
  <1>2. job[u].kind \in Tokens!Kinds /\ job[u].want \in Wants /\ tok \in Toks \cup {None}
    BY RunningIsKnown DEF Toks
  <1>3. /\ Toks' = Toks /\ Wants' = Wants /\ Roles' = Roles
        /\ Entry' = Entry /\ UserState' = UserState /\ Exchange' = Exchange
    BY DEF Toks, Wants, Roles, Entry, UserState, Exchange
  <1>4. inflight' = {f \in inflight : f.by # u}
    BY DEF Tokens!Settle, Tokens!Forget
  <1>5. /\ job' \in [Tokens!Users -> Exchange] /\ job'[u].pc = "none" /\ job'[u].via = None
        /\ \A v \in Tokens!Users : v # u => job'[v] = job[v]
    <2>1. /\ Tokens!NoJob \in Exchange /\ Tokens!NoJob.pc = "none" /\ Tokens!NoJob.via = None
      BY DEF Tokens!NoJob, Exchange
    <2>2. job' = [job EXCEPT ![u] = Tokens!NoJob]
      BY DEF Tokens!Settle
    <2> QED
      BY <1>1, <2>1, <2>2 DEF TokenTypes
  <1> DEFINE waits(w) == user[w].pc = "waiting" /\ user[w].by = u
             got(w) == [user[w] EXCEPT !.pc = "done", !.tok = tok, !.live = live]
  <1>6. user' = [w \in Tokens!Users |-> IF waits(w) THEN got(w) ELSE user[w]]
    BY DEF Tokens!Settle, Tokens!Waiters, Tokens!Got
  <1>7. \A w \in Tokens!Users :
          /\ user[w] \in UserState /\ got(w) \in UserState
          /\ got(w).pc = "done" /\ got(w).tok = tok
          /\ got(w).kind = user[w].kind /\ got(w).want = user[w].want
    BY <1>1, <1>2 DEF TokenTypes, UserState
  <1>8. \A w \in Tokens!Users : live => got(w).live
    BY <1>7 DEF UserState
  <1> HIDE DEF got
  <1>9. /\ user' \in [Tokens!Users -> UserState]
        /\ \A w \in Tokens!Users : waits(w) => user'[w] = got(w)
        /\ \A w \in Tokens!Users : ~waits(w) => user'[w] = user[w]
    BY <1>6, <1>7
  <1> HIDE DEF waits
  <1>10. \A w \in Tokens!Users :
           waits(w) => user[w].kind = job[u].kind /\ user[w].want = job[u].want
    BY <1>1 DEF Waits, waits
  <1>11. \A v \in Tokens!Users : job[v].pc # "none" /\ v # u => ~waits(v)
    BY <1>1 DEF Waits, waits
  <1>12. TokenTypes'
    <2>1. inflight' \subseteq [kind : Tokens!Kinds, key : Wants, by : Tokens!Users]
      BY <1>1, <1>4 DEF TokenTypes
    <2> QED
      BY <1>1, <1>3, <1>5, <1>9, <2>1 DEF TokenTypes, CachesOK
  <1>13. Flights'
    <2>1. \A f \in inflight' :
            job'[f.by].pc # "none" /\ f.kind = job'[f.by].kind /\ f.key = job'[f.by].want
      BY <1>1, <1>4, <1>5 DEF Flights, TokenTypes
    <2>2. \A v \in Tokens!Users : job'[v].pc # "none" => \E f \in inflight' : f.by = v
      BY <1>1, <1>4, <1>5 DEF Flights
    <2>3. \A v, w \in Tokens!Users :
            /\ job'[v].pc # "none" /\ job'[w].pc # "none"
            /\ job'[v].kind = job'[w].kind /\ job'[v].want = job'[w].want
            => v = w
      BY <1>1, <1>5 DEF Flights
    <2> QED
      BY <2>1, <2>2, <2>3 DEF Flights
  <1>14. Waits'
    <2> SUFFICES ASSUME NEW w \in Tokens!Users
                 PROVE  /\ user'[w].pc \in {"lookup", "join", "waiting"} =>
                             /\ user'[w].kind \in Tokens!Kinds /\ user'[w].want \in Wants
                             /\ user'[w].kind = "aws" => SubSeq(user'[w].want, 1, 2) \in Wants
                        /\ user'[w].pc = "join" => user'[w].kind = "vertex"
                        /\ user'[w].pc = "waiting" =>
                             /\ user'[w].by \in Tokens!Users /\ job'[user'[w].by].pc # "none"
                             /\ job'[user'[w].by].kind = user'[w].kind
                             /\ job'[user'[w].by].want = user'[w].want
                        /\ job'[w].pc # "none" => user'[w].pc = "waiting" /\ user'[w].by = w
      BY <1>3 DEF Waits
    <2>1. CASE waits(w)
      <3>1. user'[w].pc = "done"
        BY <1>7, <1>9, <2>1
      <3>2. job'[w].pc = "none"
        BY <1>5, <1>11, <2>1
      <3> QED
        BY <3>1, <3>2
    <2>2. CASE ~waits(w)
      <3>1. user'[w] = user[w]
        BY <1>9, <2>2
      <3>2. user[w].pc = "waiting" => user[w].by # u
        BY <2>2 DEF waits
      <3>3. job'[w].pc # "none" => job[w].pc # "none"
        BY <1>5
      <3> QED
        BY <1>1, <1>5, <3>1, <3>2, <3>3 DEF Waits
    <2> QED
      BY <2>1, <2>2
  <1>15. Chains'
    <2> SUFFICES ASSUME NEW c \in Callers
                 PROVE  LET a == <<c, "call">>  h == <<c, "chain">> IN
                        /\ job'[h].pc # "chain"
                        /\ user'[h].pc # "idle" => user'[h].kind = "oauth"
                        /\ job'[a].pc = "chain" =>
                             /\ job'[a].kind = "aws" /\ user'[h].pc # "idle"
                             /\ user'[h].want = SubSeq(job'[a].want, 1, 2)
                        /\ job'[a].pc # "chain" => user'[h].pc \in {"idle", "done"}
      BY DEF Chains
    <2> DEFINE a == <<c, "call">>
               h == <<c, "chain">>
    <2>1. a \in Tokens!Users /\ h \in Tokens!Users /\ a # h
      BY CallersUsers
    <2>2. /\ job[h].pc # "chain"
          /\ user[h].pc # "idle" => user[h].kind = "oauth"
          /\ job[a].pc = "chain" =>
               /\ job[a].kind = "aws" /\ user[h].pc # "idle"
               /\ user[h].want = SubSeq(job[a].want, 1, 2)
          /\ job[a].pc # "chain" => user[h].pc \in {"idle", "done"}
      BY <1>1 DEF Chains
    <2>3. a = u => (job[a].pc = "chain" => user[h].pc = "done")
      BY DEF Tokens!Users
    <2> HIDE DEF a, h
    <2>4. job'[h].pc # "chain" /\ (a # u => job'[a] = job[a]) /\ (a = u => job'[a].pc = "none")
      BY <1>5, <2>1, <2>2
    <2>5. CASE waits(h)
      <3>1. /\ user'[h].pc = "done" /\ user'[h].kind = user[h].kind
            /\ user'[h].want = user[h].want /\ user[h].pc = "waiting"
        BY <1>7, <1>9, <2>1, <2>5 DEF waits
      <3> QED
        BY <2>2, <2>4, <3>1 DEF a, h
    <2>6. CASE ~waits(h)
      <3>1. user'[h] = user[h]
        BY <1>9, <2>1, <2>6
      <3> QED
        BY <2>2, <2>3, <2>4, <3>1 DEF a, h
    <2> QED
      BY <2>5, <2>6
  <1>16. Uncached'
    BY <1>5 DEF Uncached
  <1>17. HandedOut'
    <2>1. ASSUME NEW w \in Tokens!Users, user'[w].tok # None
          PROVE  user'[w].tok = [kind |-> user'[w].kind, for |-> user'[w].want] /\ user'[w].live
      <3>1. CASE waits(w)
        <4>1. user'[w] = got(w) /\ tok # None
          BY <1>7, <1>9, <2>1, <3>1
        <4>2. tok = [kind |-> job[u].kind, for |-> job[u].want] /\ live
          BY <4>1
        <4>3. got(w).live
          BY <1>8, <4>2
        <4>4. user'[w].tok = [kind |-> user'[w].kind, for |-> user'[w].want]
          BY <1>7, <1>10, <3>1, <4>1, <4>2
        <4> QED
          BY <4>1, <4>3, <4>4
      <3>2. CASE ~waits(w)
        <4>1. user'[w] = user[w]
          BY <1>9, <3>2
        <4> QED
          BY <1>1, <2>1, <4>1 DEF HandedOut
      <3> QED
        BY <3>1, <3>2
    <2>2. ASSUME NEW w \in Tokens!Users, job'[w].via # None
          PROVE  job'[w].via.for = SubSeq(job'[w].want, 1, 2) /\ job'[w].viaLive
      <3>1. job'[w] = job[w]
        BY <1>5, <2>2
      <3> QED
        BY <1>1, <2>2, <3>1 DEF HandedOut
    <2>3. \A w \in Tokens!Users :
            job'[w].pc = "sent" => (job'[w].via # None <=> job'[w].kind = "aws")
      BY <1>1, <1>5 DEF HandedOut
    <2> QED
      BY <2>1, <2>2, <2>3 DEF HandedOut
  <1> QED
    BY <1>12, <1>13, <1>14, <1>15, <1>16, <1>17 DEF TokenInv, CachesOK

LEMMA TokensAnswer ==
  ASSUME TokenInv, NEW u \in Tokens!Users, Tokens!Answer(u)
  PROVE  TokenInv'
  <1>1. job[u].pc = "sent" /\ cfg' = cfg
    BY DEF Tokens!Answer
  <1>2. PICK life \in cfg.lifetimes \cup {None}, d \in 0 .. Latency :
          LET kind == job[u].kind
              l    == Tokens!LifetimeOf(kind, life)
              tok  == [kind |-> kind, for |-> job[u].want]
          IN  /\ cache' = [cache EXCEPT ![kind] =
                  Tokens!Stored(kind, Tokens!KeyOf(kind, job[u].want), tok, l, l - d)]
              /\ Tokens!Settle(u, tok, l - d > 0)
    BY DEF Tokens!Answer
  <1> DEFINE kind == job[u].kind
             want == job[u].want
             l == Tokens!LifetimeOf(kind, life)
             tok == [kind |-> kind, for |-> want]
             live == l - d > 0
             s == Tokens!Stored(kind, Tokens!KeyOf(kind, want), tok, l, l - d)
  <1>3. TokenTypes /\ Flights /\ Caches /\ Uncached
    BY DEF TokenInv
  <1>4. kind \in Tokens!Kinds /\ want \in Wants
    BY <1>1, RunningIsKnown
  <1>5. /\ Proper(s, kind)
        /\ kind \in {"oauth", "aws", "vertex"} => Len(s) <= MaxTokens
        /\ \A j \in DOMAIN s : s[j].key = want \/ \E i \in DOMAIN cache[kind] : s[j] = cache[kind][i]
    BY <1>1, StoredIsProper
  <1>6. live
    <2>1. cfg \in Settings
      BY <1>3 DEF TokenTypes
    <2> QED
      BY <1>4, <2>1, KeptIsCovered
  <1>7. cache' = [cache EXCEPT ![kind] = s] /\ Tokens!Settle(u, tok, live)
    BY <1>2
  <1> HIDE DEF s, live, l, kind, want
  <1>8. /\ cache' \in [Tokens!Kinds -> Seq(Entry)] /\ cache'[kind] = s
        /\ \A k2 \in Tokens!Kinds : k2 # kind => cache'[k2] = cache[k2]
    BY <1>3, <1>4, <1>5, <1>7 DEF TokenTypes, Proper
  <1>9. CachesOK'
    <2>1. Entry' = Entry
      BY <1>1 DEF Entry, Toks, Wants, Roles
    <2>2. \A k2 \in Tokens!Kinds : Proper(cache'[k2], k2)
      BY <1>3, <1>5, <1>8 DEF Caches
    <2>3. \A k2 \in {"oauth", "aws", "vertex"} : Len(cache'[k2]) <= MaxTokens
      BY <1>3, <1>5, <1>8 DEF Caches, Tokens!Kinds
    <2> QED
      BY <1>8, <2>1, <2>2, <2>3 DEF CachesOK, Caches, Proper
  <1>10. ASSUME NEW v \in Tokens!Users, v # u, job[v].pc # "none",
                job[v].kind \in {"oauth", "aws"}, NEW i \in DOMAIN cache'[job[v].kind]
         PROVE  cache'[job[v].kind][i].key # job[v].want
    <2>1. \A j \in DOMAIN cache[job[v].kind] : cache[job[v].kind][j].key # job[v].want
      BY <1>3, <1>10 DEF Uncached
    <2>2. CASE job[v].kind = kind
      <3>1. job[v].want # want
        BY <1>1, <1>3, <1>10, <2>2 DEF Flights, kind, want
      <3> QED
        BY <1>5, <1>8, <1>10, <2>1, <2>2, <3>1
    <2>3. CASE job[v].kind # kind
      <3>1. cache'[job[v].kind] = cache[job[v].kind]
        BY <1>8, <1>10, <2>3 DEF Tokens!Kinds
      <3> QED
        BY <1>10, <2>1, <3>1
    <2> QED
      BY <2>2, <2>3
  <1>11. job[u].pc # "none" /\ job[u].pc # "chain" /\ live \in BOOLEAN
    BY <1>1 DEF live
  <1>12. tok = [kind |-> job[u].kind, for |-> job[u].want]
    BY DEF kind, want
  <1> HIDE DEF tok
  <1> QED
    BY <1>1, <1>6, <1>7, <1>9, <1>10, <1>11, <1>12, TokensSettle

LEMMA TokensReject ==
  ASSUME TokenInv, NEW u \in Tokens!Users, Tokens!Reject(u)
  PROVE  TokenInv'
  <1>1. job[u].pc = "sent" /\ Tokens!Settle(u, None, FALSE) /\ UNCHANGED <<cfg, cache>>
    BY DEF Tokens!Reject
  <1>2. CachesOK'
    <2>1. Entry' = Entry
      BY <1>1 DEF Entry, Toks, Wants, Roles
    <2> QED
      BY <1>1, <2>1 DEF TokenInv, TokenTypes, CachesOK, Caches, Proper
  <1>3. \A v \in Tokens!Users :
          v # u /\ job[v].pc # "none" /\ job[v].kind \in {"oauth", "aws"} =>
            \A i \in DOMAIN cache'[job[v].kind] : cache'[job[v].kind][i].key # job[v].want
    BY <1>1 DEF TokenInv, Uncached
  <1> QED
    BY <1>1, <1>2, <1>3, TokensSettle

LEMMA TokensRetry ==
  ASSUME TokenInv, NEW u \in Tokens!Users, Tokens!Retry(u)
  PROVE  TokenInv'
  <1> DEFINE j == [job[u] EXCEPT !.tries = 1 - @]
  <1>1. /\ job[u].pc = "sent" /\ job[u].tries = 0 /\ job' = [job EXCEPT ![u] = j]
        /\ UNCHANGED <<cfg, cache, inflight, user>>
    BY DEF Tokens!Retry, Tokens!TriesLeft
  <1>2. TokenTypes /\ Caches /\ Flights /\ Waits /\ Chains /\ Uncached /\ HandedOut
    BY DEF TokenInv
  <1>3. job[u] \in Exchange
    BY <1>2 DEF TokenTypes
  <1>4. /\ j \in Exchange /\ j.pc = job[u].pc /\ j.kind = job[u].kind /\ j.want = job[u].want
        /\ j.via = job[u].via
    BY <1>1, <1>3 DEF Exchange
  <1>5. j.viaLive = job[u].viaLive
    BY <1>3 DEF Exchange
  <1> HIDE DEF j
  <1>6. /\ job' \in [Tokens!Users -> Exchange] /\ job'[u] = j
        /\ \A v \in Tokens!Users : v # u => job'[v] = job[v]
    BY <1>1, <1>2, <1>4 DEF TokenTypes
  <1>7. \A v \in Tokens!Users :
          /\ job'[v].pc = job[v].pc /\ job'[v].kind = job[v].kind
          /\ job'[v].want = job[v].want /\ job'[v].via = job[v].via
    BY <1>4, <1>6
  <1>8. /\ Entry' = Entry /\ UserState' = UserState /\ Exchange' = Exchange /\ Wants' = Wants
    BY <1>1 DEF Toks, Wants, Roles, Entry, UserState, Exchange
  <1>9. TokenTypes'
    BY <1>1, <1>2, <1>6, <1>8 DEF TokenTypes
  <1>10. Caches'
    BY <1>1, <1>2, <1>8 DEF Caches, Proper
  <1>11. Flights'
    BY <1>1, <1>2, <1>7 DEF Flights, TokenTypes
  <1>12. Waits'
    <2> SUFFICES ASSUME NEW w \in Tokens!Users
                 PROVE  /\ user[w].pc \in {"lookup", "join", "waiting"} =>
                             /\ user[w].kind \in Tokens!Kinds /\ user[w].want \in Wants
                             /\ user[w].kind = "aws" => SubSeq(user[w].want, 1, 2) \in Wants
                        /\ user[w].pc = "join" => user[w].kind = "vertex"
                        /\ user[w].pc = "waiting" =>
                             /\ user[w].by \in Tokens!Users /\ job'[user[w].by].pc # "none"
                             /\ job'[user[w].by].kind = user[w].kind
                             /\ job'[user[w].by].want = user[w].want
                        /\ job'[w].pc # "none" => user[w].pc = "waiting" /\ user[w].by = w
      BY <1>1, <1>8 DEF Waits
    <2> QED
      BY <1>2, <1>7 DEF Waits
  <1>13. Chains'
    <2> SUFFICES ASSUME NEW c \in Callers
                 PROVE  LET a == <<c, "call">>  h == <<c, "chain">> IN
                        /\ job'[h].pc # "chain"
                        /\ user[h].pc # "idle" => user[h].kind = "oauth"
                        /\ job'[a].pc = "chain" =>
                             /\ job'[a].kind = "aws" /\ user[h].pc # "idle"
                             /\ user[h].want = SubSeq(job'[a].want, 1, 2)
                        /\ job'[a].pc # "chain" => user[h].pc \in {"idle", "done"}
      BY <1>1 DEF Chains
    <2>1. /\ job'[<<c, "chain">>].pc = job[<<c, "chain">>].pc
          /\ job'[<<c, "call">>].pc = job[<<c, "call">>].pc
          /\ job'[<<c, "call">>].kind = job[<<c, "call">>].kind
          /\ job'[<<c, "call">>].want = job[<<c, "call">>].want
      BY <1>7, CallersUsers
    <2> QED
      BY <1>2, <2>1 DEF Chains
  <1>14. Uncached'
    BY <1>1, <1>2, <1>7 DEF Uncached
  <1>15. HandedOut'
    <2>1. \A w \in Tokens!Users : job'[w].via # None => job'[w].viaLive
      <3> SUFFICES ASSUME NEW w \in Tokens!Users, job'[w].via # None  PROVE job'[w].viaLive
        OBVIOUS
      <3>1. job[w].viaLive
        BY <1>2, <1>7 DEF HandedOut
      <3> QED
        BY <1>5, <1>6, <3>1
    <2> QED
      BY <1>1, <1>2, <1>7, <2>1 DEF HandedOut
  <1> QED
    BY <1>9, <1>10, <1>11, <1>12, <1>13, <1>14, <1>15 DEF TokenInv

\* The "aws" exchange goes on with what its chain got.
LEMMA TokensResume ==
  ASSUME TokenInv, NEW c \in Callers, Tokens!ResumeChain(c)
  PROVE  TokenInv'
  <1> DEFINE h == <<c, "chain">>
             a == <<c, "call">>
             b == [job[a] EXCEPT !.pc = "sent", !.via = user[h].tok, !.viaLive = user[h].live]
  <1>1. TokenTypes /\ Caches /\ Flights /\ Waits /\ Chains /\ Uncached /\ HandedOut
    BY DEF TokenInv
  <1>2. user[h].pc = "done" /\ job[a].pc = "chain" /\ UNCHANGED <<cfg, cache>>
    BY DEF Tokens!ResumeChain
  <1>3. a \in Tokens!Users /\ h \in Tokens!Users /\ a # h /\ a[1] = c
    BY CallersUsers
  <1>4. /\ Entry' = Entry /\ UserState' = UserState /\ Exchange' = Exchange /\ Wants' = Wants
    BY <1>2 DEF Toks, Wants, Roles, Entry, UserState, Exchange
  <1>5. CachesOK'
    BY <1>1, <1>2, <1>4 DEF TokenTypes, CachesOK, Caches, Proper
  <1>6. CASE user[h].tok = None
    <2>1. Tokens!Settle(a, None, FALSE)
      BY <1>6 DEF Tokens!ResumeChain
    <2>2. \A v \in Tokens!Users :
            v # a /\ job[v].pc # "none" /\ job[v].kind \in {"oauth", "aws"} =>
              \A i \in DOMAIN cache'[job[v].kind] : cache'[job[v].kind][i].key # job[v].want
      BY <1>1, <1>2 DEF Uncached
    <2>3. job[a].pc # "none" /\ user[<<a[1], "chain">>].pc = "done" /\ cfg' = cfg
      BY <1>2, <1>3
    <2> HIDE DEF a
    <2> QED
      BY <1>3, <1>5, <2>1, <2>2, <2>3, TokensSettle
  <1>7. CASE user[h].tok # None
    <2>1. /\ job' = [job EXCEPT ![a] = b] /\ user' = [user EXCEPT ![h] = Tokens!Idle]
          /\ inflight' = inflight
      BY <1>7 DEF Tokens!ResumeChain
    <2>2. user[h] \in UserState /\ job[a] \in Exchange
      BY <1>1, <1>3 DEF TokenTypes
    <2>3. /\ b \in Exchange /\ b.pc = "sent" /\ b.kind = job[a].kind /\ b.want = job[a].want
          /\ b.via = user[h].tok
      BY <2>2 DEF Exchange, UserState
    <2>4. b.viaLive = user[h].live
      BY <2>2 DEF Exchange, UserState
    <2>5. /\ Tokens!Idle \in UserState /\ Tokens!Idle.pc = "idle" /\ Tokens!Idle.tok = None
      BY DEF Tokens!Idle, UserState
    <2> HIDE DEF a, h, b
    <2>6. /\ job' \in [Tokens!Users -> Exchange] /\ job'[a] = b
          /\ \A v \in Tokens!Users : v # a => job'[v] = job[v]
      BY <1>1, <1>3, <2>1, <2>3 DEF TokenTypes
    <2>7. /\ user' \in [Tokens!Users -> UserState] /\ user'[h] = Tokens!Idle
          /\ \A v \in Tokens!Users : v # h => user'[v] = user[v]
      BY <1>1, <1>3, <2>1, <2>5 DEF TokenTypes
    <2>8. \A v \in Tokens!Users :
            /\ job'[v].pc # "none" <=> job[v].pc # "none"
            /\ job'[v].kind = job[v].kind /\ job'[v].want = job[v].want
      BY <1>2, <1>3, <2>3, <2>6
    <2>9. /\ job[a].kind = "aws" /\ user[h].kind = "oauth"
          /\ user[h].want = SubSeq(job[a].want, 1, 2)
      BY <1>1, <1>2 DEF Chains, a, h
    <2>10. TokenTypes'
      BY <1>1, <1>2, <1>4, <2>1, <2>6, <2>7 DEF TokenTypes
    <2>11. Flights'
      BY <1>1, <2>1, <2>8 DEF Flights, TokenTypes
    <2>12. job[h].pc = "none"
      BY <1>1, <1>2, <1>3 DEF Waits
    <2>13. Waits'
      <3> SUFFICES ASSUME NEW w \in Tokens!Users
                   PROVE  /\ user'[w].pc \in {"lookup", "join", "waiting"} =>
                               /\ user'[w].kind \in Tokens!Kinds /\ user'[w].want \in Wants
                               /\ user'[w].kind = "aws" => SubSeq(user'[w].want, 1, 2) \in Wants
                          /\ user'[w].pc = "join" => user'[w].kind = "vertex"
                          /\ user'[w].pc = "waiting" =>
                               /\ user'[w].by \in Tokens!Users /\ job'[user'[w].by].pc # "none"
                               /\ job'[user'[w].by].kind = user'[w].kind
                               /\ job'[user'[w].by].want = user'[w].want
                          /\ job'[w].pc # "none" => user'[w].pc = "waiting" /\ user'[w].by = w
        BY <1>4 DEF Waits
      <3>1. CASE w = h
        <4>1. user'[w].pc = "idle" /\ job'[w].pc = "none"
          BY <2>5, <2>7, <2>8, <2>12, <3>1
        <4> QED
          BY <4>1
      <3>2. CASE w # h
        <4>1. user'[w] = user[w]
          BY <2>7, <3>2
        <4> QED
          BY <1>1, <2>8, <4>1 DEF Waits
      <3> QED
        BY <3>1, <3>2
    <2>14. Chains'
      <3> SUFFICES ASSUME NEW c2 \in Callers
                   PROVE  LET a2 == <<c2, "call">>  h2 == <<c2, "chain">> IN
                          /\ job'[h2].pc # "chain"
                          /\ user'[h2].pc # "idle" => user'[h2].kind = "oauth"
                          /\ job'[a2].pc = "chain" =>
                               /\ job'[a2].kind = "aws" /\ user'[h2].pc # "idle"
                               /\ user'[h2].want = SubSeq(job'[a2].want, 1, 2)
                          /\ job'[a2].pc # "chain" => user'[h2].pc \in {"idle", "done"}
        BY DEF Chains
      <3> DEFINE a2 == <<c2, "call">>
                 h2 == <<c2, "chain">>
      <3>1. a2 \in Tokens!Users /\ h2 \in Tokens!Users /\ a2 # h2 /\ h2 # a /\ a2 # h
        BY CallersUsers DEF a, h
      <3>2. c2 # c => a2 # a /\ h2 # h
        BY DEF a, h
      <3>3. c2 = c => a2 = a /\ h2 = h
        BY DEF a, h
      <3>4. /\ job[h2].pc # "chain"
            /\ user[h2].pc # "idle" => user[h2].kind = "oauth"
            /\ job[a2].pc = "chain" =>
                 /\ job[a2].kind = "aws" /\ user[h2].pc # "idle"
                 /\ user[h2].want = SubSeq(job[a2].want, 1, 2)
            /\ job[a2].pc # "chain" => user[h2].pc \in {"idle", "done"}
        BY <1>1 DEF Chains
      <3> HIDE DEF a2, h2
      <3>5. CASE c2 = c
        <4>1. user'[h2].pc = "idle" /\ job'[a2].pc = "sent" /\ job'[h2] = job[h2]
          BY <2>3, <2>5, <2>6, <2>7, <3>1, <3>3, <3>5
        <4> QED
          BY <3>4, <4>1 DEF a2, h2
      <3>6. CASE c2 # c
        <4>1. user'[h2] = user[h2] /\ job'[a2] = job[a2] /\ job'[h2] = job[h2]
          BY <2>6, <2>7, <3>1, <3>2, <3>6
        <4> QED
          BY <3>4, <4>1 DEF a2, h2
      <3> QED
        BY <3>5, <3>6
    <2>15. Uncached'
      BY <1>1, <1>2, <2>8 DEF Uncached
    <2>16. HandedOut'
      <3>1. user[h].tok = [kind |-> user[h].kind, for |-> user[h].want] /\ user[h].live
        BY <1>1, <1>3, <1>7 DEF HandedOut
      <3>2. ASSUME NEW w \in Tokens!Users, user'[w].tok # None
            PROVE  user'[w].tok = [kind |-> user'[w].kind, for |-> user'[w].want] /\ user'[w].live
        <4>1. user'[w] = user[w]
          BY <2>5, <2>7, <3>2
        <4> QED
          BY <1>1, <3>2, <4>1 DEF HandedOut
      <3>3. ASSUME NEW w \in Tokens!Users, job'[w].via # None
            PROVE  job'[w].via.for = SubSeq(job'[w].want, 1, 2) /\ job'[w].viaLive
        <4>1. CASE w = a
          <5>1. b.via.for = user[h].want
            BY <2>3, <3>1
          <5>2. b.viaLive
            BY <2>4, <3>1
          <5> QED
            BY <2>3, <2>6, <2>9, <4>1, <5>1, <5>2
        <4>2. CASE w # a
          <5>1. job'[w] = job[w]
            BY <2>6, <4>2
          <5> QED
            BY <1>1, <3>3, <5>1 DEF HandedOut
        <4> QED
          BY <4>1, <4>2
      <3>4. \A w \in Tokens!Users :
              job'[w].pc = "sent" => (job'[w].via # None <=> job'[w].kind = "aws")
        BY <1>1, <1>7, <2>3, <2>6, <2>9 DEF HandedOut
      <3> QED
        BY <3>2, <3>3, <3>4 DEF HandedOut
    <2> QED
      BY <1>5, <2>10, <2>11, <2>13, <2>14, <2>15, <2>16 DEF TokenInv, CachesOK
  <1> QED
    BY <1>6, <1>7

\* Time passes for every entry.
LEMMA LessIsMonotone ==
  ASSUME NEW n \in Nat, NEW m \in Nat, n <= m
  PROVE  Tokens!Less(n) \in Nat /\ Tokens!Less(m) \in Nat /\ Tokens!Less(n) <= Tokens!Less(m)
  <1>1. CASE n > 0
    BY <1>1 DEF Tokens!Less
  <1>2. CASE ~(n > 0)
    BY <1>2 DEF Tokens!Less
  <1> QED
    BY <1>1, <1>2

LEMMA AgedEntry ==
  ASSUME NEW e \in Entry
  PROVE  LET a == [e EXCEPT !.keep = Tokens!Less(@), !.left = Tokens!Less(@)] IN
         /\ a \in Entry /\ a.key = e.key /\ a.tok = e.tok
         /\ e.keep <= e.left => a.keep <= a.left
  <1>1. e.keep \in Nat /\ e.left \in Nat
    BY DEF Entry
  <1>2. \A n \in Nat : n <= n
    OBVIOUS
  <1>3. Tokens!Less(e.keep) \in Nat /\ Tokens!Less(e.left) \in Nat
    BY <1>1, <1>2, LessIsMonotone
  <1>4. e.keep <= e.left => Tokens!Less(e.keep) <= Tokens!Less(e.left)
    BY <1>1, LessIsMonotone
  <1> DEFINE a == [e EXCEPT !.keep = Tokens!Less(@), !.left = Tokens!Less(@)]
  <1>5. /\ a \in Entry /\ a.key = e.key /\ a.tok = e.tok
        /\ a.keep = Tokens!Less(e.keep) /\ a.left = Tokens!Less(e.left)
    BY <1>3 DEF Entry
  <1> HIDE DEF a
  <1>6. e.keep <= e.left => a.keep <= a.left
    BY <1>4, <1>5
  <1> QED
    BY <1>5, <1>6 DEF a

LEMMA AgedIsProper ==
  ASSUME NEW kind, NEW s, Proper(s, kind), NEW t, t \in [DOMAIN s -> Entry],
         \A i \in DOMAIN s : /\ t[i].key = s[i].key /\ t[i].tok = s[i].tok
                             /\ s[i].keep <= s[i].left => t[i].keep <= t[i].left
  PROVE  Proper(t, kind) /\ Len(t) = Len(s)
  <1>1. s \in Seq(Entry) /\ Len(s) \in Nat /\ DOMAIN s = 1 .. Len(s)
    BY LenProperties DEF Proper
  <1>2. DOMAIN t = DOMAIN s
    OBVIOUS
  <1>3. t \in Seq(Entry)
    BY <1>1, SeqDef
  <1>4. Len(t) = Len(s)
    BY <1>1, <1>2, <1>3, LenProperties
  <1>5. Proper(t, kind)
    BY <1>2, <1>3 DEF Proper
  <1> QED
    BY <1>4, <1>5

LEMMA TokensTick ==
  ASSUME TokenInv, Tokens!Tick
  PROVE  TokenInv'
  <1> DEFINE aged(k2) == [i \in DOMAIN cache[k2] |->
               [cache[k2][i] EXCEPT !.keep = Tokens!Less(@), !.left = Tokens!Less(@)]]
  <1>1. TokenTypes /\ Caches /\ Flights /\ Waits /\ Chains /\ Uncached /\ HandedOut
    BY DEF TokenInv
  <1>2. cache' = [k2 \in Tokens!Kinds |-> aged(k2)] /\ UNCHANGED <<cfg, inflight, user, job>>
    BY DEF Tokens!Tick
  <1>3. /\ Entry' = Entry /\ UserState' = UserState /\ Exchange' = Exchange /\ Wants' = Wants
    BY <1>2 DEF Toks, Wants, Roles, Entry, UserState, Exchange
  <1>4. ASSUME NEW k2 \in Tokens!Kinds
        PROVE  /\ Proper(aged(k2), k2) /\ Len(aged(k2)) = Len(cache[k2])
               /\ DOMAIN aged(k2) = DOMAIN cache[k2]
               /\ \A i \in DOMAIN cache[k2] : aged(k2)[i].key = cache[k2][i].key
    <2> DEFINE e(i) == [cache[k2][i] EXCEPT !.keep = Tokens!Less(@), !.left = Tokens!Less(@)]
    <2>1. Proper(cache[k2], k2)
      BY <1>1 DEF Caches
    <2>2. \A i \in DOMAIN cache[k2] : cache[k2][i] \in Entry
      BY <2>1, LenProperties, ElementOfSeq DEF Proper
    <2>3. \A i \in DOMAIN cache[k2] :
            /\ e(i) \in Entry /\ e(i).key = cache[k2][i].key /\ e(i).tok = cache[k2][i].tok
            /\ cache[k2][i].keep <= cache[k2][i].left => e(i).keep <= e(i).left
      BY <2>2, AgedEntry
    <2>4. aged(k2) = [i \in DOMAIN cache[k2] |-> e(i)]
      OBVIOUS
    <2> HIDE DEF e, aged
    <2>5. aged(k2) \in [DOMAIN cache[k2] -> Entry]
      BY <2>3, <2>4
    <2>6. \A i \in DOMAIN cache[k2] : aged(k2)[i] = e(i)
      BY <2>4
    <2> QED
      BY <2>1, <2>3, <2>5, <2>6, AgedIsProper
  <1> HIDE DEF aged
  <1>5. \A k2 \in Tokens!Kinds : cache'[k2] = aged(k2)
    BY <1>2
  <1>6. cache' \in [Tokens!Kinds -> Seq(Entry)]
    BY <1>2, <1>4 DEF Proper
  <1>7. Caches'
    <2>1. \A k2 \in Tokens!Kinds : Proper(cache'[k2], k2)
      BY <1>4, <1>5
    <2>2. \A k2 \in {"oauth", "aws", "vertex"} : Len(cache'[k2]) <= MaxTokens
      BY <1>1, <1>4, <1>5 DEF Caches, Tokens!Kinds
    <2> QED
      BY <1>3, <2>1, <2>2 DEF Caches, Proper
  <1>8. Uncached'
    <2>1. \A k2 \in {"oauth", "aws"} :
            /\ DOMAIN cache'[k2] = DOMAIN cache[k2]
            /\ \A i \in DOMAIN cache[k2] : cache'[k2][i].key = cache[k2][i].key
      BY <1>4, <1>5 DEF Tokens!Kinds
    <2> QED
      BY <1>1, <1>2, <2>1 DEF Uncached
  <1>9. TokenTypes'
    BY <1>1, <1>2, <1>3, <1>6 DEF TokenTypes
  <1>10. Flights' /\ Waits'
    BY <1>1, <1>2, <1>3 DEF Flights, Waits
  <1>11. Chains' /\ HandedOut'
    BY <1>1, <1>2 DEF Chains, HandedOut
  <1> QED
    BY <1>7, <1>8, <1>9, <1>10, <1>11 DEF TokenInv

LEMMA TokensInitially == Tokens!Init => TokenInv
  <1> SUFFICES ASSUME Tokens!Init  PROVE TokenInv
    OBVIOUS
  <1>1. /\ cfg \in Settings /\ cache = [k2 \in Tokens!Kinds |-> <<>>] /\ inflight = {}
        /\ user = [u \in Tokens!Users |-> Tokens!Idle]
        /\ job = [u \in Tokens!Users |-> Tokens!NoJob]
    BY DEF Tokens!Init
  <1>2. /\ Tokens!Idle \in UserState /\ Tokens!Idle.pc = "idle" /\ Tokens!Idle.tok = None
    BY DEF Tokens!Idle, UserState
  <1>3. /\ Tokens!NoJob \in Exchange /\ Tokens!NoJob.pc = "none" /\ Tokens!NoJob.via = None
    BY DEF Tokens!NoJob, Exchange
  <1>4. \A u \in Tokens!Users : user[u] = Tokens!Idle /\ job[u] = Tokens!NoJob
    BY <1>1
  <1>5. \A k2 \in Tokens!Kinds : cache[k2] = <<>>
    BY <1>1
  <1>6. \A c \in Callers : <<c, "call">> \in Tokens!Users /\ <<c, "chain">> \in Tokens!Users
    BY CallersUsers
  <1>7. <<>> \in Seq(Entry) /\ DOMAIN <<>> = {} /\ Len(<<>>) = 0
    OBVIOUS
  <1>8. MaxTokens \in Nat
    BY TokenAssumption
  <1>9. TokenTypes
    BY <1>1, <1>2, <1>3, <1>7 DEF TokenTypes
  <1>10. Caches
    <2>1. \A k2 : Proper(<<>>, k2)
      BY <1>7 DEF Proper
    <2>2. \A k2 \in {"oauth", "aws", "vertex"} : Len(cache[k2]) <= MaxTokens
      BY <1>5, <1>7, <1>8 DEF Tokens!Kinds
    <2> QED
      BY <1>5, <2>1, <2>2 DEF Caches
  <1>11. Flights
    BY <1>1, <1>3, <1>4 DEF Flights
  <1>12. Waits
    BY <1>2, <1>3, <1>4 DEF Waits
  <1>13. Chains
    BY <1>2, <1>3, <1>4, <1>6 DEF Chains
  <1>14. Uncached
    BY <1>3, <1>4 DEF Uncached
  <1>15. HandedOut
    BY <1>2, <1>3, <1>4 DEF HandedOut
  <1> QED
    BY <1>9, <1>10, <1>11, <1>12, <1>13, <1>14, <1>15 DEF TokenInv

LEMMA TokensStep ==
  ASSUME TokenInv, Tokens!Next
  PROVE  TokenInv'
  BY TokensAsk, TokensRefuse, TokensResume, TokensLook, TokensJoinStep, TokensAnswer,
     TokensReject, TokensRetry, TokensTick
     DEF Tokens!Next

LEMMA TokensStutter ==
  ASSUME TokenInv, UNCHANGED Tokens!vars
  PROVE  TokenInv'
  <1>1. UNCHANGED <<cfg, cache, inflight, user, job>>
    BY DEF Tokens!vars
  <1>2. /\ Entry' = Entry /\ UserState' = UserState /\ Exchange' = Exchange /\ Wants' = Wants
    BY <1>1 DEF Toks, Wants, Roles, Entry, UserState, Exchange
  <1>3. TokenTypes' /\ Caches' /\ Flights'
    BY <1>1, <1>2 DEF TokenInv, TokenTypes, Caches, Proper, Flights
  <1>4. Waits' /\ Chains' /\ Uncached' /\ HandedOut'
    BY <1>1, <1>2 DEF TokenInv, Waits, Chains, Uncached, HandedOut
  <1> QED
    BY <1>3, <1>4 DEF TokenInv

LEMMA TokensAreSafe ==
  TokenInv => /\ Tokens!TypeOK /\ Tokens!OneExchange /\ Tokens!FlightsAreRunning
              /\ Tokens!AnswerIsOwn /\ Tokens!AnswerIsLive /\ Tokens!CacheIsBounded
  <1> SUFFICES ASSUME TokenInv
               PROVE  /\ Tokens!TypeOK /\ Tokens!OneExchange /\ Tokens!FlightsAreRunning
                      /\ Tokens!AnswerIsOwn /\ Tokens!AnswerIsLive /\ Tokens!CacheIsBounded
    OBVIOUS
  <1>1. TokenTypes /\ Caches /\ Flights /\ HandedOut
    BY DEF TokenInv
  <1>2. Tokens!TypeOK
    <2>1. \A u \in Tokens!Users :
            /\ user[u].pc \in {"idle", "lookup", "join", "waiting", "done"}
            /\ job[u].pc \in {"none", "chain", "sent"}
      BY <1>1 DEF TokenTypes, UserState, Exchange
    <2>2. \A f \in inflight : f.kind \in Tokens!Kinds /\ f.by \in Tokens!Users
      BY <1>1 DEF TokenTypes
    <2> QED
      BY <1>1, <2>1, <2>2 DEF Tokens!TypeOK, HandedOut
  <1>3. Tokens!OneExchange
    BY <1>1 DEF Tokens!OneExchange, Tokens!Running, Tokens!KeyOf, Flights
  <1>4. Tokens!FlightsAreRunning
    BY <1>1 DEF Tokens!FlightsAreRunning, Tokens!Running, Flights, TokenTypes
  <1>5. Tokens!AnswerIsOwn
    <2>1. ASSUME NEW u \in Tokens!Users, user[u].tok # None
          PROVE  user[u].tok.kind = user[u].kind /\ user[u].tok.for = user[u].want
      <3>1. user[u].tok = [kind |-> user[u].kind, for |-> user[u].want]
        BY <1>1, <2>1 DEF HandedOut
      <3> QED
        BY <3>1
    <2> QED
      BY <1>1, <2>1 DEF Tokens!AnswerIsOwn, HandedOut
  <1>6. Tokens!AnswerIsLive
    BY <1>1 DEF Tokens!AnswerIsLive, HandedOut
  <1>7. Tokens!CacheIsBounded
    BY <1>1 DEF Tokens!CacheIsBounded, Caches, Proper
  <1> QED
    BY <1>2, <1>3, <1>4, <1>5, <1>6, <1>7

-----------------------------------------------------------------------------
\* Failover.

Cand == 1 .. Len(Route)
Hows == {"ok", "raise", "next", "next_larger_context", "retry_after", "now"}
Tries == [candidate : Cand, how : Hows]
BreakerState ==
  [state : {"closed", "open", "half_open"}, failures : 0 .. FailureThreshold,
   probes : 0 .. HalfOpenMaxProbes, waited : BOOLEAN]
CallState ==
  [at : {"idle", "calling", "waiting"} \cup Routed!Answers, current : 0 .. Len(Route),
   queue : Seq(Cand), retries : 0 .. RateLimitRetries, minWindow : Nat \cup {Routed!NoWindow},
   attempts : Seq(Tries), skipped : Seq(Routed!SkipReasons)]

\* A breaker that is closed has not failed often enough to open.
Sound(b) == b \in BreakerState /\ (b.state = "closed" => b.failures < FailureThreshold)

\* The probe slots of a breaker that matter.
Load(b) == IF b.state = "half_open" THEN b.probes ELSE 0

\* A registry of sound breakers, within its bound, each provider once.
Kept(w) ==
  /\ DOMAIN w.breaker = Routed!Providers
  /\ \A p \in Routed!Providers : Sound(w.breaker[p])
  /\ w.tracked \in Seq(Routed!Providers) /\ Len(w.tracked) <= MaxBreakers
  /\ \A i, j \in DOMAIN w.tracked : w.tracked[i] = w.tracked[j] => i = j

RoutedTypes == Kept(Routed!Registry) /\ call \in [RoutedCalls -> CallState]

\* How often candidate i is among the attempts a.
Count(a, i) == Cardinality({j \in DOMAIN a : a[j].candidate = i})

\* The candidate i may be tried after the attempts a.
MayFollow(a, i) ==
  /\ Route[i].compliant /\ Count(a, i) <= RateLimitRetries
  /\ \A j \in DOMAIN a :
       /\ a[j].candidate <= i /\ a[j].how \notin {"ok", "raise"}
       /\ a[j].candidate = i => a[j].how = "retry_after"
       /\ a[j].how = "next_larger_context" => Route[i].window > Route[a[j].candidate].window

\* AttemptsFollowTheMatrix, of the attempts a.
Follow(a) ==
  \A i \in DOMAIN a :
    /\ Route[a[i].candidate].compliant
    /\ Count(a, a[i].candidate) <= 1 + RateLimitRetries
    /\ \A j \in DOMAIN a : i < j =>
         /\ a[i].candidate <= a[j].candidate
         /\ a[i].candidate = a[j].candidate => a[i].how = "retry_after"
         /\ a[i].how \notin {"ok", "raise"}
         /\ a[i].how = "next_larger_context"
              => Route[a[j].candidate].window > Route[a[i].candidate].window

\* Of sequence q every element is greater than i and those before it.
Rising(q, i) ==
  /\ \A m \in DOMAIN q : q[m] > i
  /\ \A m, n \in DOMAIN q : m < n => q[m] < q[n]

\* The windows that were too small are remembered.
Remembers(rec) ==
  \A j \in DOMAIN rec.attempts :
    rec.attempts[j].how = "next_larger_context"
      => rec.minWindow \in Nat /\ Route[rec.attempts[j].candidate].window <= rec.minWindow

\* A call under way may try its candidate, as often as its retries say, and
\* what is in its queue comes later.
UnderWay(rec) ==
  rec.at \in {"calling", "waiting"} =>
    /\ rec.current \in Cand /\ Count(rec.attempts, rec.current) <= rec.retries
    /\ MayFollow(rec.attempts, rec.current) /\ Rising(rec.queue, rec.current)

Honest(rec) ==
  /\ rec.at = "policy_violation" => \A i \in Cand : ~Route[i].compliant
  /\ rec.at = "no_available_candidate" => rec.attempts = << >>

CallIsHonest(rec) == Follow(rec.attempts) /\ Remembers(rec) /\ UnderWay(rec) /\ Honest(rec)

\* Every probe slot that is taken belongs to a call in flight.
Probes == \A p \in Routed!Providers : Load(breaker[p]) <= Cardinality(Routed!InFlight(p))

RoutedInv == RoutedTypes /\ (\A c \in RoutedCalls : CallIsHonest(call[c])) /\ Probes

-----------------------------------------------------------------------------
\* What the operations of a breaker do to its probe slots.
LEMMA FreshBreaker == Sound(Routed!Fresh) /\ Load(Routed!Fresh) = 0
  BY RoutedAssumption DEF Sound, Load, BreakerState, Routed!Fresh

LEMMA MovedBreaker ==
  ASSUME NEW b \in BreakerState, NEW to \in {"closed", "open", "half_open"}, to # b.state
  PROVE  Sound(Routed!Move(b, to)) /\ Load(Routed!Move(b, to)) = 0
         /\ Routed!Move(b, to).state = to /\ Routed!Move(b, to).probes = 0
  <1> DEFINE m == Routed!Move(b, to)
  <1>1. m = [state |-> to, failures |-> IF to = "closed" THEN 0 ELSE b.failures,
             probes |-> 0, waited |-> FALSE]
    BY DEF Routed!Move
  <1> HIDE DEF m
  <1>2. m \in BreakerState /\ m.state = to /\ m.probes = 0 /\ (to = "closed" => m.failures = 0)
    BY <1>1, RoutedAssumption DEF BreakerState
  <1>3. Sound(m) /\ Load(m) = 0
    BY <1>2, RoutedAssumption DEF Sound, Load
  <1> QED
    BY <1>2, <1>3 DEF m

LEMMA CurrentBreaker ==
  ASSUME NEW b, Sound(b)
  PROVE  Sound(Routed!CurrentState(b)) /\ Load(Routed!CurrentState(b)) <= Load(b)
  <1>1. CASE b.state = "open" /\ b.waited
    <2>1. Routed!CurrentState(b) = Routed!Move(b, "half_open")
      BY <1>1 DEF Routed!CurrentState
    <2> QED
      BY <1>1, <2>1, MovedBreaker DEF Sound, Load
  <1>2. CASE ~(b.state = "open" /\ b.waited)
    <2>1. Routed!CurrentState(b) = b
      BY <1>2 DEF Routed!CurrentState
    <2>2. Load(b) \in Int
      BY RoutedAssumption DEF Sound, Load, BreakerState
    <2> QED
      BY <2>1, <2>2
  <1> QED
    BY <1>1, <1>2

LEMMA AllowedBreaker ==
  ASSUME NEW b, Sound(b)
  PROVE  /\ Sound(Routed!Allow(b))
         /\ Load(Routed!Allow(b)) <= Load(b) + (IF Routed!Allows(b) THEN 1 ELSE 0)
  <1> DEFINE n == Routed!CurrentState(b)
  <1>1. Sound(n) /\ Load(n) <= Load(b)
    BY CurrentBreaker
  <1>2. /\ Routed!Allow(b) = IF n.state = "half_open" /\ n.probes < HalfOpenMaxProbes
                             THEN [n EXCEPT !.probes = @ + 1] ELSE n
        /\ Routed!Allows(b)
             = (n.state = "closed" \/ (n.state = "half_open" /\ n.probes < HalfOpenMaxProbes))
    BY DEF Routed!Allow, Routed!Allows
  <1> HIDE DEF n
  <1>3. Load(b) \in Nat /\ Load(n) \in Nat
    BY <1>1, RoutedAssumption DEF Sound, Load, BreakerState
  <1>4. CASE n.state = "half_open" /\ n.probes < HalfOpenMaxProbes
    <2> DEFINE m == [n EXCEPT !.probes = @ + 1]
    <2>1. m \in BreakerState /\ m.state = "half_open" /\ m.probes = n.probes + 1
      BY <1>1, <1>4, RoutedAssumption DEF Sound, BreakerState
    <2>2. Routed!Allow(b) = m
      BY <1>2, <1>4
    <2> HIDE DEF m
    <2>3. Routed!Allows(b) /\ Sound(m)
      BY <1>2, <1>4, <2>1 DEF Sound
    <2>4. Load(m) = n.probes + 1 /\ Load(n) = n.probes
      BY <1>4, <2>1 DEF Load
    <2> QED
      BY <1>1, <1>3, <2>2, <2>3, <2>4
  <1>5. CASE ~(n.state = "half_open" /\ n.probes < HalfOpenMaxProbes)
    BY <1>1, <1>2, <1>3, <1>5
  <1> QED
    BY <1>4, <1>5

LEMMA SucceededBreaker ==
  ASSUME NEW b, Sound(b)
  PROVE  Sound(Routed!RecordSuccess(b)) /\ Load(Routed!RecordSuccess(b)) = 0
  <1>1. CASE b.state = "half_open"
    BY <1>1, MovedBreaker DEF Sound, Routed!RecordSuccess
  <1>2. CASE b.state = "closed"
    BY <1>2, RoutedAssumption DEF Sound, Load, BreakerState, Routed!RecordSuccess
  <1>3. CASE b.state = "open"
    BY <1>3 DEF Sound, Load, BreakerState, Routed!RecordSuccess
  <1> QED
    BY <1>1, <1>2, <1>3 DEF Sound, BreakerState

LEMMA FailedBreaker ==
  ASSUME NEW b, Sound(b)
  PROVE  Sound(Routed!RecordFailure(b)) /\ Load(Routed!RecordFailure(b)) = 0
  <1>1. CASE b.state = "half_open"
    BY <1>1, MovedBreaker DEF Sound, Routed!RecordFailure
  <1>2. CASE b.state = "closed"
    <2> DEFINE n == [b EXCEPT !.failures = @ + 1]
    <2>1. n \in BreakerState /\ n.state = "closed" /\ n.failures = b.failures + 1
      BY <1>2, RoutedAssumption DEF Sound, BreakerState
    <2>2. Routed!RecordFailure(b)
            = IF n.failures >= FailureThreshold THEN Routed!Move(n, "open") ELSE n
      BY <1>2, Zenon DEF Routed!RecordFailure
    <2> HIDE DEF n
    <2>3. CASE n.failures >= FailureThreshold
      BY <2>1, <2>2, <2>3, MovedBreaker
    <2>4. CASE ~(n.failures >= FailureThreshold)
      BY <2>1, <2>2, <2>4, RoutedAssumption DEF Sound, Load, BreakerState
    <2> QED
      BY <2>3, <2>4
  <1>3. CASE b.state = "open"
    BY <1>3 DEF Sound, Load, BreakerState, Routed!RecordFailure
  <1> QED
    BY <1>1, <1>2, <1>3 DEF Sound, BreakerState

LEMMA ReleasedBreaker ==
  ASSUME NEW b, Sound(b)
  PROVE  /\ Sound(Routed!ReleaseSlot(b))
         /\ Load(Routed!ReleaseSlot(b)) = IF Load(b) > 0 THEN Load(b) - 1 ELSE 0
  <1>1. CASE b.state = "half_open" /\ b.probes > 0
    <2> DEFINE n == [b EXCEPT !.probes = @ - 1]
    <2>1. n \in BreakerState /\ n.state = "half_open" /\ n.probes = b.probes - 1
      BY <1>1, RoutedAssumption DEF Sound, BreakerState
    <2>2. Routed!ReleaseSlot(b) = n
      BY <1>1 DEF Routed!ReleaseSlot
    <2> HIDE DEF n
    <2>3. Sound(n)
      BY <2>1 DEF Sound
    <2>4. Load(n) = b.probes - 1 /\ Load(b) = b.probes
      BY <1>1, <2>1 DEF Load
    <2> QED
      BY <1>1, <2>2, <2>3, <2>4
  <1>2. CASE ~(b.state = "half_open" /\ b.probes > 0)
    BY <1>2, RoutedAssumption DEF Sound, Load, BreakerState, Routed!ReleaseSlot
  <1> QED
    BY <1>1, <1>2

LEMMA DrainedBreaker ==
  ASSUME NEW b, Sound(b)
  PROVE  Sound(Routed!ForceOpened(b)) /\ Load(Routed!ForceOpened(b)) = 0
  <1>1. CASE b.state = "open"
    BY <1>1, RoutedAssumption DEF Sound, Load, BreakerState, Routed!ForceOpened
  <1>2. CASE b.state # "open"
    BY <1>2, MovedBreaker DEF Sound, Routed!ForceOpened
  <1> QED
    BY <1>1, <1>2

LEMMA RemovedAt ==
  ASSUME NEW S, NEW s \in Seq(S), NEW i \in DOMAIN s
  PROVE  /\ Routed!RemoveAt(s, i) \in Seq(S)
         /\ Len(Routed!RemoveAt(s, i)) = Len(s) - 1
         /\ \A j \in 1 .. (Len(s) - 1) : Routed!RemoveAt(s, i)[j] = s[IF j < i THEN j ELSE j + 1]
  <1> DEFINE front == SubSeq(s, 1, i - 1)
             back == SubSeq(s, i + 1, Len(s))
             r == Routed!RemoveAt(s, i)
  <1>1. Len(s) \in Nat /\ DOMAIN s = 1 .. Len(s) /\ i \in 1 .. Len(s) /\ \A j \in DOMAIN s : s[j] \in S
    BY LenProperties, ElementOfSeq
  <1>2. /\ front \in Seq(S) /\ Len(front) = i - 1
        /\ \A j \in 1 .. (i - 1) : front[j] = s[j]
    BY <1>1, SubSeqProperties
  <1>3. /\ back \in Seq(S) /\ Len(back) = Len(s) - i
        /\ \A j \in 1 .. (Len(s) - i) : back[j] = s[i + j]
    BY <1>1, SubSeqProperties
  <1>4. r = front \o back
    BY DEF Routed!RemoveAt
  <1> HIDE DEF r, front, back
  <1>5. /\ r \in Seq(S) /\ Len(r) = Len(front) + Len(back)
        /\ \A j \in 1 .. (Len(front) + Len(back)) :
             r[j] = IF j <= Len(front) THEN front[j] ELSE back[j - Len(front)]
    BY <1>2, <1>3, <1>4, ConcatProperties
  <1>6. r \in Seq(S) /\ Len(r) = Len(s) - 1
    BY <1>1, <1>2, <1>3, <1>5
  <1>7. ASSUME NEW j \in 1 .. (Len(s) - 1)  PROVE r[j] = s[IF j < i THEN j ELSE j + 1]
    <2>1. CASE j < i
      BY <1>1, <1>2, <1>3, <1>5, <1>7, <2>1
    <2>2. CASE j >= i
      <3>1. j - (i - 1) \in 1 .. (Len(s) - i) /\ i + (j - (i - 1)) = j + 1
        BY <1>1, <1>7, <2>2
      <3>2. r[j] = back[j - (i - 1)]
        BY <1>1, <1>2, <1>3, <1>5, <1>7, <2>2
      <3> QED
        BY <1>1, <1>3, <2>2, <3>1, <3>2
    <2> QED
      BY <1>1, <1>7, <2>1, <2>2
  <1> QED
    BY <1>6, <1>7 DEF r

\* What is tracked, each provider once, without one of them.
LEMMA OthersTracked ==
  ASSUME NEW w, Kept(w), NEW p
  PROVE  /\ Routed!Others(w, p) \in Seq(Routed!Providers)
         /\ Len(Routed!Others(w, p)) <= Len(w.tracked)
         /\ \A j \in DOMAIN Routed!Others(w, p) : Routed!Others(w, p)[j] # p
         /\ \A i, j \in DOMAIN Routed!Others(w, p) :
              Routed!Others(w, p)[i] = Routed!Others(w, p)[j] => i = j
  <1> DEFINE s == w.tracked
             o == Routed!Others(w, p)
  <1>1. /\ s \in Seq(Routed!Providers) /\ Len(s) \in Nat /\ DOMAIN s = 1 .. Len(s)
        /\ \A i, j \in DOMAIN s : s[i] = s[j] => i = j
    BY LenProperties DEF Kept
  <1>2. CASE p \in Routed!Range(s)
    <2> DEFINE at == CHOOSE i \in DOMAIN s : s[i] = p
    <2>1. at \in DOMAIN s /\ s[at] = p
      BY <1>2 DEF Routed!Range
    <2>2. o = Routed!RemoveAt(s, at)
      BY <1>2 DEF Routed!Others
    <2> HIDE DEF at, s, o
    <2>3. /\ o \in Seq(Routed!Providers) /\ Len(o) = Len(s) - 1
          /\ \A j \in 1 .. (Len(s) - 1) : o[j] = s[IF j < at THEN j ELSE j + 1]
      <3>1. /\ Routed!RemoveAt(s, at) \in Seq(Routed!Providers)
            /\ Len(Routed!RemoveAt(s, at)) = Len(s) - 1
            /\ \A j \in 1 .. (Len(s) - 1) :
                 Routed!RemoveAt(s, at)[j] = s[IF j < at THEN j ELSE j + 1]
        <4>1. s \in Seq(Routed!Providers)
          BY <1>1
        <4>2. at \in DOMAIN s
          BY <2>1
        <4>3. \A t \in Seq(Routed!Providers) : \A i \in DOMAIN t :
                /\ Routed!RemoveAt(t, i) \in Seq(Routed!Providers)
                /\ Len(Routed!RemoveAt(t, i)) = Len(t) - 1
                /\ \A j \in 1 .. (Len(t) - 1) :
                     Routed!RemoveAt(t, i)[j] = t[IF j < i THEN j ELSE j + 1]
          BY RemovedAt
        <4> QED
          BY <4>1, <4>2, <4>3
      <3> QED
        BY <2>2, <3>1
    <2>4. Len(o) \in Nat /\ DOMAIN o = 1 .. Len(o)
      BY <2>3, LenProperties
    <2>5. ASSUME NEW j \in DOMAIN o
          PROVE  (IF j < at THEN j ELSE j + 1) \in DOMAIN s /\ (IF j < at THEN j ELSE j + 1) # at
      BY <1>1, <2>1, <2>3, <2>4
    <2>6. \A j \in DOMAIN o : o[j] # p
      BY <1>1, <2>1, <2>3, <2>4, <2>5
    <2>7. ASSUME NEW i \in DOMAIN o, NEW j \in DOMAIN o, o[i] = o[j]  PROVE i = j
      <3>1. (IF i < at THEN i ELSE i + 1) = (IF j < at THEN j ELSE j + 1)
        BY <1>1, <2>3, <2>4, <2>5, <2>7
      <3> QED
        BY <1>1, <2>1, <2>4, <3>1
    <2> QED
      BY <1>1, <2>3, <2>6, <2>7 DEF s, o
  <1>3. CASE p \notin Routed!Range(s)
    <2>1. o = s
      BY <1>3 DEF Routed!Others
    <2>2. \A j \in DOMAIN s : s[j] # p
      BY <1>3 DEF Routed!Range
    <2> QED
      BY <1>1, <2>1, <2>2
  <1> QED
    BY <1>2, <1>3

\* get keeps the registry; whom it forgets is fresh again.
LEMMA GotRegistry ==
  ASSUME NEW w, Kept(w), NEW p \in Routed!Providers
  PROVE  /\ Kept(Routed!Get(w, p))
         /\ \A q \in Routed!Providers :
              Load(Routed!Get(w, p).breaker[q]) <= Load(w.breaker[q])
  <1> DEFINE o == Routed!Others(w, p)
             order == Append(o, p)
             g == Routed!Get(w, p)
  <1>1. /\ o \in Seq(Routed!Providers) /\ Len(o) \in Nat /\ DOMAIN o = 1 .. Len(o)
        /\ Len(o) <= MaxBreakers
        /\ \A j \in DOMAIN o : o[j] # p
        /\ \A i, j \in DOMAIN o : o[i] = o[j] => i = j
    <2>1. Len(w.tracked) \in Nat /\ Len(w.tracked) <= MaxBreakers
      BY LenProperties DEF Kept
    <2> HIDE DEF o
    <2>2. /\ o \in Seq(Routed!Providers) /\ Len(o) <= Len(w.tracked)
          /\ \A j \in DOMAIN o : o[j] # p
          /\ \A i, j \in DOMAIN o : o[i] = o[j] => i = j
      BY OthersTracked DEF o
    <2> QED
      BY <2>1, <2>2, LenProperties, RoutedAssumption
  <1>2. /\ order \in Seq(Routed!Providers) /\ Len(order) = Len(o) + 1
        /\ DOMAIN order = 1 .. (Len(o) + 1)
        /\ \A i, j \in DOMAIN order : order[i] = order[j] => i = j
    <2> HIDE DEF o
    <2>1. /\ order \in Seq(Routed!Providers) /\ Len(order) = Len(o) + 1
          /\ \A i \in 1 .. Len(o) : order[i] = o[i]
          /\ order[Len(o) + 1] = p
      BY <1>1, AppendProperties
    <2>2. DOMAIN order = 1 .. (Len(o) + 1)
      BY <2>1, LenProperties
    <2> HIDE DEF order
    <2> QED
      BY <1>1, <2>1, <2>2
  <1>3. \A q \in Routed!Providers : Sound(w.breaker[q]) /\ Load(w.breaker[q]) \in Nat
    BY RoutedAssumption DEF Kept, Sound, Load, BreakerState
  <1>4. CASE Len(order) > MaxBreakers
    <2>1. g.breaker = [w.breaker EXCEPT ![Head(order)] = Routed!Fresh] /\ g.tracked = Tail(order)
      BY <1>4 DEF Routed!Get
    <2> HIDE DEF order, g, o
    <2>2. /\ Tail(order) \in Seq(Routed!Providers) /\ Len(Tail(order)) = Len(o)
          /\ \A i \in 1 .. Len(o) : Tail(order)[i] = order[i + 1]
      <3>1. order # << >>
        BY <1>1, <1>2, EmptySeq
      <3> QED
        BY <1>1, <1>2, <3>1, HeadTailProperties
    <2>3. DOMAIN Tail(order) = 1 .. Len(o)
      BY <2>2, LenProperties
    <2>4. ASSUME NEW i \in DOMAIN Tail(order), NEW j \in DOMAIN Tail(order),
                 Tail(order)[i] = Tail(order)[j]
          PROVE  i = j
      BY <1>1, <1>2, <2>2, <2>3, <2>4
    <2>5. \A q \in Routed!Providers :
            g.breaker[q] = w.breaker[q] \/ g.breaker[q] = Routed!Fresh
      BY <2>1 DEF Kept
    <2>6. DOMAIN g.breaker = Routed!Providers
      BY <2>1 DEF Kept
    <2>7. \A q \in Routed!Providers : Sound(g.breaker[q]) /\ Load(g.breaker[q]) <= Load(w.breaker[q])
      BY <1>3, <2>5, FreshBreaker
    <2> QED
      BY <1>1, <2>1, <2>2, <2>4, <2>6, <2>7 DEF Kept, g
  <1>5. CASE ~(Len(order) > MaxBreakers)
    <2>1. g.breaker = w.breaker /\ g.tracked = order
      BY <1>5 DEF Routed!Get
    <2>2. Len(order) <= MaxBreakers
      BY <1>1, <1>2, <1>5, RoutedAssumption
    <2> HIDE DEF order, g, o
    <2>3. \A q \in Routed!Providers : Sound(g.breaker[q]) /\ Load(g.breaker[q]) <= Load(w.breaker[q])
      BY <1>3, <2>1
    <2> QED
      BY <1>2, <2>1, <2>2, <2>3 DEF Kept, g
  <1> QED
    BY <1>4, <1>5

\* Of registry w the breaker that p's call sees, and w with that breaker
\* replaced by b.
LEMMA SeenBreaker ==
  ASSUME NEW w, Kept(w), NEW p \in Routed!Providers
  PROVE  Sound(Routed!Seen(w, p)) /\ Load(Routed!Seen(w, p)) <= Load(w.breaker[p])
  BY GotRegistry DEF Routed!Seen, Kept

LEMMA PutBreaker ==
  ASSUME NEW w, Kept(w), NEW p \in Routed!Providers, NEW b, Sound(b)
  PROVE  /\ Kept(Routed!Put(w, p, b))
         /\ Routed!Put(w, p, b).breaker[p] = b
         /\ \A q \in Routed!Providers \ {p} :
              Load(Routed!Put(w, p, b).breaker[q]) <= Load(w.breaker[q])
  <1> DEFINE g == Routed!Get(w, p)
             n == Routed!Put(w, p, b)
  <1>1. Kept(g) /\ \A q \in Routed!Providers : Load(g.breaker[q]) <= Load(w.breaker[q])
    BY GotRegistry
  <1>2. n.breaker = [g.breaker EXCEPT ![p] = b] /\ n.tracked = g.tracked
    BY DEF Routed!Put
  <1> HIDE DEF g, n
  <1>3. \A q \in Routed!Providers : n.breaker[q] = IF q = p THEN b ELSE g.breaker[q]
    BY <1>1, <1>2 DEF Kept
  <1>4. Kept(n)
    BY <1>1, <1>2, <1>3 DEF Kept
  <1> QED
    BY <1>1, <1>3, <1>4 DEF n

-----------------------------------------------------------------------------
\* What may be said of the walk after n candidates of queue q, which began as
\* call rec with `others' probes of other calls at each provider.
Walked(s, rec, q, n, others) ==
  /\ Kept(s.w) /\ s.k \in CallState
  /\ s.k.at = rec.at /\ s.k.attempts = rec.attempts /\ s.k.minWindow = rec.minWindow /\ s.k.retries = 0
  /\ \A p \in Routed!Providers :
       Load(s.w.breaker[p])
         <= others[p] + (IF s.k.current # 0 /\ Routed!Provider(s.k.current) = p THEN 1 ELSE 0)
  /\ s.k.current = 0 => s.k.queue = << >>
  /\ s.k.current # 0 =>
       /\ Route[s.k.current].compliant /\ ~Routed!TooSmall(rec, s.k.current)
       /\ Rising(s.k.queue, s.k.current)
       /\ \E m \in 1 .. n : s.k.current = q[m]
       /\ \A l \in DOMAIN s.k.queue : \E m \in 1 .. n : s.k.queue[l] = q[m]
  /\ s.k.current = 0 /\ Routed!Range(s.k.skipped) \subseteq {"non_compliant"}
       => \A m \in 1 .. n : ~Route[q[m]].compliant

LEMMA RouteProvider ==
  ASSUME NEW i \in Cand
  PROVE  Routed!Provider(i) \in Routed!Providers
  BY RoutedAssumption DEF Cand, Routed!Provider, Routed!Providers

LEMMA SkippedCandidate ==
  ASSUME NEW rec, NEW q \in Seq(Cand), NEW n \in 1 .. Len(q),
         NEW others \in [Routed!Providers -> Nat],
         NEW s, Walked(s, rec, q, n - 1, others), s.k.current = 0,
         NEW reason \in Routed!SkipReasons, reason = "non_compliant" => ~Route[q[n]].compliant,
         NEW w, Kept(w),
         \A p \in Routed!Providers : Load(w.breaker[p]) <= others[p]
  PROVE  Walked(Routed!Skip([w |-> w, k |-> s.k], reason), rec, q, n, others)
  <1> DEFINE old == s.k
             new == [old EXCEPT !.skipped = Append(@, reason)]
             t == Routed!Skip([w |-> w, k |-> s.k], reason)
  <1>1. t = [w |-> w, k |-> new]
    BY DEF Routed!Skip
  <1>2. old \in CallState /\ old.current = 0 /\ old.queue = << >>
    BY DEF Walked
  <1> DEFINE skips == Append(old.skipped, reason)
  <1>3. old.skipped \in Seq(Routed!SkipReasons) /\ Len(old.skipped) \in Nat
    <2> HIDE DEF old
    <2>1. old.skipped \in Seq(Routed!SkipReasons)
      BY <1>2 DEF CallState
    <2> QED
      BY <2>1, LenProperties
  <1>4. /\ skips \in Seq(Routed!SkipReasons) /\ Len(skips) = Len(old.skipped) + 1
        /\ \A i \in 1 .. Len(old.skipped) : skips[i] = old.skipped[i]
        /\ skips[Len(old.skipped) + 1] = reason
    <2> HIDE DEF old
    <2> QED
      BY <1>3, AppendProperties
  <1>5. DOMAIN skips = 1 .. (Len(old.skipped) + 1) /\ DOMAIN old.skipped = 1 .. Len(old.skipped)
    BY <1>3, <1>4, LenProperties
  <1>6. /\ new \in CallState /\ new.at = old.at /\ new.current = 0 /\ new.queue = << >>
        /\ new.attempts = old.attempts /\ new.minWindow = old.minWindow
        /\ new.retries = old.retries /\ new.skipped = skips
    <2> HIDE DEF old
    <2> QED
      BY <1>2, <1>4 DEF CallState
  <1>7. ASSUME Routed!Range(skips) \subseteq {"non_compliant"}
        PROVE  \A m \in 1 .. n : ~Route[q[m]].compliant
    <2> HIDE DEF skips, old
    <2>5. \A i \in DOMAIN skips : skips[i] = "non_compliant"
      BY <1>7 DEF Routed!Range
    <2>6. Len(old.skipped) + 1 \in DOMAIN skips /\ DOMAIN old.skipped \subseteq DOMAIN skips
      BY <1>3, <1>5
    <2>1. reason = "non_compliant"
      BY <1>4, <2>5, <2>6
    <2>2. Routed!Range(old.skipped) \subseteq {"non_compliant"}
      BY <1>4, <1>5, <2>5, <2>6 DEF Routed!Range
    <2> USE DEF old
    <2>3. \A m \in 1 .. (n - 1) : ~Route[q[m]].compliant
      BY <1>2, <2>2 DEF Walked
    <2>4. \A m \in 1 .. n : m = n \/ m \in 1 .. (n - 1)
      BY LenProperties
    <2> QED
      BY <2>1, <2>3, <2>4
  <1> HIDE DEF new, skips, t
  <1>8. t.w = w /\ t.k = new
    BY <1>1
  <1>9. \A p \in Routed!Providers : Load(t.w.breaker[p]) <= others[p] + 0
    <2> SUFFICES ASSUME NEW p \in Routed!Providers  PROVE Load(t.w.breaker[p]) <= others[p] + 0
      OBVIOUS
    <2>1. others[p] + 0 = others[p]
      OBVIOUS
    <2> QED
      BY <1>8, <2>1
  <1> QED
    BY <1>6, <1>7, <1>8, <1>9 DEF Walked, t

LEMMA QueuedCandidate ==
  ASSUME NEW rec, NEW q \in Seq(Cand), Rising(q, 0), NEW n \in 1 .. Len(q),
         NEW others \in [Routed!Providers -> Nat],
         NEW s, Walked(s, rec, q, n - 1, others), s.k.current # 0
  PROVE  Walked(Routed!Consider(s, q[n]), rec, q, n, others)
  <1> DEFINE old == s.k
             new == [old EXCEPT !.queue = Append(@, q[n])]
             t == Routed!Consider(s, q[n])
             queue == Append(old.queue, q[n])
  <1>1. t = [w |-> s.w, k |-> new]
    BY DEF Routed!Consider
  <1>2. /\ old \in CallState /\ old.current # 0
        /\ \E m \in 1 .. (n - 1) : old.current = q[m]
        /\ \A l \in DOMAIN old.queue : \E m \in 1 .. (n - 1) : old.queue[l] = q[m]
        /\ Rising(old.queue, old.current)
    BY DEF Walked
  <1>3. Len(q) \in Nat /\ DOMAIN q = 1 .. Len(q) /\ \A m \in DOMAIN q : q[m] \in Cand
    BY LenProperties, ElementOfSeq
  <1>4. q[n] \in Cand /\ \A m \in 1 .. (n - 1) : m \in 1 .. n /\ q[m] < q[n]
    BY <1>3 DEF Rising
  <1>5. /\ queue \in Seq(Cand) /\ Len(queue) = Len(old.queue) + 1
        /\ \A i \in 1 .. Len(old.queue) : queue[i] = old.queue[i]
        /\ queue[Len(old.queue) + 1] = q[n]
        /\ Len(old.queue) \in Nat /\ DOMAIN old.queue = 1 .. Len(old.queue)
        /\ DOMAIN queue = 1 .. (Len(old.queue) + 1)
    <2> HIDE DEF old
    <2>1. old.queue \in Seq(Cand)
      BY <1>2 DEF CallState
    <2>2. Len(old.queue) \in Nat /\ DOMAIN old.queue = 1 .. Len(old.queue)
      BY <2>1, LenProperties
    <2>3. /\ queue \in Seq(Cand) /\ Len(queue) = Len(old.queue) + 1
          /\ \A i \in 1 .. Len(old.queue) : queue[i] = old.queue[i]
          /\ queue[Len(old.queue) + 1] = q[n]
      BY <1>4, <2>1, AppendProperties
    <2> QED
      BY <2>2, <2>3, LenProperties
  <1>6. /\ new \in CallState /\ new.at = old.at /\ new.current = old.current /\ new.queue = queue
        /\ new.attempts = old.attempts /\ new.minWindow = old.minWindow
        /\ new.retries = old.retries /\ new.skipped = old.skipped
    <2> HIDE DEF old
    <2> QED
      BY <1>2, <1>5 DEF CallState
  <1> HIDE DEF new, queue, t, old
  <1>7. \A l \in DOMAIN queue : \E m \in 1 .. n : queue[l] = q[m]
    <2> SUFFICES ASSUME NEW l \in DOMAIN queue  PROVE \E m \in 1 .. n : queue[l] = q[m]
      OBVIOUS
    <2>1. CASE l \in 1 .. Len(old.queue)
      BY <1>2, <1>4, <1>5, <2>1
    <2>2. CASE l = Len(old.queue) + 1
      BY <1>5, <2>2
    <2> QED
      BY <1>5, <2>1, <2>2
  <1>8. Rising(queue, old.current)
    <2>1. \A l \in DOMAIN old.queue : old.queue[l] < q[n] /\ old.queue[l] > old.current
      BY <1>2, <1>4 DEF Rising
    <2>2. old.current < q[n]
      BY <1>2, <1>4
    <2>3. \A l \in DOMAIN queue : queue[l] > old.current
      <3>1. \A l \in 1 .. Len(old.queue) : queue[l] > old.current
        BY <1>5, <2>1
      <3>2. queue[Len(old.queue) + 1] > old.current
        <4>1. old.current \in Int /\ q[n] \in Int
          BY <1>2, <1>3, <1>4, RoutedAssumption DEF Cand
        <4> QED
          BY <1>5, <2>2, <4>1
      <3> QED
        BY <1>5, <3>1, <3>2
    <2>4. ASSUME NEW l \in DOMAIN queue, NEW m \in DOMAIN queue, l < m  PROVE queue[l] < queue[m]
      <3>1. CASE m \in 1 .. Len(old.queue)
        <4>1. l \in 1 .. Len(old.queue)
          BY <1>5, <2>4, <3>1
        <4> QED
          BY <1>2, <1>5, <2>4, <3>1, <4>1 DEF Rising
      <3>2. CASE m = Len(old.queue) + 1
        <4>1. l \in 1 .. Len(old.queue)
          BY <1>5, <2>4, <3>2
        <4> QED
          BY <1>5, <2>1, <3>2, <4>1
      <3>3. m \in 1 .. Len(old.queue) \/ m = Len(old.queue) + 1
        <4>1. Len(old.queue) \in Nat /\ m \in 1 .. (Len(old.queue) + 1)
          BY <1>5
        <4> HIDE DEF old, queue
        <4> QED
          BY <4>1
      <3> QED
        BY <3>1, <3>2, <3>3
    <2> QED
      BY <2>3, <2>4 DEF Rising
  <1>9. t.w = s.w /\ t.k = new /\ s.k = old
    BY <1>1 DEF old
  <1>10. /\ Kept(t.w)
         /\ t.k.at = rec.at /\ t.k.attempts = rec.attempts /\ t.k.minWindow = rec.minWindow
         /\ t.k.retries = 0
         /\ \A p \in Routed!Providers :
              Load(t.w.breaker[p])
                <= others[p] + (IF t.k.current # 0 /\ Routed!Provider(t.k.current) = p THEN 1 ELSE 0)
         /\ Route[t.k.current].compliant /\ ~Routed!TooSmall(rec, t.k.current)
    BY <1>2, <1>6, <1>9 DEF Walked
  <1>11. \E m \in 1 .. n : t.k.current = q[m]
    BY <1>2, <1>4, <1>6, <1>9
  <1> QED
    BY <1>2, <1>6, <1>7, <1>8, <1>9, <1>10, <1>11 DEF Walked, t

LEMMA CalledCandidate ==
  ASSUME NEW rec, NEW q \in Seq(Cand), NEW n \in 1 .. Len(q),
         NEW others \in [Routed!Providers -> Nat],
         NEW s, Walked(s, rec, q, n - 1, others), s.k.current = 0,
         Route[q[n]].compliant, ~Routed!TooSmall(rec, q[n]), NEW w, Kept(w),
         \A p \in Routed!Providers :
           Load(w.breaker[p]) <= others[p] + (IF Routed!Provider(q[n]) = p THEN 1 ELSE 0)
  PROVE  Walked([w |-> w, k |-> [s.k EXCEPT !.current = q[n]]], rec, q, n, others)
  <1> DEFINE old == s.k
             new == [old EXCEPT !.current = q[n]]
             t == [w |-> w, k |-> new]
  <1>1. old \in CallState /\ old.current = 0 /\ old.queue = << >> /\ old.retries = 0
        /\ old.at = rec.at /\ old.attempts = rec.attempts /\ old.minWindow = rec.minWindow
    BY DEF Walked
  <1>2. q[n] \in Cand /\ q[n] \in 0 .. Len(Route)
    BY LenProperties, ElementOfSeq, RoutedAssumption DEF Cand
  <1>3. /\ new \in CallState /\ new.at = old.at /\ new.current = q[n] /\ new.queue = old.queue
        /\ new.attempts = old.attempts /\ new.minWindow = old.minWindow
        /\ new.retries = old.retries /\ new.skipped = old.skipped
    <2> HIDE DEF old
    <2> QED
      BY <1>1, <1>2 DEF CallState
  <1>4. t.w = w /\ t.k = new
    OBVIOUS
  <1> HIDE DEF old, new, t
  <1>5. q[n] # 0 /\ Rising(<< >>, q[n]) /\ DOMAIN << >> = {}
    BY <1>2, RoutedAssumption DEF Cand, Rising
  <1>6. \E m \in 1 .. n : q[n] = q[m]
    <2>1. Len(q) \in Nat
      BY LenProperties
    <2>2. n \in 1 .. n
      BY <2>1
    <2> QED
      BY <2>2
  <1> QED
    BY <1>1, <1>3, <1>4, <1>5, <1>6 DEF Walked, t, new, old

LEMMA ConsideredCandidate ==
  ASSUME NEW rec, NEW q \in Seq(Cand), Rising(q, 0), NEW n \in 1 .. Len(q),
         NEW others \in [Routed!Providers -> Nat],
         NEW s, Walked(s, rec, q, n - 1, others)
  PROVE  Walked(Routed!Consider(s, q[n]), rec, q, n, others)
  <1> DEFINE i == q[n]
             p == Routed!Provider(i)
             seen == Routed!Seen(s.w, p)
             w == Routed!Put(s.w, p, Routed!Allow(seen))
  <1>1. CASE s.k.current # 0
    BY <1>1, QueuedCandidate
  <1>2. CASE s.k.current = 0
    <2>1. i \in Cand /\ p \in Routed!Providers
      BY LenProperties, ElementOfSeq, RouteProvider
    <2>2. Kept(s.w) /\ \A r \in Routed!Providers : Load(s.w.breaker[r]) <= others[r]
      <3>1. \A r \in Routed!Providers : Load(s.w.breaker[r]) <= others[r] + 0
        BY <1>2 DEF Walked
      <3>2. \A r \in Routed!Providers : others[r] + 0 = others[r]
        OBVIOUS
      <3> QED
        BY <3>1, <3>2 DEF Walked
    <2>3. \A r \in Routed!Providers :
            Sound(s.w.breaker[r]) /\ Load(s.w.breaker[r]) \in Nat
      BY <2>2, RoutedAssumption DEF Kept, Sound, Load, BreakerState
    <2>4. /\ Sound(seen) /\ Load(seen) <= Load(s.w.breaker[p])
          /\ Sound(Routed!Allow(seen))
          /\ Load(Routed!Allow(seen)) <= Load(seen) + (IF Routed!Allows(seen) THEN 1 ELSE 0)
      BY <2>1, <2>2, SeenBreaker, AllowedBreaker
    <2>5. Load(seen) \in Nat /\ Load(Routed!Allow(seen)) \in Nat
      <3> HIDE DEF seen
      <3> QED
        BY <2>4, RoutedAssumption DEF Sound, Load, BreakerState
    <2>6. /\ Kept(w) /\ w.breaker[p] = Routed!Allow(seen)
          /\ \A r \in Routed!Providers \ {p} : Load(w.breaker[r]) <= Load(s.w.breaker[r])
      BY <2>1, <2>2, <2>4, PutBreaker
    <2>7. \A r \in Routed!Providers : Load(w.breaker[r]) \in Nat
      BY <2>6, RoutedAssumption DEF Kept, Sound, Load, BreakerState
    <2> HIDE DEF seen, w
    <2>8. CASE ~Route[i].compliant
      <3>1. Routed!Consider(s, i) = Routed!Skip([w |-> s.w, k |-> s.k], "non_compliant")
        BY <1>2, <2>8 DEF Routed!Consider, Routed!Skip
      <3> QED
        BY <1>2, <2>2, <2>8, <3>1, SkippedCandidate DEF Routed!SkipReasons
    <2>9. CASE Route[i].compliant /\ Routed!TooSmall(s.k, i)
      <3>1. Routed!Consider(s, i) = Routed!Skip([w |-> s.w, k |-> s.k], "context_window")
        BY <1>2, <2>9 DEF Routed!Consider, Routed!Skip
      <3> QED
        BY <1>2, <2>2, <2>9, <3>1, SkippedCandidate DEF Routed!SkipReasons
    <2>10. CASE Route[i].compliant /\ ~Routed!TooSmall(s.k, i) /\ Routed!Allows(seen)
      <3>1. Routed!Consider(s, i) = [w |-> w, k |-> [s.k EXCEPT !.current = i]]
        BY <1>2, <2>10 DEF Routed!Consider, seen, w
      <3>2. ~Routed!TooSmall(rec, i)
        BY <2>10 DEF Walked, Routed!TooSmall
      <3>3. \A r \in Routed!Providers :
              Load(w.breaker[r]) <= others[r] + (IF p = r THEN 1 ELSE 0)
        <4> SUFFICES ASSUME NEW r \in Routed!Providers
                     PROVE  Load(w.breaker[r]) <= others[r] + (IF p = r THEN 1 ELSE 0)
          OBVIOUS
        <4>1. CASE p = r
          BY <2>2, <2>3, <2>4, <2>5, <2>6, <2>10, <4>1
        <4>2. CASE p # r
          BY <2>2, <2>3, <2>6, <2>7, <4>2
        <4> QED
          BY <4>1, <4>2
      <3> QED
        BY <1>2, <2>6, <2>10, <3>1, <3>2, <3>3, CalledCandidate
    <2>11. CASE Route[i].compliant /\ ~Routed!TooSmall(s.k, i) /\ ~Routed!Allows(seen)
      <3>1. Routed!Consider(s, i) = Routed!Skip([w |-> w, k |-> s.k], "circuit_open")
        BY <1>2, <2>11 DEF Routed!Consider, seen, w
      <3>2. \A r \in Routed!Providers : Load(w.breaker[r]) <= others[r]
        <4> SUFFICES ASSUME NEW r \in Routed!Providers  PROVE Load(w.breaker[r]) <= others[r]
          OBVIOUS
        <4>1. CASE p = r
          BY <2>2, <2>3, <2>4, <2>5, <2>6, <2>11, <4>1
        <4>2. CASE p # r
          BY <2>2, <2>3, <2>6, <2>7, <4>2
        <4> QED
          BY <4>1, <4>2
      <3> QED
        BY <1>2, <2>6, <3>1, <3>2, SkippedCandidate DEF Routed!SkipReasons
    <2> QED
      BY <2>8, <2>9, <2>10, <2>11
  <1> QED
    BY <1>1, <1>2

-----------------------------------------------------------------------------
\* Induction, for the walk: a set with 0 and every successor of its numbers.
LEMMA NaturalInduction ==
  ASSUME NEW S, 0 \in S, \A n \in Nat : n \in S => n + 1 \in S
  PROVE  Nat \subseteq S
  <1> DEFINE R == OpToRel(<, Nat)
             T == {n \in Nat : n \notin S}
  <1>1. IsWellFoundedOn(R, Nat)
    BY NatLessThanWellFounded
  <1>2. \A x, y \in Nat : y < x => <<y, x>> \in R
    BY DEF OpToRel
  <1> HIDE DEF R
  <1> SUFFICES ASSUME T # {} PROVE FALSE
    OBVIOUS
  <1>3. T \subseteq Nat
    OBVIOUS
  <1> HIDE DEF T
  <1>4. PICK x \in T : \A y \in T : ~ (<<y, x>> \in R)
    BY <1>1, <1>3, WFMin
  <1> USE DEF T
  <1>5. x \in Nat /\ x # 0
    BY <1>4
  <1>6. x - 1 \in Nat /\ x - 1 < x /\ (x - 1) + 1 = x
    BY <1>5
  <1>7. x - 1 \in S
    BY <1>2, <1>4, <1>5, <1>6
  <1> QED
    BY <1>4, <1>6, <1>7

\* The walk exists, and is what its recursive definition says.
LEMMA WalkUnfolds ==
  ASSUME NEW s, NEW q, Len(q) \in Nat
  PROVE  /\ Routed!Walk(s, q)[0] = s
         /\ \A n \in 1 .. Len(q) :
              Routed!Walk(s, q)[n] = Routed!Consider(Routed!Walk(s, q)[n - 1], q[n])
  <1> DEFINE P(m) == \E f : f = [n \in 0 .. m |-> IF n = 0 THEN s ELSE Routed!Consider(f[n - 1], q[n])]
             S == {m \in Nat : P(m)}
  <1>1. P(0)
    <2> DEFINE f == [n \in 0 .. 0 |-> s]
    <2>1. f = [n \in 0 .. 0 |-> IF n = 0 THEN s ELSE Routed!Consider(f[n - 1], q[n])]
      OBVIOUS
    <2> QED
      BY <2>1
  <1>2. ASSUME NEW m \in Nat, P(m)  PROVE P(m + 1)
    <2>1. PICK f : f = [n \in 0 .. m |-> IF n = 0 THEN s ELSE Routed!Consider(f[n - 1], q[n])]
      BY <1>2
    <2> DEFINE g == [n \in 0 .. (m + 1) |-> IF n = m + 1 THEN Routed!Consider(f[m], q[m + 1]) ELSE f[n]]
    <2>2. \A n \in 0 .. (m + 1) : g[n] = IF n = 0 THEN s ELSE Routed!Consider(g[n - 1], q[n])
      <3> SUFFICES ASSUME NEW n \in 0 .. (m + 1)
                   PROVE g[n] = IF n = 0 THEN s ELSE Routed!Consider(g[n - 1], q[n])
        OBVIOUS
      <3>1. CASE n = m + 1
        <4>1. g[n] = Routed!Consider(f[m], q[m + 1]) /\ g[n - 1] = f[m]
          BY <3>1
        <4> QED
          BY <3>1, <4>1
      <3>2. CASE n # m + 1 /\ n # 0
        <4>1. n \in 0 .. m /\ n - 1 \in 0 .. m
          BY <3>2
        <4>2. f[n] = Routed!Consider(f[n - 1], q[n])
          BY <2>1, <3>2, <4>1
        <4>3. g[n] = f[n] /\ g[n - 1] = f[n - 1]
          BY <4>1
        <4> QED
          BY <3>2, <4>2, <4>3
      <3>3. CASE n = 0
        <4>1. f[0] = s
          BY <2>1
        <4> QED
          BY <3>3, <4>1
      <3> QED
        BY <3>1, <3>2, <3>3
    <2>3. g = [n \in 0 .. (m + 1) |-> IF n = 0 THEN s ELSE Routed!Consider(g[n - 1], q[n])]
      BY <2>2
    <2> QED
      BY <2>3
  <1> HIDE DEF P
  <1>3. Nat \subseteq S
    <2>1. 0 \in S
      BY <1>1
    <2>2. \A m \in Nat : m \in S => m + 1 \in S
      BY <1>2
    <2> HIDE DEF S
    <2> QED
      BY <2>1, <2>2, NaturalInduction
  <1>4. P(Len(q))
    BY <1>3
  <1> DEFINE f == Routed!Walk(s, q)
  <1>5. f = [n \in 0 .. Len(q) |-> IF n = 0 THEN s ELSE Routed!Consider(f[n - 1], q[n])]
    BY <1>4 DEF Routed!Walk, P
  <1>6. Routed!Walk(s, q) = f
    OBVIOUS
  <1> HIDE DEF f
  <1>7. f[0] = s /\ \A n \in 1 .. Len(q) : f[n] = Routed!Consider(f[n - 1], q[n])
    BY <1>5
  <1> QED
    BY <1>6, <1>7

\* next(), whatever is in the queue of the call.
LEMMA NextIsWalked ==
  ASSUME NEW w, Kept(w), NEW rec \in CallState, Rising(rec.queue, 0),
         NEW others \in [Routed!Providers -> Nat],
         \A p \in Routed!Providers : Load(w.breaker[p]) <= others[p]
  PROVE  Walked(Routed!NextCandidate(w, rec), rec, rec.queue, Len(rec.queue), others)
  <1> DEFINE q == rec.queue
             kk == [rec EXCEPT !.current = 0, !.queue = << >>, !.retries = 0]
             begin == [w |-> w, k |-> kk]
             S == {n \in Nat : n <= Len(q) => Walked(Routed!Walk(begin, q)[n], rec, q, n, others)}
  <1>1. q \in Seq(Cand) /\ Len(q) \in Nat
    <2>1. q \in Seq(Cand)
      BY DEF CallState
    <2> QED
      BY <2>1, LenProperties
  <1>2. Routed!NextCandidate(w, rec) = Routed!Walk(begin, q)[Len(q)]
    BY DEF Routed!NextCandidate
  <1>3. /\ kk \in CallState /\ kk.current = 0 /\ kk.queue = << >> /\ kk.retries = 0
        /\ kk.at = rec.at /\ kk.attempts = rec.attempts /\ kk.minWindow = rec.minWindow
    <2>1. << >> \in Seq(Cand) /\ 0 \in 0 .. Len(Route) /\ 0 \in 0 .. RateLimitRetries
      BY RoutedAssumption, EmptySeq
    <2> QED
      BY <2>1 DEF CallState
  <1>4. Walked(begin, rec, q, 0, others)
    <2>1. begin.w = w /\ begin.k = kk
      OBVIOUS
    <2>2. \A p \in Routed!Providers : others[p] + 0 = others[p]
      OBVIOUS
    <2> HIDE DEF begin, kk, q
    <2> QED
      BY <1>3, <2>1, <2>2 DEF Walked
  <1> HIDE DEF begin, kk
  <1>5. /\ Routed!Walk(begin, q)[0] = begin
        /\ \A n \in 1 .. Len(q) :
             Routed!Walk(begin, q)[n] = Routed!Consider(Routed!Walk(begin, q)[n - 1], q[n])
    BY <1>1, WalkUnfolds
  <1>6. 0 \in S
    BY <1>4, <1>5
  <1>7. ASSUME NEW n \in Nat, n \in S  PROVE n + 1 \in S
    <2> SUFFICES ASSUME n + 1 <= Len(q)
                 PROVE  Walked(Routed!Walk(begin, q)[n + 1], rec, q, n + 1, others)
      OBVIOUS
    <2>1. n <= Len(q) /\ n + 1 \in 1 .. Len(q) /\ (n + 1) - 1 = n
      BY <1>1
    <2>2. Walked(Routed!Walk(begin, q)[n], rec, q, (n + 1) - 1, others)
      BY <1>7, <2>1
    <2>3. Routed!Walk(begin, q)[n + 1] = Routed!Consider(Routed!Walk(begin, q)[n], q[n + 1])
      BY <1>5, <2>1
    <2> HIDE DEF S, q
    <2>4. Rising(q, 0)
      BY DEF q
    <2> QED
      BY <1>1, <2>1, <2>2, <2>3, <2>4, ConsideredCandidate
  <1> HIDE DEF S
  <1>8. Nat \subseteq S
    BY <1>6, <1>7, NaturalInduction
  <1> USE DEF S
  <1>9. Walked(Routed!Walk(begin, q)[Len(q)], rec, q, Len(q), others)
    BY <1>1, <1>8
  <1> QED
    BY <1>2, <1>9

-----------------------------------------------------------------------------
\* Attempts.
LEMMA AppendedTry ==
  ASSUME NEW a \in Seq(Tries), NEW t \in Tries
  PROVE  /\ Append(a, t) \in Seq(Tries) /\ Len(a) \in Nat
         /\ DOMAIN a = 1 .. Len(a) /\ DOMAIN Append(a, t) = 1 .. (Len(a) + 1)
         /\ \A j \in DOMAIN a : Append(a, t)[j] = a[j] /\ a[j] \in Tries
         /\ Append(a, t)[Len(a) + 1] = t
  <1>1. Len(a) \in Nat /\ DOMAIN a = 1 .. Len(a) /\ \A j \in DOMAIN a : a[j] \in Tries
    BY LenProperties, ElementOfSeq
  <1>2. /\ Append(a, t) \in Seq(Tries) /\ Len(Append(a, t)) = Len(a) + 1
        /\ \A j \in 1 .. Len(a) : Append(a, t)[j] = a[j]
        /\ Append(a, t)[Len(a) + 1] = t
    BY AppendProperties
  <1>3. DOMAIN Append(a, t) = 1 .. (Len(a) + 1)
    BY <1>2, LenProperties
  <1> QED
    BY <1>1, <1>2, <1>3

LEMMA CountIsNatural ==
  ASSUME NEW a \in Seq(Tries), NEW i
  PROVE  Count(a, i) \in Nat
  <1> DEFINE at == {j \in DOMAIN a : a[j].candidate = i}
  <1>1. Len(a) \in Nat /\ DOMAIN a = 1 .. Len(a)
    BY LenProperties
  <1>2. IsFiniteSet(1 .. Len(a))
    BY <1>1, FS_Interval
  <1>3. IsFiniteSet(at)
    BY <1>1, <1>2, FS_Subset
  <1> QED
    BY <1>3, FS_CardinalityType DEF Count

LEMMA CountOfAppend ==
  ASSUME NEW a \in Seq(Tries), NEW t \in Tries, NEW i
  PROVE  Count(Append(a, t), i) = Count(a, i) + (IF t.candidate = i THEN 1 ELSE 0)
  <1> DEFINE at == {j \in DOMAIN a : a[j].candidate = i}
             then == {j \in DOMAIN Append(a, t) : Append(a, t)[j].candidate = i}
             n == Len(a) + 1
  <1>1. /\ Len(a) \in Nat /\ DOMAIN a = 1 .. Len(a) /\ DOMAIN Append(a, t) = 1 .. n
        /\ \A j \in DOMAIN a : Append(a, t)[j] = a[j]
        /\ Append(a, t)[n] = t
    BY AppendedTry
  <1>2. IsFiniteSet(at)
    <2>1. IsFiniteSet(1 .. Len(a))
      BY <1>1, FS_Interval
    <2> QED
      BY <1>1, <2>1, FS_Subset
  <1>3. n \notin at /\ \A j : j \in 1 .. n <=> j \in 1 .. Len(a) \/ j = n
    BY <1>1
  <1>4. CASE t.candidate = i
    <2>1. then = at \cup {n}
      BY <1>1, <1>3, <1>4
    <2>2. Cardinality(at \cup {n}) = Cardinality(at) + 1
      BY <1>2, <1>3, FS_AddElement
    <2> QED
      BY <1>4, <2>1, <2>2 DEF Count
  <1>5. CASE t.candidate # i
    <2>1. then = at
      BY <1>1, <1>3, <1>5
    <2>2. Count(a, i) \in Nat
      BY CountIsNatural
    <2>3. Count(Append(a, t), i) = Count(a, i)
      BY <2>1 DEF Count
    <2> QED
      BY <1>5, <2>2, <2>3
  <1> QED
    BY <1>4, <1>5

LEMMA CountOfNew ==
  ASSUME NEW a \in Seq(Tries), NEW i, \A j \in DOMAIN a : a[j].candidate # i
  PROVE  Count(a, i) = 0
  <1>1. {j \in DOMAIN a : a[j].candidate = i} = {}
    OBVIOUS
  <1> QED
    BY <1>1, FS_EmptySet DEF Count

\* What may follow does.
LEMMA FollowingTry ==
  ASSUME NEW a \in Seq(Tries), Follow(a), NEW t \in Tries, MayFollow(a, t.candidate)
  PROVE  Follow(Append(a, t))
  <1> DEFINE b == Append(a, t)
             n == Len(a) + 1
  <1>1. /\ Len(a) \in Nat /\ DOMAIN a = 1 .. Len(a) /\ DOMAIN b = 1 .. n
        /\ \A j \in DOMAIN a : b[j] = a[j] /\ a[j] \in Tries
        /\ b[n] = t
    BY AppendedTry
  <1>2. \A i : Count(b, i) = Count(a, i) + (IF t.candidate = i THEN 1 ELSE 0) /\ Count(a, i) \in Nat
    BY CountOfAppend, CountIsNatural
  <1>3. \A j : j \in 1 .. n <=> j \in 1 .. Len(a) \/ j = n
    BY <1>1
  <1> HIDE DEF b
  <1>4. ASSUME NEW i \in 1 .. Len(a)
        PROVE  /\ Route[b[i].candidate].compliant
               /\ Count(b, b[i].candidate) <= 1 + RateLimitRetries
    <2>1. b[i] = a[i] /\ i \in DOMAIN a
      BY <1>1
    <2>2. Count(a, a[i].candidate) <= 1 + RateLimitRetries /\ Route[a[i].candidate].compliant
      BY <2>1 DEF Follow
    <2>3. t.candidate = a[i].candidate => Count(a, a[i].candidate) <= RateLimitRetries
      BY DEF MayFollow
    <2> QED
      BY <1>2, <2>1, <2>2, <2>3, RoutedAssumption
  <1>5. /\ Route[b[n].candidate].compliant
        /\ Count(b, b[n].candidate) <= 1 + RateLimitRetries
    <2>1. Route[t.candidate].compliant /\ Count(a, t.candidate) <= RateLimitRetries
      BY DEF MayFollow
    <2> QED
      BY <1>1, <1>2, <2>1, RoutedAssumption
  <1>6. ASSUME NEW i \in 1 .. n, NEW j \in 1 .. n, i < j
        PROVE  /\ b[i].candidate <= b[j].candidate
               /\ b[i].candidate = b[j].candidate => b[i].how = "retry_after"
               /\ b[i].how \notin {"ok", "raise"}
               /\ b[i].how = "next_larger_context"
                    => Route[b[j].candidate].window > Route[b[i].candidate].window
    <2>1. i \in 1 .. Len(a) /\ b[i] = a[i] /\ i \in DOMAIN a
      BY <1>1, <1>6
    <2>2. CASE j \in 1 .. Len(a)
      <3>1. b[j] = a[j] /\ j \in DOMAIN a
        BY <1>1, <2>2
      <3> QED
        BY <1>6, <2>1, <3>1 DEF Follow
    <2>3. CASE j = n
      <3>1. b[j] = t
        BY <1>1, <2>3
      <3>2. /\ a[i].candidate <= t.candidate /\ a[i].how \notin {"ok", "raise"}
            /\ a[i].candidate = t.candidate => a[i].how = "retry_after"
            /\ a[i].how = "next_larger_context"
                 => Route[t.candidate].window > Route[a[i].candidate].window
        BY <2>1 DEF MayFollow
      <3> QED
        BY <2>1, <3>1, <3>2
    <2> QED
      BY <1>3, <2>2, <2>3
  <1>7. Follow(b)
    BY <1>1, <1>3, <1>4, <1>5, <1>6 DEF Follow
  <1> QED
    BY <1>7 DEF b

LEMMA OutcomeTypes ==
  ASSUME NEW v \in Routed!Outcomes
  PROVE  v.action \in {"raise", "next", "next_larger_context", "retry_after"}
  <1>1. PICK f \in Routed!Failures : v.action = Routed!ClassifyFailure(f).action
    BY DEF Routed!Outcomes
  <1>2. f.kind \in {"timeout", "network", "stream_interrupted", "answer", "unknown"}
    BY DEF Routed!Failures
  <1>3. CASE f.kind # "answer"
    BY <1>1, <1>2, <1>3 DEF Routed!ClassifyFailure, Routed!Verdict
  <1>4. CASE f.kind = "answer"
    BY <1>1, <1>4 DEF Routed!ClassifyFailure, Routed!Verdict
  <1> QED
    BY <1>3, <1>4

-----------------------------------------------------------------------------
\* The calls in flight at a provider but for c.
Besides(c) == [p \in Routed!Providers |-> Cardinality(Routed!InFlight(p) \ {c})]

LEMMA BesidesTypes ==
  ASSUME NEW c \in RoutedCalls
  PROVE  /\ Besides(c) \in [Routed!Providers -> Nat]
         /\ \A p \in Routed!Providers :
              /\ IsFiniteSet(Routed!InFlight(p) \ {c})
              /\ Cardinality(Routed!InFlight(p))
                   = Besides(c)[p] + (IF c \in Routed!InFlight(p) THEN 1 ELSE 0)
  <1>1. ASSUME NEW p \in Routed!Providers
        PROVE  /\ IsFiniteSet(Routed!InFlight(p) \ {c})
               /\ Cardinality(Routed!InFlight(p) \ {c}) \in Nat
               /\ Cardinality(Routed!InFlight(p))
                   = Cardinality(Routed!InFlight(p) \ {c}) + (IF c \in Routed!InFlight(p) THEN 1 ELSE 0)
    <2> DEFINE all == Routed!InFlight(p)
    <2>1. IsFiniteSet(all)
      <3>1. all \subseteq RoutedCalls
        BY DEF Routed!InFlight
      <3> QED
        BY <3>1, RoutedAssumption, FS_Subset
    <2> HIDE DEF all
    <2>2. IsFiniteSet(all \ {c}) /\ Cardinality(all \ {c}) \in Nat
      BY <2>1, FS_Subset, FS_CardinalityType
    <2>3. Cardinality(all) = Cardinality(all \ {c}) + (IF c \in all THEN 1 ELSE 0)
      <3>1. CASE c \in all
        <4>1. all = (all \ {c}) \cup {c} /\ c \notin all \ {c}
          BY <3>1
        <4>2. Cardinality((all \ {c}) \cup {c}) = Cardinality(all \ {c}) + 1
          BY <2>2, <4>1, FS_AddElement
        <4> QED
          BY <3>1, <4>1, <4>2
      <3>2. CASE c \notin all
        <4>1. all \ {c} = all
          BY <3>2
        <4> QED
          BY <2>2, <3>2, <4>1
      <3> QED
        BY <3>1, <3>2
    <2> QED
      BY <2>2, <2>3 DEF all
  <1> QED
    BY <1>1 DEF Besides

\* Registry w and the record rec of call c take the place of the old ones.
LEMMA InstalledCall ==
  ASSUME RoutedInv, NEW c \in RoutedCalls, NEW w, Kept(w), NEW rec \in CallState, CallIsHonest(rec),
         \A p \in Routed!Providers :
           Load(w.breaker[p])
             <= Besides(c)[p]
                + (IF rec.at \in {"calling", "waiting"} /\ Routed!Provider(rec.current) = p THEN 1 ELSE 0),
         Routed!Install(c, w, rec)
  PROVE  RoutedInv'
  <1>1. /\ breaker' = w.breaker /\ tracked' = w.tracked
        /\ call' = [call EXCEPT ![c] = rec] /\ call \in [RoutedCalls -> CallState]
    BY DEF RoutedInv, RoutedTypes, Routed!Install
  <1>2. \A d \in RoutedCalls : call'[d] = IF d = c THEN rec ELSE call[d]
    BY <1>1
  <1>3. RoutedTypes'
    <2>1. call' \in [RoutedCalls -> CallState]
      BY <1>1
    <2>2. Kept(Routed!Registry)'
      BY <1>1 DEF Kept, Routed!Registry
    <2> QED
      BY <2>1, <2>2 DEF RoutedTypes
  <1>4. (\A d \in RoutedCalls : CallIsHonest(call[d]))'
    <2>1. \A d \in RoutedCalls : CallIsHonest(call[d])
      BY DEF RoutedInv
    <2>2. ASSUME NEW d \in RoutedCalls  PROVE CallIsHonest(call'[d])
      BY <1>2, <2>1
    <2> QED
      BY <2>2
  <1>5. Probes'
    <2>1. ASSUME NEW p \in Routed!Providers
          PROVE  Load(breaker'[p]) <= Cardinality(Routed!InFlight(p)')
      <3> DEFINE rest == Routed!InFlight(p) \ {c}
                 here == rec.at \in {"calling", "waiting"} /\ Routed!Provider(rec.current) = p
      <3>1. Routed!InFlight(p)' = IF here THEN rest \cup {c} ELSE rest
        BY <1>2 DEF Routed!InFlight
      <3>2. /\ IsFiniteSet(rest) /\ c \notin rest
            /\ Besides(c)[p] = Cardinality(rest) /\ Besides(c)[p] \in Nat
        BY BesidesTypes DEF Besides
      <3> HIDE DEF rest
      <3>3. Cardinality(rest \cup {c}) = Cardinality(rest) + 1
        BY <3>2, FS_AddElement
      <3>4. Load(breaker'[p]) <= Besides(c)[p] + (IF here THEN 1 ELSE 0)
        BY <1>1
      <3> HIDE DEF here
      <3>5. CASE here
        <4>1. Routed!InFlight(p)' = rest \cup {c}
          BY <3>1, <3>5
        <4>2. Load(breaker'[p]) <= Besides(c)[p] + 1
          BY <3>4, <3>5
        <4> QED
          BY <3>2, <3>3, <4>1, <4>2
      <3>6. CASE ~here
        <4>1. Routed!InFlight(p)' = rest
          BY <3>1, <3>6
        <4>2. Load(breaker'[p]) <= Besides(c)[p] + 0
          BY <3>4, <3>6
        <4>3. Besides(c)[p] + 0 = Besides(c)[p]
          BY <3>2
        <4> QED
          BY <3>2, <4>1, <4>2, <4>3
      <3> QED
        BY <3>5, <3>6
    <2>2. Routed!Providers' = Routed!Providers
      BY DEF Routed!Providers
    <2> QED
      BY <2>1, <2>2 DEF Probes
  <1> QED
    BY <1>3, <1>4, <1>5 DEF RoutedInv

\* A call goes on to its next candidate, or to its end.
LEMMA CallGoesOn ==
  ASSUME RoutedInv, NEW c \in RoutedCalls, NEW w, Kept(w),
         \A p \in Routed!Providers : Load(w.breaker[p]) <= Besides(c)[p],
         NEW rec \in CallState, Rising(rec.queue, 0), Follow(rec.attempts), Remembers(rec),
         \A j \in DOMAIN rec.attempts :
           /\ rec.attempts[j].how \notin {"ok", "raise"}
           /\ \A m \in DOMAIN rec.queue : rec.attempts[j].candidate < rec.queue[m],
         rec.attempts = << >> => \A i \in Cand : \E m \in DOMAIN rec.queue : rec.queue[m] = i,
         Routed!GoOn(c, Routed!NextCandidate(w, rec))
  PROVE  RoutedInv'
  <1> DEFINE s == Routed!NextCandidate(w, rec)
             q == rec.queue
             n == Len(q)
  <1>1. Walked(s, rec, q, n, Besides(c))
    BY BesidesTypes, NextIsWalked
  <1>2. q \in Seq(Cand) /\ n \in Nat /\ DOMAIN q = 1 .. n /\ \A m \in DOMAIN q : q[m] \in Cand
    <2>1. q \in Seq(Cand)
      BY DEF CallState
    <2> QED
      BY <2>1, LenProperties, ElementOfSeq
  <1>3. rec.attempts \in Seq(Tries) /\ rec.minWindow \in Nat \cup {Routed!NoWindow}
    BY DEF CallState
  <1> HIDE DEF s
  <1>4. /\ Kept(s.w) /\ s.k \in CallState /\ s.k.attempts = rec.attempts
        /\ s.k.minWindow = rec.minWindow /\ s.k.retries = 0 /\ s.k.current \in 0 .. Len(Route)
    BY <1>1 DEF Walked, CallState
  <1>5. CASE s.k.current = 0
    <2> DEFINE old == s.k
               new == [old EXCEPT !.at = Routed!Exhausted(old)]
    <2>1. Routed!Install(c, s.w, new)
      BY <1>5 DEF Routed!GoOn, s
    <2>2. Routed!Exhausted(old) \in {"lastError", "policy_violation", "no_available_candidate"}
      BY DEF Routed!Exhausted
    <2>3. /\ new \in CallState /\ new.at = Routed!Exhausted(old) /\ new.attempts = old.attempts
          /\ new.minWindow = old.minWindow
      <3> HIDE DEF old
      <3>1. old \in CallState
        BY <1>4 DEF old
      <3> QED
        BY <2>2, <3>1 DEF CallState, Routed!Answers
    <2> HIDE DEF new
    <2>4. Honest(new)
      <3>1. ASSUME Routed!Exhausted(old) = "policy_violation"
            PROVE  \A i \in Cand : ~Route[i].compliant
        <4>1. rec.attempts = << >> /\ Routed!Range(old.skipped) \subseteq {"non_compliant"}
          BY <1>4, <3>1 DEF Routed!Exhausted
        <4>2. \A m \in 1 .. n : ~Route[q[m]].compliant
          BY <1>1, <1>5, <4>1 DEF Walked
        <4> QED
          BY <1>2, <4>1, <4>2
      <3>2. Routed!Exhausted(old) = "no_available_candidate" => old.attempts = << >>
        BY DEF Routed!Exhausted
      <3> QED
        BY <2>3, <3>1, <3>2 DEF Honest
    <2>5. CallIsHonest(new)
      BY <1>4, <2>2, <2>3, <2>4 DEF CallIsHonest, UnderWay, Follow, Remembers
    <2>6. ASSUME NEW p \in Routed!Providers
          PROVE  Load(s.w.breaker[p])
                   <= Besides(c)[p]
                      + (IF new.at \in {"calling", "waiting"} /\ Routed!Provider(new.current) = p
                         THEN 1 ELSE 0)
      <3>1. Load(s.w.breaker[p]) <= Besides(c)[p] + 0
        BY <1>1, <1>5 DEF Walked
      <3>2. new.at \notin {"calling", "waiting"}
        BY <2>2, <2>3
      <3> QED
        BY <3>1, <3>2
    <2> QED
      BY <1>4, <2>1, <2>3, <2>5, <2>6, InstalledCall
  <1>6. CASE s.k.current # 0
    <2> DEFINE old == s.k
               new == [old EXCEPT !.at = "calling"]
               i == old.current
    <2>1. Routed!Install(c, s.w, new)
      BY <1>6 DEF Routed!GoOn, s
    <2>2. /\ new \in CallState /\ new.at = "calling" /\ new.attempts = rec.attempts
          /\ new.minWindow = rec.minWindow /\ new.retries = 0 /\ new.current = i
          /\ new.queue = old.queue
      <3> HIDE DEF old
      <3>1. old \in CallState /\ old.attempts = rec.attempts /\ old.minWindow = rec.minWindow
            /\ old.retries = 0
        BY <1>4 DEF old
      <3> QED
        BY <3>1 DEF CallState
    <2> HIDE DEF new
    <2>3. i \in Cand /\ Route[i].window \in Nat
      BY <1>4, <1>6, RoutedAssumption DEF Cand
    <2>4. /\ Route[i].compliant /\ ~Routed!TooSmall(rec, i) /\ Rising(old.queue, i)
          /\ \E m \in 1 .. n : i = q[m]
      BY <1>1, <1>6 DEF Walked
    <2>5. \A j \in DOMAIN rec.attempts :
            rec.attempts[j].candidate < i /\ rec.attempts[j].how \notin {"ok", "raise"}
      BY <1>2, <2>4
    <2>6. \A j \in DOMAIN rec.attempts : rec.attempts[j] \in Tries
      BY <1>3, ElementOfSeq, LenProperties
    <2>7. \A j \in DOMAIN rec.attempts : rec.attempts[j].candidate \in Int /\ rec.attempts[j].candidate # i
      <3> SUFFICES ASSUME NEW j \in DOMAIN rec.attempts
                   PROVE  rec.attempts[j].candidate \in Int /\ rec.attempts[j].candidate # i
        OBVIOUS
      <3>1. rec.attempts[j].candidate \in Cand /\ rec.attempts[j].candidate < i
        BY <2>5, <2>6 DEF Tries
      <3> QED
        BY <2>3, <3>1, RoutedAssumption DEF Cand
    <2>8. Count(rec.attempts, i) = 0
      BY <1>3, <2>7, CountOfNew
    <2>9. ASSUME NEW j \in DOMAIN rec.attempts, rec.attempts[j].how = "next_larger_context"
          PROVE  Route[i].window > Route[rec.attempts[j].candidate].window
      <3>1. rec.minWindow \in Nat /\ Route[rec.attempts[j].candidate].window <= rec.minWindow
        BY <2>9 DEF Remembers
      <3>2. rec.minWindow < Route[i].window
        BY <2>3, <2>4, <3>1 DEF Routed!TooSmall, Routed!NoWindow
      <3>3. Route[rec.attempts[j].candidate].window \in Nat
        BY <2>6, RoutedAssumption DEF Tries, Cand
      <3> QED
        BY <2>3, <3>1, <3>2, <3>3
    <2>10. MayFollow(rec.attempts, i)
      <3>1. \A j \in DOMAIN rec.attempts : rec.attempts[j].candidate <= i
        BY <2>3, <2>5, <2>7, RoutedAssumption DEF Cand
      <3> QED
        BY <2>4, <2>5, <2>7, <2>8, <2>9, <3>1, RoutedAssumption DEF MayFollow
    <2>11. UnderWay(new)
      BY <2>2, <2>3, <2>4, <2>8, <2>10 DEF UnderWay
    <2>12. CallIsHonest(new)
      BY <2>2, <2>11 DEF CallIsHonest, Honest, Follow, Remembers
    <2>13. ASSUME NEW p \in Routed!Providers
           PROVE  Load(s.w.breaker[p])
                    <= Besides(c)[p]
                       + (IF new.at \in {"calling", "waiting"} /\ Routed!Provider(new.current) = p
                          THEN 1 ELSE 0)
      BY <1>1, <1>6, <2>2 DEF Walked
    <2> QED
      BY <1>4, <2>1, <2>2, <2>12, <2>13, InstalledCall
  <1> QED
    BY <1>5, <1>6

-----------------------------------------------------------------------------
\* The steps.
LEMMA RoutedInitially == Routed!Init => RoutedInv
  <1> SUFFICES ASSUME Routed!Init  PROVE RoutedInv
    OBVIOUS
  <1>1. /\ breaker = [p \in Routed!Providers |-> Routed!Fresh] /\ tracked = << >>
        /\ call = [c \in RoutedCalls |-> Routed!Idle]
    BY DEF Routed!Init
  <1>2. Kept(Routed!Registry)
    <2>1. << >> \in Seq(Routed!Providers) /\ Len(<< >>) = 0 /\ DOMAIN << >> = {}
      BY EmptySeq
    <2>2. tracked \in Seq(Routed!Providers) /\ Len(tracked) <= MaxBreakers /\ DOMAIN tracked = {}
      BY <1>1, <2>1, RoutedAssumption
    <2>3. DOMAIN breaker = Routed!Providers /\ \A p \in Routed!Providers : Sound(breaker[p])
      BY <1>1, FreshBreaker
    <2> QED
      BY <2>2, <2>3 DEF Kept, Routed!Registry
  <1>3. /\ << >> \in Seq(Cand) /\ << >> \in Seq(Tries) /\ << >> \in Seq(Routed!SkipReasons)
        /\ 0 \in 0 .. Len(Route) /\ 0 \in 0 .. RateLimitRetries
    BY RoutedAssumption, EmptySeq
  <1>4. /\ Routed!Idle \in CallState /\ Routed!Idle.at = "idle" /\ Routed!Idle.attempts = << >>
    BY <1>3 DEF Routed!Idle, CallState
  <1>5. CallIsHonest(Routed!Idle)
    BY <1>4 DEF CallIsHonest, Follow, Remembers, UnderWay, Honest
  <1>6. Probes
    <2> SUFFICES ASSUME NEW p \in Routed!Providers
                 PROVE  Load(breaker[p]) <= Cardinality(Routed!InFlight(p))
      BY DEF Probes
    <2>1. Routed!InFlight(p) = {}
      BY <1>1, <1>4 DEF Routed!InFlight
    <2> QED
      BY <1>1, <2>1, FreshBreaker, FS_EmptySet
  <1> QED
    BY <1>1, <1>2, <1>4, <1>5, <1>6 DEF RoutedInv, RoutedTypes

\* Before c is in flight all probes are of others.
LEMMA OthersProbe ==
  ASSUME RoutedInv, NEW c \in RoutedCalls, call[c].at \notin {"calling", "waiting"}
  PROVE  \A p \in Routed!Providers : Load(breaker[p]) <= Besides(c)[p]
  <1> SUFFICES ASSUME NEW p \in Routed!Providers  PROVE Load(breaker[p]) <= Besides(c)[p]
    OBVIOUS
  <1>1. c \notin Routed!InFlight(p)
    BY DEF Routed!InFlight
  <1>2. Cardinality(Routed!InFlight(p)) = Besides(c)[p] + 0 /\ Besides(c)[p] \in Nat
    BY <1>1, BesidesTypes
  <1> QED
    BY <1>2 DEF RoutedInv, Probes

LEMMA RoutedStart ==
  ASSUME RoutedInv, NEW c \in RoutedCalls, Routed!Start(c)
  PROVE  RoutedInv'
  <1> DEFINE all == [i \in DOMAIN Route |-> i]
             rec == [Routed!Idle EXCEPT !.queue = all]
  <1>1. /\ Kept(Routed!Registry) /\ Routed!Registry.breaker = breaker
    BY DEF RoutedInv, RoutedTypes, Routed!Registry
  <1>2. all \in Seq(Cand) /\ DOMAIN all = Cand /\ \A i \in Cand : all[i] = i
    <2>1. all \in [1 .. Len(Route) -> Cand]
      BY RoutedAssumption DEF Cand
    <2> QED
      BY <2>1, RoutedAssumption, SeqDef DEF Cand
  <1>3. /\ rec \in CallState /\ rec.queue = all /\ rec.attempts = << >>
    <2>1. /\ << >> \in Seq(Tries) /\ << >> \in Seq(Routed!SkipReasons)
          /\ 0 \in 0 .. Len(Route) /\ 0 \in 0 .. RateLimitRetries
      BY RoutedAssumption, EmptySeq
    <2> HIDE DEF all
    <2> QED
      BY <1>2, <2>1 DEF Routed!Idle, CallState
  <1>4. Routed!GoOn(c, Routed!NextCandidate(Routed!Registry, rec)) /\ call[c].at = "idle"
    BY DEF Routed!Start
  <1> HIDE DEF rec, all
  <1>5. Rising(rec.queue, 0)
    BY <1>2, <1>3, RoutedAssumption DEF Rising, Cand
  <1>6. Follow(rec.attempts) /\ Remembers(rec) /\ DOMAIN rec.attempts = {}
    BY <1>3 DEF Follow, Remembers
  <1>7. \A i \in Cand : \E m \in DOMAIN rec.queue : rec.queue[m] = i
    BY <1>2, <1>3
  <1>8. \A p \in Routed!Providers : Load(Routed!Registry.breaker[p]) <= Besides(c)[p]
    BY <1>1, <1>4, OthersProbe
  <1> QED
    BY <1>1, <1>3, <1>4, <1>5, <1>6, <1>7, <1>8, CallGoesOn

\* An attempt of a call under way is recorded.
LEMMA RecordedAttempt ==
  ASSUME RoutedInv, NEW c \in RoutedCalls, call[c].at = "calling", NEW how \in Hows
  PROVE  /\ Routed!Attempt(c, how) \in CallState
         /\ Routed!Attempt(c, how).attempts
              = Append(call[c].attempts, [candidate |-> call[c].current, how |-> how])
         /\ Routed!Attempt(c, how).current = call[c].current
         /\ Routed!Attempt(c, how).queue = call[c].queue
         /\ Routed!Attempt(c, how).retries = call[c].retries
         /\ Routed!Attempt(c, how).minWindow = call[c].minWindow
         /\ Follow(Routed!Attempt(c, how).attempts)
         /\ [candidate |-> call[c].current, how |-> how] \in Tries
         /\ call[c] \in CallState /\ call[c].attempts \in Seq(Tries) /\ call[c].current \in Cand
  <1> DEFINE old == call[c]
             t == [candidate |-> old.current, how |-> how]
             new == [old EXCEPT !.attempts = Append(@, t)]
  <1>1. old \in CallState /\ CallIsHonest(old)
    BY DEF RoutedInv, RoutedTypes
  <1>2. old.current \in Cand /\ old.attempts \in Seq(Tries)
    BY <1>1 DEF CallIsHonest, UnderWay, CallState
  <1>3. t \in Tries /\ t.candidate = old.current
    BY <1>2 DEF Tries
  <1>4. Routed!Attempt(c, how) = new
    BY DEF Routed!Attempt
  <1>5. MayFollow(old.attempts, t.candidate) /\ Follow(old.attempts)
    BY <1>1, <1>3 DEF CallIsHonest, UnderWay
  <1> HIDE DEF t
  <1>6. Append(old.attempts, t) \in Seq(Tries) /\ Follow(Append(old.attempts, t))
    <2> HIDE DEF old
    <2> QED
      BY <1>2, <1>3, <1>5, AppendedTry, FollowingTry
  <1> DEFINE a == Append(old.attempts, t)
  <1>7. /\ new \in CallState /\ new.attempts = a /\ new.current = old.current
        /\ new.queue = old.queue /\ new.retries = old.retries /\ new.minWindow = old.minWindow
    <2> HIDE DEF old
    <2> QED
      BY <1>1, <1>6 DEF CallState
  <1> HIDE DEF new
  <1> QED
    BY <1>1, <1>2, <1>3, <1>4, <1>6, <1>7 DEF t

\* A breaker that takes note of the end of c's attempt gives back its slot.
LEMMA EndedProbe ==
  ASSUME RoutedInv, NEW c \in RoutedCalls, call[c].at = "calling",
         NEW p, p = Routed!Provider(call[c].current), NEW b, Sound(b),
         Load(b) <= (IF Load(Routed!Seen(Routed!Registry, p)) > 0
                     THEN Load(Routed!Seen(Routed!Registry, p)) - 1 ELSE 0)
  PROVE  /\ p \in Routed!Providers /\ Kept(Routed!Put(Routed!Registry, p, b))
         /\ \A r \in Routed!Providers :
              Load(Routed!Put(Routed!Registry, p, b).breaker[r]) <= Besides(c)[r]
  <1> DEFINE w == Routed!Registry
             seen == Routed!Seen(w, p)
             n == Routed!Put(w, p, b)
  <1>1. Kept(w) /\ w.breaker = breaker
    BY DEF RoutedInv, RoutedTypes, Routed!Registry
  <1>2. p \in Routed!Providers
    <2>1. CallIsHonest(call[c])
      BY DEF RoutedInv
    <2>2. call[c].current \in Cand
      BY <2>1 DEF CallIsHonest, UnderWay
    <2> QED
      BY <2>2, RouteProvider
  <1> HIDE DEF w
  <1>3. Sound(seen) /\ Load(seen) <= Load(breaker[p])
    BY <1>1, <1>2, SeenBreaker
  <1>4. /\ Kept(n) /\ n.breaker[p] = b
        /\ \A r \in Routed!Providers \ {p} : Load(n.breaker[r]) <= Load(breaker[r])
    BY <1>1, <1>2, PutBreaker
  <1> HIDE DEF n
  <1>5. /\ \A r \in Routed!Providers : Sound(n.breaker[r]) /\ Sound(breaker[r])
        /\ \A x : Sound(x) => Load(x) \in Nat
    BY <1>1, <1>4, RoutedAssumption DEF Kept, Sound, Load, BreakerState
  <1> HIDE DEF seen
  <1>6. ASSUME NEW r \in Routed!Providers  PROVE Load(n.breaker[r]) <= Besides(c)[r]
    <2>1. Load(breaker[r]) <= Cardinality(Routed!InFlight(r))
      BY DEF RoutedInv, Probes
    <2>2. /\ Cardinality(Routed!InFlight(r))
               = Besides(c)[r] + (IF c \in Routed!InFlight(r) THEN 1 ELSE 0)
          /\ Besides(c)[r] \in Nat
      BY BesidesTypes
    <2>3. c \in Routed!InFlight(r) <=> r = p
      BY DEF Routed!InFlight
    <2>4. CASE r = p
      <3>1. Load(breaker[r]) <= Besides(c)[r] + 1
        BY <2>1, <2>2, <2>3, <2>4
      <3>2. Load(b) <= (IF Load(seen) > 0 THEN Load(seen) - 1 ELSE 0)
        BY DEF seen, w
      <3>3. /\ Load(b) \in Nat /\ Load(seen) \in Nat /\ Load(breaker[r]) \in Nat
            /\ Load(seen) <= Load(breaker[r]) /\ n.breaker[r] = b
        BY <1>3, <1>4, <1>5, <2>4
      <3> QED
        BY <2>2, <3>1, <3>2, <3>3
    <2>5. CASE r # p
      <3>1. Load(breaker[r]) <= Besides(c)[r] + 0
        BY <2>1, <2>2, <2>3, <2>5
      <3>2. Load(n.breaker[r]) <= Load(breaker[r]) /\ Load(n.breaker[r]) \in Nat
            /\ Load(breaker[r]) \in Nat
        BY <1>4, <1>5, <2>5
      <3> QED
        BY <2>2, <3>1, <3>2
    <2> QED
      BY <2>4, <2>5
  <1> QED
    BY <1>2, <1>4, <1>6 DEF n, w

LEMMA RoutedSucceeds ==
  ASSUME RoutedInv, NEW c \in RoutedCalls, Routed!Succeeds(c)
  PROVE  RoutedInv'
  <1> DEFINE p == Routed!Provider(call[c].current)
             seen == Routed!Seen(Routed!Registry, p)
             w == Routed!Put(Routed!Registry, p, Routed!RecordSuccess(seen))
             rec == Routed!Attempt(c, "ok")
             new == [rec EXCEPT !.at = "response"]
  <1>1. call[c].at = "calling" /\ Routed!Install(c, w, new)
    BY DEF Routed!Succeeds
  <1>2. /\ rec \in CallState /\ Follow(rec.attempts)
        /\ rec.attempts = Append(call[c].attempts, [candidate |-> call[c].current, how |-> "ok"])
        /\ rec.minWindow = call[c].minWindow
        /\ [candidate |-> call[c].current, how |-> "ok"] \in Tries /\ call[c].attempts \in Seq(Tries)
    BY <1>1, RecordedAttempt DEF Hows
  <1>3. Sound(seen)
    <2>1. Kept(Routed!Registry) /\ CallIsHonest(call[c])
      BY DEF RoutedInv, RoutedTypes
    <2>2. p \in Routed!Providers
      BY <1>1, <2>1, RouteProvider DEF CallIsHonest, UnderWay
    <2> QED
      BY <2>1, <2>2, SeenBreaker
  <1>4. Sound(Routed!RecordSuccess(seen)) /\ Load(Routed!RecordSuccess(seen)) = 0
    BY <1>3, SucceededBreaker
  <1>5. Kept(w) /\ \A r \in Routed!Providers : Load(w.breaker[r]) <= Besides(c)[r]
    <2>1. Load(seen) \in Nat
      BY <1>3, RoutedAssumption DEF Sound, Load, BreakerState
    <2>2. Load(Routed!RecordSuccess(seen)) <= IF Load(seen) > 0 THEN Load(seen) - 1 ELSE 0
      BY <1>4, <2>1
    <2> QED
      BY <1>1, <1>4, <2>2, EndedProbe
  <1> HIDE DEF rec, w, seen
  <1>6. /\ new \in CallState /\ new.at = "response" /\ new.attempts = rec.attempts
        /\ new.minWindow = rec.minWindow
    BY <1>2 DEF CallState, Routed!Answers
  <1> HIDE DEF new
  <1>7. Remembers(new)
    <2> DEFINE a == call[c].attempts
               t == [candidate |-> call[c].current, how |-> "ok"]
    <2>1. /\ DOMAIN a = 1 .. Len(a) /\ Len(a) \in Nat /\ DOMAIN Append(a, t) = 1 .. (Len(a) + 1)
          /\ \A j \in DOMAIN a : Append(a, t)[j] = a[j]
          /\ Append(a, t)[Len(a) + 1] = t
      BY <1>2, AppendedTry
    <2>2. t.how = "ok"
      OBVIOUS
    <2>3. Remembers(call[c])
      BY DEF RoutedInv, CallIsHonest
    <2> HIDE DEF t
    <2>4. new.attempts = Append(a, t) /\ new.minWindow = call[c].minWindow
      BY <1>2, <1>6 DEF t
    <2>5. ASSUME NEW j \in DOMAIN Append(a, t), Append(a, t)[j].how = "next_larger_context"
          PROVE  /\ call[c].minWindow \in Nat
                 /\ Route[Append(a, t)[j].candidate].window <= call[c].minWindow
      <3>1. j \in DOMAIN a
        BY <2>1, <2>2, <2>5
      <3>2. Append(a, t)[j] = a[j]
        BY <2>1, <3>1
      <3> QED
        BY <2>3, <2>5, <3>1, <3>2 DEF Remembers
    <2> QED
      BY <2>4, <2>5 DEF Remembers
  <1>8. CallIsHonest(new)
    BY <1>2, <1>6, <1>7 DEF CallIsHonest, UnderWay, Honest
  <1>9. ASSUME NEW r \in Routed!Providers
        PROVE  Load(w.breaker[r])
                 <= Besides(c)[r]
                    + (IF new.at \in {"calling", "waiting"} /\ Routed!Provider(new.current) = r
                       THEN 1 ELSE 0)
    <2>1. Besides(c)[r] \in Nat
      BY BesidesTypes
    <2> QED
      BY <1>5, <1>6, <2>1
  <1> QED
    BY <1>1, <1>5, <1>6, <1>8, <1>9, InstalledCall

\* The larger of the windows that were too small.
LEMMA ConstrainedCall ==
  ASSUME NEW rec \in CallState, rec.current \in Cand, NEW v \in Routed!Outcomes
  PROVE  /\ Routed!Constrained(rec, v) \in CallState
         /\ Routed!Constrained(rec, v).attempts = rec.attempts
         /\ Routed!Constrained(rec, v).queue = rec.queue
         /\ rec.minWindow \in Nat =>
              /\ Routed!Constrained(rec, v).minWindow \in Nat
              /\ rec.minWindow <= Routed!Constrained(rec, v).minWindow
         /\ v.action = "next_larger_context" =>
              /\ Routed!Constrained(rec, v).minWindow \in Nat
              /\ Route[rec.current].window <= Routed!Constrained(rec, v).minWindow
  <1> DEFINE window == Route[rec.current].window
             known == {rec.minWindow, 0, window}
             max == Routed!Max(known)
             new == [rec EXCEPT !.minWindow = max]
  <1>1. CASE v.action = "next_larger_context"
    <2>1. window \in Nat /\ rec.minWindow \in Nat \cup {Routed!NoWindow}
      BY RoutedAssumption DEF Cand, CallState
    <2>2. \E x \in known : \A y \in known : x >= y
      <3> HIDE DEF window
      <3>1. rec.minWindow \in Int /\ window \in Int
        BY <2>1 DEF Routed!NoWindow
      <3> QED
        BY <3>1
    <2>3. max \in known /\ \A y \in known : max >= y
      <3> HIDE DEF known
      <3> QED
        BY <2>2 DEF Routed!Max
    <2> HIDE DEF max
    <2>4. max \in Nat /\ window <= max /\ (rec.minWindow \in Nat => rec.minWindow <= max)
      <3> HIDE DEF window
      <3> QED
        BY <2>1, <2>3 DEF Routed!NoWindow
    <2>5. Routed!Constrained(rec, v) = new
      BY <1>1 DEF Routed!Constrained, max
    <2>6. /\ new \in CallState /\ new.attempts = rec.attempts /\ new.queue = rec.queue
          /\ new.minWindow = max
      <3>1. max \in Nat \cup {Routed!NoWindow}
        BY <2>4
      <3> HIDE DEF max
      <3> QED
        BY <3>1 DEF CallState
    <2> HIDE DEF new
    <2> QED
      BY <2>4, <2>5, <2>6
  <1>2. CASE v.action # "next_larger_context"
    <2>1. Routed!Constrained(rec, v) = rec
      BY <1>2 DEF Routed!Constrained
    <2>2. rec.minWindow \in Nat => rec.minWindow <= rec.minWindow
      OBVIOUS
    <2> QED
      BY <1>2, <2>1, <2>2
  <1> QED
    BY <1>1, <1>2

LEMMA RoutedFails ==
  ASSUME RoutedInv, NEW c \in RoutedCalls, Routed!Fails(c)
  PROVE  RoutedInv'
  <1>1. call[c].at = "calling"
    BY DEF Routed!Fails
  <1> DEFINE p == Routed!Provider(call[c].current)
             seen == Routed!Seen(Routed!Registry, p)
             Noted(v) == IF v.trips THEN Routed!RecordFailure(seen) ELSE Routed!ReleaseSlot(seen)
             K(v) == Routed!Attempt(c, v.action)
             W(v) == Routed!Put(Routed!Registry, p, Noted(v))
             Retry(v) == v.action = "retry_after" /\ v.mayWait /\ K(v).retries < RateLimitRetries
             Again(v) == Routed!Put(W(v), p, Routed!Allow(Routed!Seen(W(v), p)))
             Waiting(v) == [K(v) EXCEPT !.at = "waiting", !.retries = @ + 1]
  <1>2. PICK v \in Routed!Outcomes :
          \/ v.action = "raise" /\ Routed!Install(c, W(v), [K(v) EXCEPT !.at = "raised"])
          \/ /\ v.action # "raise" /\ Retry(v) /\ Routed!Allows(Routed!Seen(W(v), p))
             /\ Routed!Install(c, Again(v), Waiting(v))
          \/ /\ v.action # "raise" /\ ~(Retry(v) /\ Routed!Allows(Routed!Seen(W(v), p)))
             /\ Routed!GoOn(c, Routed!NextCandidate(IF Retry(v) THEN Again(v) ELSE W(v),
                                                    Routed!Constrained(K(v), v)))
    BY DEF Routed!Fails
  <1> DEFINE old == call[c]
             t == [candidate |-> old.current, how |-> v.action]
             rec == K(v)
             w == W(v)
             again == Again(v)
             a == old.attempts
  <1>3. v.action \in {"raise", "next", "next_larger_context", "retry_after"} /\ v.action \in Hows
    BY OutcomeTypes DEF Hows
  <1>4. /\ rec \in CallState /\ rec.attempts = Append(a, t) /\ rec.current = old.current
        /\ rec.queue = old.queue /\ rec.retries = old.retries /\ rec.minWindow = old.minWindow
        /\ Follow(rec.attempts) /\ t \in Tries
        /\ old \in CallState /\ a \in Seq(Tries) /\ old.current \in Cand
    BY <1>1, <1>3, RecordedAttempt
  <1>5. /\ Remembers(old) /\ Count(a, old.current) <= old.retries
        /\ MayFollow(a, old.current) /\ Rising(old.queue, old.current)
    BY <1>1 DEF RoutedInv, CallIsHonest, UnderWay
  <1>6. p \in Routed!Providers /\ Sound(seen)
    <2>1. Kept(Routed!Registry)
      BY DEF RoutedInv, RoutedTypes
    <2>2. p \in Routed!Providers
      BY <1>4, RouteProvider
    <2> QED
      BY <2>1, <2>2, SeenBreaker
  <1>7. /\ Sound(Noted(v))
        /\ Load(Noted(v)) <= (IF Load(seen) > 0 THEN Load(seen) - 1 ELSE 0)
    <2> HIDE DEF seen
    <2>1. Load(seen) \in Nat
      BY <1>6, RoutedAssumption DEF Sound, Load, BreakerState
    <2>2. CASE v.trips
      <3>1. Noted(v) = Routed!RecordFailure(seen)
        BY <2>2
      <3> QED
        BY <1>6, <2>1, <3>1, FailedBreaker
    <2>3. CASE ~v.trips
      <3>1. Noted(v) = Routed!ReleaseSlot(seen)
        BY <2>3
      <3> QED
        BY <1>6, <2>1, <3>1, ReleasedBreaker
    <2> QED
      BY <2>2, <2>3
  <1>8. Kept(w) /\ \A r \in Routed!Providers : Load(w.breaker[r]) <= Besides(c)[r]
    <2> HIDE DEF Noted
    <2> QED
      BY <1>1, <1>7, EndedProbe
  <1> HIDE DEF w
  <1> DEFINE seenAgain == Routed!Seen(w, p)
  <1>9. /\ Sound(seenAgain) /\ Load(seenAgain) <= Load(w.breaker[p])
        /\ Sound(Routed!Allow(seenAgain))
        /\ Load(Routed!Allow(seenAgain))
             <= Load(seenAgain) + (IF Routed!Allows(seenAgain) THEN 1 ELSE 0)
    BY <1>6, <1>8, SeenBreaker, AllowedBreaker
  <1>10. again = Routed!Put(w, p, Routed!Allow(seenAgain))
    BY DEF w
  <1> HIDE DEF again, seenAgain
  <1>11. /\ Kept(again) /\ again.breaker[p] = Routed!Allow(seenAgain)
         /\ \A r \in Routed!Providers \ {p} : Load(again.breaker[r]) <= Load(w.breaker[r])
    BY <1>6, <1>8, <1>9, <1>10, PutBreaker
  <1>12. \A r \in Routed!Providers :
           Load(again.breaker[r])
             <= Besides(c)[r] + (IF Routed!Allows(seenAgain) /\ p = r THEN 1 ELSE 0)
    <2> SUFFICES ASSUME NEW r \in Routed!Providers
                 PROVE  Load(again.breaker[r])
                          <= Besides(c)[r] + (IF Routed!Allows(seenAgain) /\ p = r THEN 1 ELSE 0)
      OBVIOUS
    <2>1. \A x : Sound(x) => Load(x) \in Nat
      BY RoutedAssumption DEF Sound, Load, BreakerState
    <2>2. /\ Load(w.breaker[r]) \in Nat /\ Load(again.breaker[r]) \in Nat
          /\ Load(seenAgain) \in Nat /\ Load(Routed!Allow(seenAgain)) \in Nat
      BY <1>8, <1>9, <1>11, <2>1 DEF Kept
    <2>3. Besides(c)[r] \in Nat /\ Load(w.breaker[r]) <= Besides(c)[r]
      BY <1>8, BesidesTypes
    <2>4. CASE r = p
      BY <1>9, <1>11, <2>2, <2>3, <2>4
    <2>5. CASE r # p
      BY <1>11, <2>2, <2>3, <2>5
    <2> QED
      BY <2>4, <2>5
  <1>13. /\ DOMAIN a = 1 .. Len(a) /\ Len(a) \in Nat /\ DOMAIN Append(a, t) = 1 .. (Len(a) + 1)
         /\ \A j \in DOMAIN a : Append(a, t)[j] = a[j] /\ a[j] \in Tries
         /\ Append(a, t)[Len(a) + 1] = t
    BY <1>4, AppendedTry
  <1>14. t.how = v.action /\ t.candidate = old.current
    OBVIOUS
  <1> HIDE DEF rec, t
  \* What is known of the attempts so far, and of the one that failed.
  <1>15. \A j \in DOMAIN Append(a, t) :
           \/ j \in DOMAIN a /\ Append(a, t)[j] = a[j]
           \/ Append(a, t)[j] = t
    BY <1>13
  <1>16. CASE v.action = "raise" /\ Routed!Install(c, w, [rec EXCEPT !.at = "raised"])
    <2> DEFINE new == [rec EXCEPT !.at = "raised"]
    <2>1. /\ new \in CallState /\ new.at = "raised" /\ new.attempts = rec.attempts
          /\ new.minWindow = rec.minWindow
      BY <1>4 DEF CallState, Routed!Answers
    <2>2. Routed!Install(c, w, new)
      BY <1>16
    <2> HIDE DEF new
    <2>3. Remembers(new)
      BY <1>4, <1>5, <1>14, <1>15, <1>16, <2>1 DEF Remembers
    <2>4. CallIsHonest(new)
      BY <1>4, <2>1, <2>3 DEF CallIsHonest, UnderWay, Honest
    <2>5. ASSUME NEW r \in Routed!Providers
          PROVE  Load(w.breaker[r])
                   <= Besides(c)[r]
                      + (IF new.at \in {"calling", "waiting"} /\ Routed!Provider(new.current) = r
                         THEN 1 ELSE 0)
      <3>1. Besides(c)[r] \in Nat
        BY BesidesTypes
      <3> QED
        BY <1>8, <2>1, <3>1
    <2> QED
      BY <1>8, <2>1, <2>2, <2>4, <2>5, InstalledCall
  <1>17. CASE /\ v.action = "retry_after" /\ rec.retries < RateLimitRetries
              /\ Routed!Allows(seenAgain) /\ Routed!Install(c, again, Waiting(v))
    <2> DEFINE new == [rec EXCEPT !.at = "waiting", !.retries = @ + 1]
    <2>1. Waiting(v) = new
      BY DEF rec
    <2>2. /\ new \in CallState /\ new.at = "waiting" /\ new.attempts = Append(a, t)
          /\ new.minWindow = old.minWindow /\ new.retries = old.retries + 1
          /\ new.current = old.current /\ new.queue = old.queue
      <3>1. rec.retries \in 0 .. RateLimitRetries /\ rec.retries + 1 \in 0 .. RateLimitRetries
        <4>1. rec.retries \in 0 .. RateLimitRetries
          BY <1>4 DEF CallState
        <4>2. rec.retries < RateLimitRetries
          BY <1>17, Zenon
        <4> QED
          BY <4>1, <4>2, RoutedAssumption
      <3> HIDE DEF old
      <3> QED
        BY <1>4, <3>1 DEF CallState
    <2> HIDE DEF new
    <2>3. Remembers(new)
      BY <1>5, <1>14, <1>15, <1>17, <2>2 DEF Remembers
    <2>4. Count(new.attempts, new.current) <= new.retries /\ new.retries <= RateLimitRetries
      <3>1. /\ Count(Append(a, t), old.current) = Count(a, old.current) + 1
            /\ Count(a, old.current) \in Nat
        BY <1>4, <1>14, CountOfAppend, CountIsNatural
      <3>2. new.retries \in 0 .. RateLimitRetries /\ old.retries \in 0 .. RateLimitRetries
        BY <1>4, <2>2 DEF CallState
      <3> QED
        BY <1>5, <2>2, <3>1, <3>2, RoutedAssumption
    <2>5. MayFollow(new.attempts, new.current)
      <3>1. Route[old.current].compliant
        BY <1>5 DEF MayFollow
      <3>2. Count(new.attempts, new.current) <= RateLimitRetries
        <4>1. new.retries \in Nat /\ Count(new.attempts, new.current) \in Nat
          <5>1. new.retries \in 0 .. RateLimitRetries /\ new.attempts \in Seq(Tries)
            BY <2>2 DEF CallState
          <5> QED
            BY <5>1, CountIsNatural, RoutedAssumption
        <4> QED
          BY <2>4, <4>1, RoutedAssumption
      <3>3. ASSUME NEW j \in DOMAIN Append(a, t)
            PROVE  LET try == Append(a, t)[j] IN
                   /\ try.candidate <= old.current /\ try.how \notin {"ok", "raise"}
                   /\ try.candidate = old.current => try.how = "retry_after"
                   /\ try.how = "next_larger_context"
                        => Route[old.current].window > Route[try.candidate].window
        <4>1. CASE j \in DOMAIN a /\ Append(a, t)[j] = a[j]
          BY <1>5, <4>1 DEF MayFollow
        <4>2. CASE Append(a, t)[j] = t
          <5>1. old.current <= old.current
            BY <1>4, RoutedAssumption DEF Cand
          <5> QED
            BY <1>14, <1>17, <4>2, <5>1
        <4> QED
          BY <1>15, <4>1, <4>2
      <3> QED
        BY <2>2, <3>1, <3>2, <3>3 DEF MayFollow
    <2>6. CallIsHonest(new)
      BY <1>4, <1>5, <2>2, <2>3, <2>4, <2>5 DEF CallIsHonest, UnderWay, Honest
    <2>7. ASSUME NEW r \in Routed!Providers
          PROVE  Load(again.breaker[r])
                   <= Besides(c)[r]
                      + (IF new.at \in {"calling", "waiting"} /\ Routed!Provider(new.current) = r
                         THEN 1 ELSE 0)
      BY <1>12, <1>17, <2>2
    <2> QED
      BY <1>11, <1>17, <2>1, <2>2, <2>6, <2>7, InstalledCall
  <1>18. CASE /\ v.action # "raise" /\ ~(Retry(v) /\ Routed!Allows(seenAgain))
              /\ Routed!GoOn(c, Routed!NextCandidate(IF Retry(v) THEN again ELSE w,
                                                     Routed!Constrained(rec, v)))
    <2> DEFINE new == Routed!Constrained(rec, v)
               reg == IF Retry(v) THEN again ELSE w
    <2>1. /\ new \in CallState /\ new.attempts = Append(a, t) /\ new.queue = old.queue
          /\ old.minWindow \in Nat => new.minWindow \in Nat /\ old.minWindow <= new.minWindow
          /\ v.action = "next_larger_context"
               => new.minWindow \in Nat /\ Route[old.current].window <= new.minWindow
      BY <1>4, ConstrainedCall
    <2>2. Kept(reg) /\ \A r \in Routed!Providers : Load(reg.breaker[r]) <= Besides(c)[r]
      <3>1. CASE Retry(v)
        <4>1. reg = again /\ ~Routed!Allows(seenAgain)
          BY <1>18, <3>1
        <4>2. ASSUME NEW r \in Routed!Providers  PROVE Load(again.breaker[r]) <= Besides(c)[r]
          <5>1. Besides(c)[r] + 0 = Besides(c)[r]
            BY BesidesTypes
          <5> QED
            BY <1>12, <4>1, <5>1
        <4> QED
          BY <1>11, <4>1, <4>2
      <3>2. CASE ~Retry(v)
        BY <1>8, <3>2
      <3> QED
        BY <3>1, <3>2
    <2>3. Routed!GoOn(c, Routed!NextCandidate(reg, new))
      BY <1>18
    <2> HIDE DEF new, reg
    <2>4. Rising(new.queue, 0) /\ \A m \in DOMAIN new.queue : old.current < new.queue[m]
      <3>1. old.queue \in Seq(Cand)
        BY <1>4 DEF CallState
      <3>2. \A m \in DOMAIN old.queue : old.queue[m] > 0
        BY <3>1, ElementOfSeq, LenProperties, RoutedAssumption DEF Cand
      <3> QED
        BY <1>5, <2>1, <3>2 DEF Rising
    <2>5. Follow(new.attempts)
      BY <1>4, <2>1
    <2>6. Remembers(new)
      <3>1. ASSUME NEW j \in DOMAIN Append(a, t), Append(a, t)[j].how = "next_larger_context"
            PROVE  /\ new.minWindow \in Nat
                   /\ Route[Append(a, t)[j].candidate].window <= new.minWindow
        <4>1. CASE j \in DOMAIN a /\ Append(a, t)[j] = a[j]
          <5>1. old.minWindow \in Nat /\ Route[a[j].candidate].window <= old.minWindow
            BY <1>5, <3>1, <4>1 DEF Remembers
          <5>2. new.minWindow \in Nat /\ old.minWindow <= new.minWindow
            BY <2>1, <5>1
          <5>3. Route[a[j].candidate].window \in Nat
            BY <1>13, <4>1, RoutedAssumption DEF Tries, Cand
          <5> QED
            BY <4>1, <5>1, <5>2, <5>3
        <4>2. CASE Append(a, t)[j] = t
          BY <1>14, <2>1, <3>1, <4>2
        <4> QED
          BY <1>15, <4>1, <4>2
      <3> QED
        BY <2>1, <3>1 DEF Remembers
    <2>7. ASSUME NEW j \in DOMAIN new.attempts
          PROVE  /\ new.attempts[j].how \notin {"ok", "raise"}
                 /\ \A m \in DOMAIN new.queue : new.attempts[j].candidate < new.queue[m]
      <3>1. new.attempts[j].candidate <= old.current /\ new.attempts[j].how \notin {"ok", "raise"}
        <4>1. CASE j \in DOMAIN a /\ Append(a, t)[j] = a[j]
          BY <1>5, <2>1, <4>1 DEF MayFollow
        <4>2. CASE Append(a, t)[j] = t
          <5>1. old.current <= old.current
            BY <1>4, RoutedAssumption DEF Cand
          <5> QED
            BY <1>3, <1>14, <1>18, <2>1, <4>2, <5>1
        <4> QED
          BY <1>15, <2>1, <4>1, <4>2
      <3>2. ASSUME NEW m \in DOMAIN new.queue  PROVE new.attempts[j].candidate < new.queue[m]
        <4>1. old.current < new.queue[m]
          BY <2>4
        <4>2. new.attempts[j].candidate \in Int /\ old.current \in Int
          BY <1>4, <1>13, <1>14, <1>15, <2>1, RoutedAssumption DEF Tries, Cand
        <4>3. new.queue[m] \in Int
          <5>1. new.queue \in Seq(Cand)
            BY <2>1 DEF CallState
          <5> QED
            BY <5>1, ElementOfSeq, LenProperties, RoutedAssumption DEF Cand
        <4> QED
          BY <3>1, <4>1, <4>2, <4>3
      <3> QED
        BY <3>1, <3>2
    <2>8. new.attempts # << >>
      BY <1>13, <2>1
    <2> QED
      BY <2>1, <2>2, <2>3, <2>4, <2>5, <2>6, <2>7, <2>8, CallGoesOn
  <1> QED
    BY <1>2, <1>3, <1>16, <1>17, <1>18 DEF rec, w, again, seenAgain

LEMMA RoutedWakes ==
  ASSUME RoutedInv, NEW c \in RoutedCalls, Routed!Wakes(c)
  PROVE  RoutedInv'
  <1> DEFINE old == call[c]
             new == [old EXCEPT !.at = "calling"]
             w == Routed!Registry
  <1>1. old.at = "waiting" /\ Routed!Install(c, w, new)
    BY DEF Routed!Wakes, Routed!Install, Routed!Registry
  <1>2. old \in CallState /\ CallIsHonest(old) /\ Kept(w)
    BY DEF RoutedInv, RoutedTypes
  <1>3. w.breaker = breaker
    BY DEF Routed!Registry
  <1>4. /\ new \in CallState /\ new.at = "calling" /\ new.current = old.current
        /\ new.queue = old.queue /\ new.retries = old.retries
        /\ new.attempts = old.attempts /\ new.minWindow = old.minWindow
    <2> HIDE DEF old
    <2> QED
      BY <1>2 DEF CallState
  <1> HIDE DEF new, w
  <1>5. CallIsHonest(new)
    BY <1>1, <1>2, <1>4 DEF CallIsHonest, Remembers, UnderWay, Honest
  <1>6. ASSUME NEW p \in Routed!Providers
        PROVE  Load(w.breaker[p])
                 <= Besides(c)[p]
                    + (IF new.at \in {"calling", "waiting"} /\ Routed!Provider(new.current) = p
                       THEN 1 ELSE 0)
    <2>1. Load(breaker[p]) <= Cardinality(Routed!InFlight(p))
      BY DEF RoutedInv, Probes
    <2>2. /\ Cardinality(Routed!InFlight(p))
               = Besides(c)[p] + (IF c \in Routed!InFlight(p) THEN 1 ELSE 0)
      BY BesidesTypes
    <2>3. c \in Routed!InFlight(p) <=> Routed!Provider(new.current) = p
      BY <1>1, <1>4 DEF Routed!InFlight
    <2> QED
      BY <1>3, <1>4, <2>1, <2>2, <2>3
  <1> QED
    BY <1>1, <1>2, <1>4, <1>5, <1>6, InstalledCall

LEMMA RoutedDone ==
  ASSUME RoutedInv, NEW c \in RoutedCalls, Routed!Done(c)
  PROVE  RoutedInv'
  <1> DEFINE w == Routed!Registry
             new == Routed!Idle
  <1>1. call[c].at \notin {"calling", "waiting"} /\ Routed!Install(c, w, new)
    BY DEF Routed!Done, Routed!Answers, Routed!Install, Routed!Registry
  <1>2. Kept(w) /\ w.breaker = breaker
    BY DEF RoutedInv, RoutedTypes, Routed!Registry
  <1>3. new \in CallState /\ new.at = "idle" /\ new.attempts = << >>
    <2>1. /\ << >> \in Seq(Cand) /\ << >> \in Seq(Tries) /\ << >> \in Seq(Routed!SkipReasons)
          /\ 0 \in 0 .. Len(Route) /\ 0 \in 0 .. RateLimitRetries
      BY RoutedAssumption, EmptySeq
    <2> QED
      BY <2>1 DEF Routed!Idle, CallState
  <1>4. CallIsHonest(new)
    BY <1>3 DEF CallIsHonest, Follow, Remembers, UnderWay, Honest
  <1> HIDE DEF new, w
  <1>5. ASSUME NEW p \in Routed!Providers
        PROVE  Load(w.breaker[p])
                 <= Besides(c)[p]
                    + (IF new.at \in {"calling", "waiting"} /\ Routed!Provider(new.current) = p
                       THEN 1 ELSE 0)
    <2>1. Load(breaker[p]) <= Besides(c)[p]
      BY <1>1, OthersProbe
    <2>2. Besides(c)[p] + 0 = Besides(c)[p]
      BY BesidesTypes
    <2> QED
      BY <1>2, <1>3, <2>1, <2>2
  <1> QED
    BY <1>1, <1>2, <1>3, <1>4, <1>5, InstalledCall

\* The breakers change while no call does.
LEMMA RegistryChanges ==
  ASSUME RoutedInv, NEW w, Kept(w),
         \A p \in Routed!Providers : Load(w.breaker[p]) <= Load(breaker[p]),
         breaker' = w.breaker, tracked' = w.tracked, call' = call
  PROVE  RoutedInv'
  <1>1. RoutedTypes'
    <2>1. Kept(Routed!Registry)'
      BY DEF Kept, Routed!Registry
    <2> QED
      BY <2>1 DEF RoutedInv, RoutedTypes
  <1>2. (\A c \in RoutedCalls : CallIsHonest(call[c]))'
    <2>1. \A c \in RoutedCalls : CallIsHonest(call[c])
      BY DEF RoutedInv
    <2> QED
      BY <2>1
  <1>3. Probes'
    <2>1. ASSUME NEW p \in Routed!Providers
          PROVE  Load(breaker'[p]) <= Cardinality(Routed!InFlight(p)')
      <3>1. Routed!InFlight(p)' = Routed!InFlight(p)
        BY DEF Routed!InFlight
      <3>2. Load(breaker[p]) <= Cardinality(Routed!InFlight(p))
        BY DEF RoutedInv, Probes
      <3>3. \A x : Sound(x) => Load(x) \in Nat
        BY RoutedAssumption DEF Sound, Load, BreakerState
      <3>4. Load(breaker[p]) \in Nat /\ Load(w.breaker[p]) \in Nat
        <4>1. Kept(Routed!Registry)
          BY DEF RoutedInv, RoutedTypes
        <4>2. Sound(breaker[p]) /\ Sound(w.breaker[p])
          BY <4>1 DEF Kept, Routed!Registry
        <4> QED
          BY <3>3, <4>2
      <3>5. Cardinality(Routed!InFlight(p)) \in Nat
        <4>1. IsFiniteSet(Routed!InFlight(p))
          BY RoutedAssumption, FS_Subset DEF Routed!InFlight
        <4> QED
          BY <4>1, FS_CardinalityType
      <3> QED
        BY <3>1, <3>2, <3>4, <3>5
    <2>2. Routed!Providers' = Routed!Providers
      BY DEF Routed!Providers
    <2> QED
      BY <2>1, <2>2 DEF Probes
  <1> QED
    BY <1>1, <1>2, <1>3 DEF RoutedInv

LEMMA RoutedElapse ==
  ASSUME RoutedInv, NEW p \in Routed!Providers, Routed!Elapse(p)
  PROVE  RoutedInv'
  <1> DEFINE b == breaker[p]
             new == [b EXCEPT !.waited = TRUE]
             w == [breaker |-> [breaker EXCEPT ![p] = new], tracked |-> tracked]
  <1>1. /\ b.state = "open" /\ breaker' = w.breaker /\ tracked' = w.tracked /\ call' = call
    BY DEF Routed!Elapse
  <1>2. /\ DOMAIN breaker = Routed!Providers
        /\ \A q \in Routed!Providers : Sound(breaker[q])
        /\ tracked \in Seq(Routed!Providers) /\ Len(tracked) <= MaxBreakers
        /\ \A i, j \in DOMAIN tracked : tracked[i] = tracked[j] => i = j
    BY DEF RoutedInv, RoutedTypes, Kept, Routed!Registry
  <1>3. Sound(new) /\ Load(new) = 0
    <2>1. b \in BreakerState
      BY <1>2 DEF Sound
    <2> HIDE DEF b
    <2>2. new \in BreakerState /\ new.state = "open"
      BY <1>1, <2>1 DEF BreakerState
    <2> HIDE DEF new
    <2> QED
      BY <2>2 DEF Sound, Load
  <1> HIDE DEF new
  <1>4. /\ DOMAIN w.breaker = Routed!Providers /\ w.tracked = tracked
        /\ \A q \in Routed!Providers : w.breaker[q] = IF q = p THEN new ELSE breaker[q]
    BY <1>2
  <1> HIDE DEF w
  <1>5. Kept(w)
    BY <1>2, <1>3, <1>4 DEF Kept
  <1>6. \A q \in Routed!Providers : Load(w.breaker[q]) <= Load(breaker[q])
    <2>1. \A q \in Routed!Providers : Load(breaker[q]) \in Nat
      BY <1>2, RoutedAssumption DEF Sound, Load, BreakerState
    <2> QED
      BY <1>3, <1>4, <2>1
  <1> QED
    BY <1>1, <1>5, <1>6, RegistryChanges

LEMMA RoutedForceOpen ==
  ASSUME RoutedInv, NEW p \in Routed!Providers, Routed!ForceOpen(p)
  PROVE  RoutedInv'
  <1> DEFINE seen == Routed!Seen(Routed!Registry, p)
             new == Routed!ForceOpened(seen)
             w == Routed!Put(Routed!Registry, p, new)
  <1>1. breaker' = w.breaker /\ tracked' = w.tracked /\ call' = call
    BY DEF Routed!ForceOpen
  <1>2. Kept(Routed!Registry) /\ Routed!Registry.breaker = breaker
    BY DEF RoutedInv, RoutedTypes, Routed!Registry
  <1>3. Sound(new) /\ Load(new) = 0
    BY <1>2, SeenBreaker, DrainedBreaker
  <1> HIDE DEF new
  <1>4. /\ Kept(w) /\ w.breaker[p] = new
        /\ \A q \in Routed!Providers \ {p} : Load(w.breaker[q]) <= Load(breaker[q])
    BY <1>2, <1>3, PutBreaker
  <1>5. \A q \in Routed!Providers : Load(breaker[q]) \in Nat
    BY <1>2, RoutedAssumption DEF Kept, Sound, Load, BreakerState
  <1> HIDE DEF w
  <1>6. \A q \in Routed!Providers : Load(w.breaker[q]) <= Load(breaker[q])
    BY <1>3, <1>4, <1>5
  <1> QED
    BY <1>1, <1>4, <1>6, RegistryChanges

LEMMA RoutedStep == RoutedInv /\ Routed!Next => RoutedInv'
  BY RoutedStart, RoutedSucceeds, RoutedFails, RoutedWakes, RoutedDone, RoutedElapse,
     RoutedForceOpen
  DEF Routed!Next

LEMMA RoutedStutter == RoutedInv /\ UNCHANGED Routed!vars => RoutedInv'
  <1> SUFFICES ASSUME RoutedInv, UNCHANGED Routed!vars  PROVE RoutedInv'
    OBVIOUS
  <1> DEFINE w == Routed!Registry
  <1>1. /\ Kept(w) /\ w.breaker = breaker /\ w.tracked = tracked
        /\ breaker' = breaker /\ tracked' = tracked /\ call' = call
    BY DEF RoutedInv, RoutedTypes, Routed!Registry, Routed!vars
  <1>2. \A p \in Routed!Providers : Load(breaker[p]) \in Nat
    BY <1>1, RoutedAssumption DEF Kept, Sound, Load, BreakerState
  <1> HIDE DEF w
  <1>3. \A p \in Routed!Providers : Load(w.breaker[p]) <= Load(breaker[p])
    BY <1>1, <1>2
  <1> QED
    BY <1>1, <1>3, RegistryChanges

\* The invariant implies what is promised.
LEMMA TriedIsFollowed ==
  ASSUME NEW rec \in CallState, CallIsHonest(rec), rec.at \in {"calling", "waiting"}
  PROVE  /\ [candidate |-> rec.current, how |-> "now"] \in Tries
         /\ Follow(Append(rec.attempts, [candidate |-> rec.current, how |-> "now"]))
  <1> DEFINE t == [candidate |-> rec.current, how |-> "now"]
  <1>1. rec.current \in Cand /\ MayFollow(rec.attempts, rec.current) /\ Follow(rec.attempts)
    BY DEF CallIsHonest, UnderWay
  <1>2. t \in Tries /\ t.candidate = rec.current
    BY <1>1 DEF Tries, Hows
  <1>3. rec.attempts \in Seq(Tries)
    BY DEF CallState
  <1> HIDE DEF t
  <1>4. Follow(Append(rec.attempts, t))
    BY <1>1, <1>2, <1>3, FollowingTry
  <1> QED
    BY <1>2, <1>4 DEF t

LEMMA SameCardinality == \A S : Routed!Cardinality(S) = Cardinality(S)
  BY DEF Routed!Cardinality, Cardinality

LEMMA RoutedIsSafe ==
  RoutedInv => /\ Routed!TypeOK /\ Routed!AttemptsFollowTheMatrix
               /\ Routed!ProbesAreHeld /\ Routed!RefusalIsHonest
  <1> SUFFICES ASSUME RoutedInv
               PROVE  /\ Routed!TypeOK /\ Routed!AttemptsFollowTheMatrix
                      /\ Routed!ProbesAreHeld /\ Routed!RefusalIsHonest
    OBVIOUS
  <1>1. /\ \A p \in Routed!Providers : Sound(breaker[p])
        /\ tracked \in Seq(Routed!Providers) /\ Len(tracked) <= MaxBreakers
        /\ \A i, j \in DOMAIN tracked : tracked[i] = tracked[j] => i = j
        /\ \A c \in RoutedCalls : call[c] \in CallState /\ CallIsHonest(call[c])
    BY DEF RoutedInv, RoutedTypes, Kept, Routed!Registry
  <1>2. Routed!TypeOK
    <2>1. ASSUME NEW p \in Routed!Providers
          PROVE  /\ breaker[p].state \in {"closed", "open", "half_open"}
                 /\ breaker[p].waited \in BOOLEAN
                 /\ breaker[p].failures \in 0 .. FailureThreshold
                 /\ breaker[p].probes \in 0 .. HalfOpenMaxProbes
      <3>1. breaker[p] \in BreakerState
        BY <1>1 DEF Sound
      <3> QED
        BY <3>1 DEF BreakerState
    <2>2. Routed!IsInjective(tracked) /\ Routed!Range(tracked) \subseteq Routed!Providers
      <3>1. \A i \in DOMAIN tracked : tracked[i] \in Routed!Providers
        BY <1>1, ElementOfSeq, LenProperties
      <3> QED
        BY <1>1, <3>1 DEF Routed!IsInjective, Routed!Range
    <2>3. ASSUME NEW c \in RoutedCalls
          PROVE  /\ call[c].at \in {"idle", "calling", "waiting"} \cup Routed!Answers
                 /\ call[c].retries \in 0 .. RateLimitRetries
                 /\ call[c].current \in 0 .. Len(Route)
                 /\ \A i \in DOMAIN call[c].skipped : call[c].skipped[i] \in Routed!SkipReasons
      <3>1. call[c] \in CallState
        BY <1>1
      <3>2. call[c].skipped \in Seq(Routed!SkipReasons)
        BY <3>1 DEF CallState
      <3>3. \A i \in DOMAIN call[c].skipped : call[c].skipped[i] \in Routed!SkipReasons
        BY <3>2, ElementOfSeq, LenProperties
      <3> QED
        BY <3>1, <3>3 DEF CallState
    <2> QED
      BY <1>1, <2>1, <2>2, <2>3 DEF Routed!TypeOK
  <1>3. Routed!AttemptsFollowTheMatrix
    <2> DEFINE tried(c) == IF call[c].at \in {"calling", "waiting"}
                           THEN Append(call[c].attempts, [candidate |-> call[c].current, how |-> "now"])
                           ELSE call[c].attempts
    <2>1. ASSUME NEW c \in RoutedCalls  PROVE Follow(tried(c))
      <3>1. CASE call[c].at \in {"calling", "waiting"}
        BY <1>1, <3>1, TriedIsFollowed
      <3>2. CASE call[c].at \notin {"calling", "waiting"}
        BY <1>1, <3>2 DEF CallIsHonest
      <3> QED
        BY <3>1, <3>2
    <2>2. ASSUME NEW a, Follow(a), NEW i \in DOMAIN a
          PROVE  /\ Route[a[i].candidate].compliant
                 /\ Routed!Cardinality({j \in DOMAIN a : a[j].candidate = a[i].candidate})
                      <= 1 + RateLimitRetries
                 /\ \A j \in DOMAIN a : i < j =>
                      /\ a[i].candidate <= a[j].candidate
                      /\ a[i].candidate = a[j].candidate => a[i].how = "retry_after"
                      /\ a[i].how \notin {"ok", "raise"}
                      /\ a[i].how = "next_larger_context"
                           => Route[a[j].candidate].window > Route[a[i].candidate].window
      <3>1. Count(a, a[i].candidate)
              = Routed!Cardinality({j \in DOMAIN a : a[j].candidate = a[i].candidate})
        BY SameCardinality DEF Count
      <3> QED
        BY <2>2, <3>1 DEF Follow
    <2>3. ASSUME NEW c \in RoutedCalls, NEW i \in DOMAIN tried(c)
          PROVE  /\ Route[tried(c)[i].candidate].compliant
                 /\ Routed!Cardinality({j \in DOMAIN tried(c) :
                                         tried(c)[j].candidate = tried(c)[i].candidate})
                      <= 1 + RateLimitRetries
                 /\ \A j \in DOMAIN tried(c) : i < j =>
                      /\ tried(c)[i].candidate <= tried(c)[j].candidate
                      /\ tried(c)[i].candidate = tried(c)[j].candidate
                           => tried(c)[i].how = "retry_after"
                      /\ tried(c)[i].how \notin {"ok", "raise"}
                      /\ tried(c)[i].how = "next_larger_context"
                           => Route[tried(c)[j].candidate].window > Route[tried(c)[i].candidate].window
      <3> HIDE DEF tried
      <3> QED
        BY <2>1, <2>2
    <2> QED
      BY <2>3, Zenon DEF Routed!AttemptsFollowTheMatrix
  <1>4. Routed!ProbesAreHeld
    <2> SUFFICES ASSUME NEW p \in Routed!Providers, breaker[p].state = "half_open"
                 PROVE  breaker[p].probes <= Routed!Cardinality(Routed!InFlight(p))
      BY DEF Routed!ProbesAreHeld
    <2>1. Load(breaker[p]) = breaker[p].probes /\ Load(breaker[p]) <= Cardinality(Routed!InFlight(p))
      BY DEF RoutedInv, Probes, Load
    <2>2. Routed!Cardinality(Routed!InFlight(p)) = Cardinality(Routed!InFlight(p))
      BY SameCardinality
    <2> QED
      BY <2>1, <2>2
  <1>5. Routed!RefusalIsHonest
    <2>1. DOMAIN Route = Cand
      BY RoutedAssumption DEF Cand
    <2> QED
      BY <1>1, <2>1 DEF CallIsHonest, Honest, Routed!RefusalIsHonest
  <1> QED
    BY <1>2, <1>3, <1>4, <1>5

-----------------------------------------------------------------------------
\* A behaviour of the gateway is one of its units'.
TargetUnit == unit = "target" => TargetInv

THEOREM TargetUnitIsInvariant == Spec => []TargetUnit
  <1>1. Init => TargetUnit
    BY TargetInitially DEF Init, TargetUnit
  <1>2. TargetUnit /\ [Next]_vars => TargetUnit'
    <2> SUFFICES ASSUME TargetUnit, [Next]_vars, unit' = "target"  PROVE TargetInv'
      BY DEF TargetUnit
    <2>1. CASE unit = "target" /\ Target!Next
      BY <2>1, TargetStep DEF TargetUnit
    <2>2. CASE UNCHANGED vars
      BY <2>2, TargetStutter DEF vars, TargetUnit, Target!retryVars
    <2> QED
      BY <2>1, <2>2 DEF Next
  <1> QED
    BY <1>1, <1>2, PTL DEF Spec

\* However the two retry loops of a request interleave, for every retry
\* count, retry list and set of statuses: the provider is called at most
\* 2 * attempts + 1 times, and what is answered is the latest upstream body
\* with that body's hook results only, never one that a guardrail denied
\* (recursiveAfterRequestHookHandler, retryRequest).
THEOREM AnswersAreJudged == Spec => []AnswerIsJudged
  <1>1. TargetUnit => AnswerIsJudged
    BY TargetIsSafe DEF TargetUnit, AnswerIsJudged
  <1> QED
    BY <1>1, TargetUnitIsInvariant, PTL

\* Once a redirect or a Retry-After that does not fit has ended the retrying,
\* neither loop calls the provider again (retrySkipped).
THEOREM SkippingIsFinal == Spec => SkipIsFinal
  <1>1. TargetUnit /\ [Next]_vars => [unit = "target" => Target!SkipStep]_vars
    <2> SUFFICES ASSUME TargetUnit, Next, unit = "target"  PROVE Target!SkipStep
      OBVIOUS
    <2>1. Target!Next
      BY DEF Next
    <2> QED
      BY <2>1, SkipEndsTheCalls DEF TargetUnit
  <1> QED
    BY <1>1, TargetUnitIsInvariant, PTL DEF Spec, SkipIsFinal

TokenUnit == unit = "tokens" => TokenInv

THEOREM TokenUnitIsInvariant == Spec => []TokenUnit
  <1>1. Init => TokenUnit
    BY TokensInitially DEF Init, TokenUnit
  <1>2. TokenUnit /\ [Next]_vars => TokenUnit'
    <2> SUFFICES ASSUME TokenUnit, [Next]_vars, unit' = "tokens"  PROVE TokenInv'
      BY DEF TokenUnit
    <2>1. CASE unit = "tokens" /\ Tokens!Next
      BY <2>1, TokensStep DEF TokenUnit
    <2>2. CASE UNCHANGED vars
      BY <2>2, TokensStutter DEF vars, TokenUnit, Tokens!vars
    <2> QED
      BY <2>1, <2>2 DEF Next
  <1> QED
    BY <1>1, <1>2, PTL DEF Spec

\* Whatever the caches hold, share and evict, for every number of callers,
\* every credential and every lifetime longer than the time under way: one
\* exchange of a key at a time, a settled one is never joined, and a request
\* gets a live token minted for its own credential (getOAuthClientCredentialsToken,
\* getAwsOAuthWebIdentityCredentials, getWorkloadIdentityToken,
\* getGcpHostAccessToken, getAccessToken).
THEOREM TokensAreTheirOwn == Spec => []TokensAreOwn
  <1>1. TokenUnit => TokensAreOwn
    BY TokensAreSafe DEF TokenUnit, TokensAreOwn
  <1> QED
    BY <1>1, TokenUnitIsInvariant, PTL

RoutedUnit == unit = "routed" => RoutedInv

THEOREM RoutedUnitIsInvariant == Spec => []RoutedUnit
  <1>1. Init => RoutedUnit
    BY RoutedInitially DEF Init, RoutedUnit
  <1>2. RoutedUnit /\ [Next]_vars => RoutedUnit'
    <2> SUFFICES ASSUME RoutedUnit, [Next]_vars, unit' = "routed"  PROVE RoutedInv'
      BY DEF RoutedUnit
    <2>1. CASE unit = "routed" /\ Routed!Next
      BY <2>1, RoutedStep DEF RoutedUnit
    <2>2. CASE UNCHANGED vars
      BY <2>2, RoutedStutter DEF vars, RoutedUnit, Routed!vars
    <2> QED
      BY <2>1, <2>2 DEF Next
  <1> QED
    BY <1>1, <1>2, PTL DEF Spec

\* Whatever calls run at the same time, for every list of candidates, every
\* threshold, number of probe slots and of retries and every bound of the
\* registry: a call tries the candidates as the failure matrix says, each
\* probe slot that is taken belongs to a call in flight, also when a breaker is
\* evicted or drained meanwhile, and what the client is told of an exhausted
\* list is so (runFailover, CircuitBreaker, BreakerRegistry, tryTargetsWithRouteFailover).
THEOREM RoutedCallsAreAlwaysHonest == Spec => []RoutedCallsAreHonest
  <1>1. RoutedUnit => RoutedCallsAreHonest
    BY RoutedIsSafe DEF RoutedUnit, RoutedCallsAreHonest
  <1> QED
    BY <1>1, RoutedUnitIsInvariant, PTL
=============================================================================
