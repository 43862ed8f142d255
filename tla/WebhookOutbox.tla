--------------------------- MODULE WebhookOutbox ---------------------------
(***************************************************************************)
(* The collector's webhook outbox: rows of webhook_deliveries for one      *)
(* subscription, workers that claim, send and settle them, and the tenant  *)
(* admin who pauses, deletes and redelivers.  A step is a transaction, the *)
(* lease check, or an end of the POST.                                     *)
(*                                                                         *)
(* Time is counted down: next_attempt_at, the claim's lease_until and the  *)
(* POST's deadline are the ticks that are left, so that Tick is the only   *)
(* clock and no bound on it is needed.                                     *)
(*                                                                         *)
(* The lease check looks ahead by the deadline of the POST.  The database  *)
(* round trips of the attempt, before and after the POST, are not covered  *)
(* by it: they take up to MaxStall ticks, and an attempt they hold up can  *)
(* outlive its lease.  "overrun" remembers the deliveries this happened to.*)
(***************************************************************************)
EXTENDS Integers, Sequences, FiniteSets, TLC

CONSTANTS
    Workers,       \* processes that run deliver_due
    Deliveries,    \* rows of the outbox
    Limit,         \* deliver_due's limit
    Concurrency,   \* deliver_due's concurrency
    ClaimLease,    \* CLAIM_LEASE, in ticks
    Timeout,       \* settings.webhook_timeout_seconds
    MaxTimeout,    \* WEBHOOK_MAX_TIMEOUT_SECONDS
    RetrySchedule, \* RETRY_SCHEDULE_SECONDS
    MaxAttempts,   \* settings.webhook_max_attempts
    MaxStall,      \* ticks a database round trip of an attempt may take
    MaxWait,       \* ticks the event loop may be late to start an attempt
    MaxCrashes,    \* bound: workers that die, transactions that fail
    MaxAdmin       \* bound: pauses, resumptions and redeliveries

ASSUME OutboxAssumption ==
    /\ Limit \in Nat \ {0} /\ Concurrency \in Nat \ {0}
    /\ ClaimLease \in Nat /\ Timeout \in Nat \ {0} /\ MaxTimeout \in Nat \ {0}
    /\ MaxTimeout < ClaimLease
    /\ RetrySchedule \in Seq(Nat) /\ RetrySchedule # << >>
    /\ MaxAttempts \in Nat \ {0} /\ MaxStall \in Nat /\ MaxWait \in Nat
    /\ MaxCrashes \in Nat /\ MaxAdmin \in Nat

VARIABLES
    row,          \* the deliveries' status, attempts and next_attempt_at
    subscription, \* the subscription: active, paused or deleted
    partner,      \* the partner credential may receive the events
    readable,     \* the subscription's signing secret can be decrypted
    keyed,        \* workers that have the key it is encrypted with
    configured,   \* workers that have an active key at all
    job,          \* per worker and delivery: the _attempt that is running
    \* What the properties look at; the code has none of these.
    accepted,     \* deliveries the receiver answered since they were queued
    posts,        \* requests begun since the delivery was queued
    lost,         \* of these, the ones whose worker died before the commit
    overrun,      \* deliveries an attempt of which outlived its lease in the database
    budget        \* what is left of MaxCrashes and MaxAdmin

keyVars == <<keyed, configured>>
adminVars == <<subscription, partner, readable, keyVars>>
ghostVars == <<accepted, posts, lost, overrun, budget>>
vars == <<row, adminVars, job, ghostVars>>

Settled  == {"succeeded", "dead"}
Statuses == {"none", "pending", "deleted"} \cup Settled
Phases   == {"none", "queued", "checked", "posting", "answered"}
Outcomes == {"none", "ok", "failed", "no key", "ineligible"}

NoJob == [phase |-> "none", lease |-> 0, timer |-> 0, slow |-> FALSE,
          attempts |-> 0, outcome |-> "none"]
NoRow == [status |-> "none", attempts |-> 0, due |-> 0]

\* Types; no delivery counts more attempts than PS_WEBHOOK_MAX_ATTEMPTS.
TypeOK ==
    /\ row \in [Deliveries -> [status : Statuses, attempts : 0 .. MaxAttempts, due : Nat]]
    /\ subscription \in {"active", "paused", "deleted"}
    /\ partner \in BOOLEAN /\ readable \in BOOLEAN /\ keyed \subseteq configured
    /\ configured \subseteq Workers
    /\ job \in [Workers -> [Deliveries ->
                   [phase : Phases, lease : Nat, timer : Nat, slow : BOOLEAN,
                    attempts : 0 .. MaxAttempts, outcome : Outcomes]]]
    /\ accepted \subseteq Deliveries /\ overrun \subseteq Deliveries
    /\ posts \in [Deliveries -> Nat] /\ lost \in [Deliveries -> Nat]
    /\ budget \in [crashes : 0 .. MaxCrashes, admin : 0 .. MaxAdmin]

Init ==
    /\ row = [d \in Deliveries |-> NoRow]
    /\ subscription = "active" /\ partner = TRUE
    /\ readable \in BOOLEAN
    /\ configured \in SUBSET Workers /\ keyed \in SUBSET configured
    /\ job = [w \in Workers |-> [d \in Deliveries |-> NoJob]]
    /\ accepted = {} /\ overrun = {}
    /\ posts = [d \in Deliveries |-> 0] /\ lost = [d \in Deliveries |-> 0]
    /\ budget = [crashes |-> MaxCrashes, admin |-> MaxAdmin]

Least(a, b) == IF a < b THEN a ELSE b

\* Mutant: the timeout is as configured.
MutAttemptTimeoutUncapped == Timeout

\* attempt_timeout_seconds: the cap also covers a value set at runtime.
AttemptTimeout == Least(Timeout, MaxTimeout)

\* retry_delay
RetryDelay(attempts) ==
    RetrySchedule[Least(IF attempts > 1 THEN attempts ELSE 1, Len(RetrySchedule))]

-----------------------------------------------------------------------------
\* Producing.  _enqueue writes a row, in the transaction of the change, only
\* for an active subscription of an eligible partner.
Enqueue(d) ==
    /\ row[d].status = "none"
    /\ subscription = "active" /\ partner
    /\ row' = [row EXCEPT ![d].status = "pending"]
    /\ UNCHANGED <<adminVars, job, ghostVars>>

-----------------------------------------------------------------------------
\* deliver_due and _attempt.

Due == {d \in Deliveries : row[d].status = "pending" /\ row[d].due = 0}
Idle(w) == \A d \in Deliveries : job[w][d].phase = "none"
\* Attempts of w that are past the semaphore.
Running(w) == {d \in Deliveries : job[w][d].phase \in {"checked", "posting", "answered"}}

QueuedJob == [NoJob EXCEPT !.phase = "queued", !.lease = ClaimLease, !.timer = MaxWait]

\* Mutant: the claim leaves the rows due.
MutClaimWithoutLease(w) ==
    /\ w \in configured
    /\ Idle(w)
    /\ \E claimed \in SUBSET Due :
          /\ Cardinality(claimed) = Least(Limit, Cardinality(Due))
          /\ claimed # {}
          /\ job' = [job EXCEPT ![w] = [d \in Deliveries |->
                        IF d \in claimed
                        THEN QueuedJob
                        ELSE NoJob]]
    /\ UNCHANGED <<row, adminVars, ghostVars>>

\* deliver_due's first transaction.  The rows another claim has locked are
\* skipped, and are not due any more once that claim has committed.  Without
\* an active key it raises before (active_key_id), and run_worker tries again.
Claim(w) ==
    /\ w \in configured
    /\ Idle(w)
    /\ \E claimed \in SUBSET Due :
          /\ Cardinality(claimed) = Least(Limit, Cardinality(Due))
          /\ claimed # {}
          /\ row' = [d \in Deliveries |->
                        IF d \in claimed THEN [row[d] EXCEPT !.due = ClaimLease] ELSE row[d]]
          /\ job' = [job EXCEPT ![w] = [d \in Deliveries |->
                        IF d \in claimed
                        THEN QueuedJob
                        ELSE NoJob]]
    /\ UNCHANGED <<adminVars, ghostVars>>

\* Mutant: skipped only when the lease is over.
MutCheckLeaseOver(w, d) ==
    /\ job[w][d].phase = "queued"
    /\ Cardinality(Running(w)) < Concurrency
    /\ job' = [job EXCEPT ![w][d] =
                  IF job[w][d].lease = 0
                  THEN NoJob
                  ELSE [job[w][d] EXCEPT !.phase = "checked", !.timer = MaxStall]]
    /\ UNCHANGED <<row, adminVars, ghostVars>>

\* _attempt, once past the semaphore: skipped when the lease does not leave
\* time for a whole attempt.
CheckLease(w, d) ==
    /\ job[w][d].phase = "queued"
    /\ Cardinality(Running(w)) < Concurrency
    /\ job' = [job EXCEPT ![w][d] =
                  IF AttemptTimeout >= job[w][d].lease
                  THEN NoJob
                  ELSE [job[w][d] EXCEPT !.phase = "checked", !.timer = MaxStall]]
    /\ UNCHANGED <<row, adminVars, ghostVars>>

\* _ineligible
Ineligible == subscription # "active" \/ ~partner

Decided(j, outcome, attempts) ==
    [j EXCEPT !.phase = "answered", !.timer = MaxStall,
              !.outcome = outcome, !.attempts = attempts]

\* The row, the subscription and the partner are read.  The attempt is over
\* when the row is not queued any more; it is decided without a request when
\* the partner may not have it, the secret is unreadable, or this worker lacks
\* the key an encrypted secret names (a malformed secret names none).
Load(w, d) ==
    LET j == job[w][d]
    IN  /\ j.phase = "checked"
        /\ \/ /\ row[d].status # "pending"
              /\ job' = [job EXCEPT ![w][d] = NoJob]
              /\ UNCHANGED posts
           \/ /\ row[d].status = "pending" /\ (Ineligible \/ ~readable)
              /\ job' = [job EXCEPT ![w][d] = Decided(j, "ineligible", row[d].attempts)]
              /\ UNCHANGED posts
           \/ /\ row[d].status = "pending" /\ ~Ineligible /\ w \notin keyed
              /\ job' = [job EXCEPT ![w][d] = Decided(j, "no key", row[d].attempts + 1)]
              /\ UNCHANGED posts
           \/ /\ row[d].status = "pending" /\ ~Ineligible /\ readable /\ w \in keyed
              /\ job' = [job EXCEPT ![w][d] =
                            [j EXCEPT !.phase = "posting", !.timer = AttemptTimeout,
                                      !.attempts = row[d].attempts + 1]]
              /\ posts' = [posts EXCEPT ![d] = @ + 1]
        /\ UNCHANGED <<row, adminVars, accepted, lost, overrun, budget>>

\* post_signed returns or raises: a 2xx, another status, or the deadline or a
\* network error, which may hide that the receiver has taken the event.
Answer(w, d) ==
    /\ job[w][d].phase = "posting"
    /\ \E outcome \in {"ok", "failed"}, taken \in BOOLEAN :
          /\ outcome = "ok" => taken
          /\ job' = [job EXCEPT ![w][d] = Decided(@, outcome, @.attempts)]
          /\ accepted' = IF taken THEN accepted \cup {d} ELSE accepted
    /\ UNCHANGED <<row, adminVars, posts, lost, overrun, budget>>

\* Mutant: the last retry is one too many.
MutFailedOneTooMany(r, attempts) ==
    IF attempts > MaxAttempts
    THEN [r EXCEPT !.attempts = attempts, !.status = "dead"]
    ELSE [r EXCEPT !.attempts = attempts, !.due = RetryDelay(attempts)]

\* _fail, on the row as the attempt has read and counted it.
Failed(r, attempts) ==
    IF attempts >= MaxAttempts
    THEN [r EXCEPT !.attempts = attempts, !.status = "dead"]
    ELSE [r EXCEPT !.attempts = attempts, !.due = RetryDelay(attempts)]

\* Mutant: the attempt is not counted in the row.
MutSettledRowUncounted(r, j) ==
    CASE j.outcome = "ok"         -> [r EXCEPT !.status = "succeeded"]
      [] j.outcome = "ineligible" -> [r EXCEPT !.status = "dead"]
      [] OTHER                    -> [r EXCEPT !.due = RetryDelay(j.attempts)]

\* What the attempt's transaction writes: the columns it changed, whatever
\* the row holds by now.
SettledRow(r, j) ==
    CASE j.outcome = "ok"         -> [r EXCEPT !.attempts = j.attempts, !.status = "succeeded"]
      [] j.outcome = "ineligible" -> [r EXCEPT !.status = "dead"]
      [] OTHER                    -> Failed(r, j.attempts)

\* refresh_stored_secrets, after a request: the secret may now be stored under
\* this worker's active key, which others may lack.
Rekeyed(w, j) ==
    IF j.outcome \in {"ok", "failed"}
    THEN {keyed} \cup {k \in SUBSET configured : w \in k}
    ELSE {keyed}

\* The attempt's transaction.  It fails when the row is gone by now.
Commit(w, d) ==
    /\ job[w][d].phase = "answered"
    /\ \/ row[d].status = "deleted" /\ UNCHANGED <<row, keyed>>
       \/ /\ row[d].status # "deleted"
          /\ row' = [row EXCEPT ![d] = SettledRow(@, job[w][d])]
          /\ keyed' \in Rekeyed(w, job[w][d])
    /\ job' = [job EXCEPT ![w][d] = NoJob]
    /\ UNCHANGED <<subscription, partner, readable, configured, ghostVars>>

\* Requests of these attempts that no commit will count.
Uncounted(jobs) == {d \in Deliveries :
                       \/ jobs[d].phase = "posting"
                       \/ jobs[d].phase = "answered" /\ jobs[d].outcome \in {"ok", "failed"}}
SpendCrash == budget.crashes > 0 /\ budget' = [budget EXCEPT !.crashes = @ - 1]

\* The attempt's session raises: its transaction is rolled back, the other
\* attempts of the run go on.
AttemptRaises(w, d) ==
    /\ SpendCrash
    /\ job[w][d].phase \in {"checked", "answered"}
    /\ job' = [job EXCEPT ![w][d] = NoJob]
    /\ lost' = [lost EXCEPT ![d] = @ + Cardinality({d} \cap Uncounted(job[w]))]
    /\ UNCHANGED <<row, adminVars, accepted, posts, overrun>>

\* The worker dies and is started again, by then with an active key and the
\* secret's key or not.
Crash(w) ==
    /\ SpendCrash
    /\ job' = [job EXCEPT ![w] = [d \in Deliveries |-> NoJob]]
    /\ lost' = [d \in Deliveries |-> lost[d] + Cardinality({d} \cap Uncounted(job[w]))]
    /\ \/ UNCHANGED keyVars
       \/ configured' = configured \cup {w} /\ keyed' \in {keyed, keyed \cup {w}}
    /\ UNCHANGED <<row, subscription, partner, readable, accepted, posts, overrun>>

-----------------------------------------------------------------------------
\* The admin's endpoints, and the hourly purge.

SpendAdmin == budget.admin > 0 /\ budget' = [budget EXCEPT !.admin = @ - 1]

\* PATCH with is_active: resuming needs an eligible partner, pausing does not.
UpdateSubscription ==
    /\ SpendAdmin
    /\ \/ subscription = "active" /\ subscription' = "paused"
       \/ subscription = "paused" /\ partner /\ subscription' = "active"
    /\ UNCHANGED <<row, partner, readable, keyVars, job, accepted, posts, lost, overrun>>

\* The new secret is stored under the active key of the process that serves
\* the request, which any worker may have or lack.
RotateSecret ==
    /\ subscription # "deleted"
    /\ readable' = TRUE
    /\ keyed' \in SUBSET configured
    /\ UNCHANGED <<row, subscription, partner, configured, job, ghostVars>>

RevokePartner ==
    /\ partner
    /\ partner' = FALSE
    /\ UNCHANGED <<row, subscription, readable, keyVars, job, ghostVars>>

DeleteSubscription ==
    /\ subscription # "deleted"
    /\ subscription' = "deleted"
    /\ row' = [d \in Deliveries |-> [NoRow EXCEPT !.status = "deleted"]]
    /\ UNCHANGED <<partner, readable, keyVars, job, ghostVars>>

Redeliver(d) ==
    /\ SpendAdmin
    /\ row[d].status \in Settled
    /\ row' = [row EXCEPT ![d] = [NoRow EXCEPT !.status = "pending"]]
    /\ accepted' = accepted \ {d}
    /\ posts' = [posts EXCEPT ![d] = 0] /\ lost' = [lost EXCEPT ![d] = 0]
    /\ UNCHANGED <<adminVars, job, overrun>>

\* purge_old_deliveries
Purge(d) ==
    /\ row[d].status \in Settled
    /\ row' = [row EXCEPT ![d] = [NoRow EXCEPT !.status = "deleted"]]
    /\ UNCHANGED <<adminVars, job, ghostVars>>

-----------------------------------------------------------------------------
\* A tick of the clock.  asyncio.timeout ends a POST at its deadline, no
\* database round trip takes longer than MaxStall, and an attempt the
\* semaphore lets in is started within MaxWait.

Urgent(w, d) ==
    /\ job[w][d].timer = 0
    /\ \/ d \in Running(w)
       \/ job[w][d].phase = "queued" /\ Cardinality(Running(w)) < Concurrency
Less(n) == IF n > 0 THEN n - 1 ELSE 0

\* The attempt waits, or has waited, for the database.
HeldUp(j) == j.slow \/ j.phase \in {"checked", "answered"}

Tick ==
    /\ \A w \in Workers, d \in Deliveries : ~Urgent(w, d)
    /\ row' = [d \in Deliveries |-> [row[d] EXCEPT !.due = Less(@)]]
    /\ job' = [w \in Workers |-> [d \in Deliveries |->
                  [job[w][d] EXCEPT !.lease = Less(@), !.timer = Less(@),
                                    !.slow = HeldUp(job[w][d])]]]
    /\ overrun' = overrun \cup
          {d \in Deliveries : \E w \in Workers :
              d \in Running(w) /\ HeldUp(job[w][d]) /\ job[w][d].lease <= 1}
    /\ <<row, job>>' # <<row, job>>
    /\ UNCHANGED <<adminVars, accepted, posts, lost, budget>>

AttemptStep(w, d) == CheckLease(w, d) \/ Load(w, d) \/ Answer(w, d) \/ Commit(w, d)

Next ==
    \/ \E d \in Deliveries : Enqueue(d) \/ Redeliver(d) \/ Purge(d)
    \/ \E w \in Workers : Claim(w) \/ Crash(w)
    \/ \E w \in Workers, d \in Deliveries : AttemptStep(w, d) \/ AttemptRaises(w, d)
    \/ UpdateSubscription \/ RotateSecret \/ RevokePartner \/ DeleteSubscription
    \/ Tick

Spec == Init /\ [][Next]_vars

\* run_worker loops for ever, a POST has a deadline and the clock runs; an
\* attempt waits for nothing but the semaphore, which the others give back.
Fairness ==
    /\ \A w \in Workers : WF_vars(Claim(w))
    /\ \A w \in Workers, d \in Deliveries : WF_vars(AttemptStep(w, d))
    /\ WF_vars(Tick)

\* Some worker has an active key.
FairInit == Init /\ configured # {}

FairSpec == FairInit /\ [][Next]_vars /\ Fairness

-----------------------------------------------------------------------------
\* Properties.

\* The lease keeps a delivery's requests apart, whatever workers crash, queue
\* and fall behind: two are in flight at once only after the database has held
\* up an attempt past the end of its lease.
NoOverlap ==
    \A d \in Deliveries, v, w \in Workers :
        (job[v][d].phase = "posting" /\ job[w][d].phase = "posting") => v = w \/ d \in overrun

\* "Sending now could overlap another worker" (_attempt, of the case that its
\* check avoids): no two requests of a delivery are ever in flight at once.
SendingNeverOverlaps ==
    \A d \in Deliveries, v, w \in Workers :
        (job[v][d].phase = "posting" /\ job[w][d].phase = "posting") => v = w

\* Requests in flight, or answered but not committed yet.
Open(d) == Cardinality({w \in Workers : d \in Uncounted(job[w])})

\* No request goes uncounted but by a crash: PS_WEBHOOK_MAX_ATTEMPTS bounds the
\* requests of a delivery up to those whose worker died before its commit,
\* unless the database has held up an attempt past its lease (two attempts
\* that overlap read and write the same count).
PostsAreBounded ==
    \A d \in Deliveries :
        (row[d].status \notin {"none", "deleted"} /\ d \notin overrun) =>
            /\ posts[d] <= row[d].attempts + lost[d] + Open(d)
            /\ posts[d] <= MaxAttempts + lost[d]

\* The rows of the outbox as the deliveries of the contract; an attempt that
\* outlived its lease no longer holds its delivery.
Contract == INSTANCE DeliveryContract WITH status <- [d \in Deliveries |-> row[d].status],
                                           unheld <- overrun

\* The outbox does what it promises: a delivery leaves the queue only for a 2xx
\* or for good, and is sent to the receiver only while it is in the queue; of
\* one that an attempt has outlived its lease of, only that it is not put back
\* in the queue but by the admin.
OutboxKeepsContract == Contract!Spec

\* Every queued delivery is settled or removed, whatever the receiver answers,
\* as long as workers crash only finitely often and one of them has a key.
EveryDeliverySettles == Contract!FairSpec

-----------------------------------------------------------------------------
(* For TLC: a retry schedule, and what is interchangeable. *)
Schedule == <<1, 2>>
Symmetry == Permutations(Workers) \cup Permutations(Deliveries)
=============================================================================
