------------------------ MODULE WebhookOutboxProofs ------------------------
(***************************************************************************)
(* Why the claim lease keeps the requests of a delivery apart, and why the *)
(* outbox keeps its contract.                                              *)
(***************************************************************************)
EXTENDS WebhookOutbox, FiniteSetTheorems, TLAPS

Phase(w, d) == job[w][d].phase
Live(w, d)  == Phase(w, d) # "none" /\ job[w][d].lease > 0

\* Deliveries no attempt of which has outlived its lease.
Held == Deliveries \ overrun

\* An attempt runs under its lease; what is left of it covers what is left of
\* the POST, unless the database has held the attempt up.
LeaseCovers ==
    \A w \in Workers, d \in Held :
        /\ Phase(w, d) \in {"checked", "posting", "answered"} => job[w][d].lease > 0
        /\ Phase(w, d) = "checked" /\ ~job[w][d].slow => job[w][d].lease > AttemptTimeout
        /\ Phase(w, d) = "posting" /\ ~job[w][d].slow => job[w][d].lease > job[w][d].timer

\* While a claim's lease runs, nobody settles the row or finds it due.
LeaseIsDue ==
    \A w \in Workers, d \in Held :
        Live(w, d) => \/ row[d].status = "deleted"
                      \/ row[d].status = "pending" /\ row[d].due = job[w][d].lease

OneLease ==
    \A v, w \in Workers, d \in Held : Live(v, d) /\ Live(w, d) => v = w

OkWasTaken ==
    \A w \in Workers, d \in Held :
        Phase(w, d) = "answered" /\ job[w][d].outcome = "ok" => d \in accepted

\* A row that is queued, or will be, has an attempt left.
AttemptsLeft ==
    \A d \in Deliveries :
        row[d].status \in {"none", "pending"} => row[d].attempts < MaxAttempts

LeaseInv == LeaseCovers /\ LeaseIsDue /\ OneLease /\ OkWasTaken

RowSet == [status : Statuses, attempts : 0 .. MaxAttempts, due : Nat]
JobSet == [phase : Phases, lease : Nat, timer : Nat, slow : BOOLEAN,
           attempts : 0 .. MaxAttempts, outcome : Outcomes]

-----------------------------------------------------------------------------
\* Types.

\* The two timeouts are what OutboxAssumption says of the settings.
LEMMA TimeoutType == AttemptTimeout \in Nat /\ AttemptTimeout < ClaimLease
  BY OutboxAssumption DEF AttemptTimeout, Least

\* The retry schedule is asked for an index it has.
LEMMA RetryDelayType ==
    ASSUME NEW a \in Nat
    PROVE  RetryDelay(a) \in Nat
  <1>1. Len(RetrySchedule) \in Nat /\ Len(RetrySchedule) >= 1
    BY OutboxAssumption
  <1>2. Least(IF a > 1 THEN a ELSE 1, Len(RetrySchedule)) \in 1 .. Len(RetrySchedule)
    BY <1>1 DEF Least
  <1> QED  BY <1>2, OutboxAssumption DEF RetryDelay

\* A row is a row again after the attempt's transaction.
LEMMA SettledRowType ==
    ASSUME NEW r \in RowSet, NEW j \in JobSet,
           r.status \in {"none", "pending"} => r.attempts < MaxAttempts
    PROVE  /\ SettledRow(r, j) \in RowSet
           /\ SettledRow(r, j).status \in {"none", "pending"} => SettledRow(r, j).attempts < MaxAttempts
  <1> DEFINE a == j.attempts
  <1>1. /\ a \in 0 .. MaxAttempts /\ a \in Nat /\ RetryDelay(a) \in Nat
        /\ MaxAttempts \in Nat /\ r.attempts \in 0 .. MaxAttempts
    BY RetryDelayType, OutboxAssumption DEF JobSet, RowSet
  <1> HIDE DEF a
  <1>2. ASSUME NEW s \in Statuses
        PROVE  LET q == [r EXCEPT !.attempts = a, !.status = s]
               IN  q \in RowSet /\ q.status = s
    BY <1>1 DEF RowSet
  <1>3. LET q == [r EXCEPT !.attempts = a, !.due = RetryDelay(a)]
        IN  q \in RowSet /\ q.attempts = a
    BY <1>1 DEF RowSet
  <1>4. [r EXCEPT !.status = "dead"] \in RowSet /\ [r EXCEPT !.status = "dead"].status = "dead"
    BY DEF RowSet, Statuses, Settled
  <1>5. /\ Failed(r, a) \in RowSet
        /\ Failed(r, a).status \in {"none", "pending"} => Failed(r, a).attempts < MaxAttempts
    BY <1>1, <1>2, <1>3 DEF Failed, Statuses, Settled
  <1>6. /\ [r EXCEPT !.attempts = a, !.status = "succeeded"] \in RowSet
        /\ [r EXCEPT !.attempts = a, !.status = "succeeded"].status = "succeeded"
    BY <1>2 DEF Statuses, Settled
  <1> QED  BY <1>4, <1>5, <1>6 DEF SettledRow, a

\* Uncounted requests are counted by numbers.
LEMMA UncountedType ==
    ASSUME NEW d, NEW jobs
    PROVE  Cardinality({d} \cap Uncounted(jobs)) \in Nat
  <1>1. IsFiniteSet({d})
    BY FS_Singleton
  <1>2. IsFiniteSet({d} \cap Uncounted(jobs))
    BY <1>1, FS_Subset
  <1> QED  BY <1>2, FS_CardinalityType

\* The initial states have the types.
LEMMA TypeInit == Init => TypeOK /\ AttemptsLeft
  BY OutboxAssumption
  DEF Init, TypeOK, AttemptsLeft, NoRow, NoJob, Statuses, Phases, Outcomes

\* Replacing one attempt leaves a table of attempts.
LEMMA JobUpdate ==
    ASSUME job \in [Workers -> [Deliveries -> JobSet]],
           NEW w \in Workers, NEW d \in Deliveries, NEW j \in JobSet,
           job' = [job EXCEPT ![w][d] = j]
    PROVE  /\ job' \in [Workers -> [Deliveries -> JobSet]]
           /\ job'[w][d] = j
           /\ \A v \in Workers, e \in Deliveries : (v # w \/ e # d) => job'[v][e] = job[v][e]
  OBVIOUS

\* Replacing one row leaves a table of rows.
LEMMA RowUpdate ==
    ASSUME row \in [Deliveries -> RowSet],
           NEW d \in Deliveries, NEW r \in RowSet,
           row' = [row EXCEPT ![d] = r]
    PROVE  /\ row' \in [Deliveries -> RowSet]
           /\ row'[d] = r
           /\ \A e \in Deliveries : e # d => row'[e] = row[e]
  OBVIOUS

\* The rows and attempts the actions make.
LEMMA RecordTypes ==
    /\ NoJob \in JobSet /\ QueuedJob \in JobSet
    /\ NoRow \in RowSet
    /\ [NoRow EXCEPT !.status = "pending"] \in RowSet
    /\ [NoRow EXCEPT !.status = "deleted"] \in RowSet
  <1>1. NoJob \in JobSet
    BY OutboxAssumption DEF NoJob, JobSet, Phases, Outcomes
  <1>2. QueuedJob \in JobSet
    BY <1>1, OutboxAssumption DEF QueuedJob, JobSet, Phases
  <1>3. NoRow \in RowSet
    BY OutboxAssumption DEF NoRow, RowSet, Statuses, Settled
  <1>4. /\ [NoRow EXCEPT !.status = "pending"] \in RowSet
        /\ [NoRow EXCEPT !.status = "deleted"] \in RowSet
    BY <1>3 DEF RowSet, Statuses, Settled
  <1> QED  BY <1>1, <1>2, <1>3, <1>4

\* An attempt that is decided is an attempt.
LEMMA DecidedType ==
    ASSUME NEW j \in JobSet, NEW o \in Outcomes, NEW a \in 0 .. MaxAttempts
    PROVE  /\ Decided(j, o, a) \in JobSet
           /\ Decided(j, o, a).phase = "answered" /\ Decided(j, o, a).outcome = o
           /\ Decided(j, o, a).timer = MaxStall /\ Decided(j, o, a).lease = j.lease
           /\ Decided(j, o, a).attempts = a
  BY OutboxAssumption DEF Decided, JobSet, Phases

\* Every step keeps the types, and a queued row has an attempt left: _fail
\* marks it dead at the last one.
LEMMA TypeNext == TypeOK /\ AttemptsLeft /\ [Next]_vars => TypeOK' /\ AttemptsLeft'
  <1> SUFFICES ASSUME TypeOK, AttemptsLeft, [Next]_vars
               PROVE  TypeOK' /\ AttemptsLeft'
    OBVIOUS
  <1> DEFINE Tables == row' \in [Deliveries -> RowSet] /\ job' \in [Workers -> [Deliveries -> JobSet]]
  <1>a. row \in [Deliveries -> RowSet] /\ job \in [Workers -> [Deliveries -> JobSet]]
    BY DEF TypeOK, RowSet, JobSet
  <1>b. ASSUME Tables,
               /\ subscription' \in {"active", "paused", "deleted"}
               /\ partner' \in BOOLEAN /\ readable' \in BOOLEAN
               /\ keyed' \subseteq configured' /\ configured' \subseteq Workers
               /\ accepted' \subseteq Deliveries /\ overrun' \subseteq Deliveries
               /\ posts' \in [Deliveries -> Nat] /\ lost' \in [Deliveries -> Nat]
               /\ budget' \in [crashes : 0 .. MaxCrashes, admin : 0 .. MaxAdmin]
        PROVE  TypeOK'
    BY <1>b DEF TypeOK, RowSet, JobSet
  <1>c. SpendCrash \/ SpendAdmin => budget' \in [crashes : 0 .. MaxCrashes, admin : 0 .. MaxAdmin]
    <2>1. budget \in [crashes : 0 .. MaxCrashes, admin : 0 .. MaxAdmin] /\ MaxCrashes \in Nat /\ MaxAdmin \in Nat
      BY OutboxAssumption DEF TypeOK
    <2>2. ASSUME NEW n \in 0 .. MaxCrashes
          PROVE  [budget EXCEPT !.crashes = n] \in [crashes : 0 .. MaxCrashes, admin : 0 .. MaxAdmin]
      BY <2>1
    <2>3. ASSUME NEW n \in 0 .. MaxAdmin
          PROVE  [budget EXCEPT !.admin = n] \in [crashes : 0 .. MaxCrashes, admin : 0 .. MaxAdmin]
      BY <2>1
    <2>4. CASE SpendCrash
      <3>1. budget.crashes - 1 \in 0 .. MaxCrashes /\ budget' = [budget EXCEPT !.crashes = budget.crashes - 1]
        BY <2>1, <2>4 DEF SpendCrash
      <3> QED  BY <2>2, <3>1
    <2>5. CASE SpendAdmin
      <3>1. budget.admin - 1 \in 0 .. MaxAdmin /\ budget' = [budget EXCEPT !.admin = budget.admin - 1]
        BY <2>1, <2>5 DEF SpendAdmin
      <3> QED  BY <2>3, <3>1
    <2> QED  BY <2>4, <2>5
  <1> USE <1>a
  <1>1. ASSUME NEW d \in Deliveries, Enqueue(d)  PROVE  TypeOK' /\ AttemptsLeft'
    <2>1. row[d] \in RowSet /\ row[d].status = "none"
      BY <1>1 DEF Enqueue
    <2>2. /\ [row[d] EXCEPT !.status = "pending"] \in RowSet
          /\ [row[d] EXCEPT !.status = "pending"].attempts = row[d].attempts
      BY <2>1 DEF RowSet, Statuses
    <2>3. /\ row' \in [Deliveries -> RowSet]
          /\ row'[d].attempts = row[d].attempts
          /\ \A e \in Deliveries : e # d => row'[e] = row[e]
      BY <1>1, <2>2, RowUpdate DEF Enqueue
    <2>4. AttemptsLeft'
      BY <2>1, <2>3 DEF AttemptsLeft
    <2>5. TypeOK'
      BY <1>b, <1>1, <2>3 DEF Enqueue, TypeOK, adminVars, keyVars, ghostVars
    <2> QED  BY <2>4, <2>5
  <1>2. ASSUME NEW d \in Deliveries, Redeliver(d)  PROVE  TypeOK' /\ AttemptsLeft'
    <2>1. row' \in [Deliveries -> RowSet] /\ row'[d] = [NoRow EXCEPT !.status = "pending"]
          /\ \A e \in Deliveries : e # d => row'[e] = row[e]
      BY <1>2, RowUpdate, RecordTypes DEF Redeliver
    <2>2. AttemptsLeft'
      BY <2>1, OutboxAssumption DEF AttemptsLeft, NoRow
    <2>3. TypeOK'
      BY <1>b, <1>c, <1>2, <2>1 DEF Redeliver, TypeOK, adminVars, keyVars
    <2> QED  BY <2>2, <2>3
  <1>3. ASSUME NEW d \in Deliveries, Purge(d)  PROVE  TypeOK' /\ AttemptsLeft'
    <2>1. row' \in [Deliveries -> RowSet] /\ row'[d] = [NoRow EXCEPT !.status = "deleted"]
          /\ \A e \in Deliveries : e # d => row'[e] = row[e]
      BY <1>3, RowUpdate, RecordTypes DEF Purge
    <2>2. row'[d].status = "deleted"
      BY <2>1 DEF NoRow
    <2>4. AttemptsLeft'
      BY <2>1, <2>2 DEF AttemptsLeft
    <2>3. TypeOK'
      BY <1>b, <1>3, <2>1 DEF Purge, TypeOK, adminVars, keyVars, ghostVars
    <2> QED  BY <2>3, <2>4
  <1>4. ASSUME NEW w \in Workers, Claim(w)  PROVE  TypeOK' /\ AttemptsLeft'
    <2>1. PICK claimed \in SUBSET Due :
             /\ row' = [d \in Deliveries |->
                           IF d \in claimed THEN [row[d] EXCEPT !.due = ClaimLease] ELSE row[d]]
             /\ job' = [job EXCEPT ![w] = [d \in Deliveries |->
                           IF d \in claimed THEN QueuedJob ELSE NoJob]]
      BY <1>4 DEF Claim
    <2>2. ASSUME NEW d \in Deliveries
          PROVE  /\ [row[d] EXCEPT !.due = ClaimLease] \in RowSet
                 /\ [row[d] EXCEPT !.due = ClaimLease].attempts = row[d].attempts
                 /\ [row[d] EXCEPT !.due = ClaimLease].status = row[d].status
      <3>1. row[d] \in RowSet
        OBVIOUS
      <3> QED  BY <3>1, OutboxAssumption DEF RowSet
    <2>3. /\ row' \in [Deliveries -> RowSet]
          /\ \A d \in Deliveries : row'[d].attempts = row[d].attempts /\ row'[d].status = row[d].status
      BY <2>1, <2>2
    <2>4. job' \in [Workers -> [Deliveries -> JobSet]]
      BY <2>1, RecordTypes
    <2>5. AttemptsLeft'
      BY <2>3 DEF AttemptsLeft
    <2>6. TypeOK'
      BY <1>b, <1>4, <2>3, <2>4 DEF Claim, TypeOK, adminVars, keyVars, ghostVars
    <2> QED  BY <2>5, <2>6
  <1>5. ASSUME NEW w \in Workers, Crash(w)  PROVE  TypeOK' /\ AttemptsLeft'
    <2>1. job' \in [Workers -> [Deliveries -> JobSet]]
      BY <1>5, RecordTypes DEF Crash
    <2>2. lost' \in [Deliveries -> Nat]
      <3>1. \A d \in Deliveries : Cardinality({d} \cap Uncounted(job[w])) \in Nat
        BY UncountedType
      <3> QED  BY <1>5, <3>1 DEF Crash, TypeOK
    <2>3. AttemptsLeft'
      BY <1>5 DEF AttemptsLeft, Crash
    <2>4. TypeOK'
      BY <1>b, <1>c, <1>5, <2>1, <2>2 DEF Crash, TypeOK, keyVars
    <2> QED  BY <2>3, <2>4
  <1>6. ASSUME NEW w \in Workers, NEW d \in Deliveries, CheckLease(w, d)
        PROVE  TypeOK' /\ AttemptsLeft'
    <2>1. job[w][d] \in JobSet
      OBVIOUS
    <2>2. [job[w][d] EXCEPT !.phase = "checked", !.timer = MaxStall] \in JobSet
      BY <2>1, OutboxAssumption DEF JobSet, Phases
    <2>3. job' \in [Workers -> [Deliveries -> JobSet]]
      BY <1>6, <2>2, RecordTypes DEF CheckLease
    <2>4. AttemptsLeft'
      BY <1>6 DEF CheckLease, AttemptsLeft
    <2>5. TypeOK'
      BY <1>b, <1>6, <2>3 DEF CheckLease, TypeOK, adminVars, keyVars, ghostVars
    <2> QED  BY <2>4, <2>5
  <1>7. ASSUME NEW w \in Workers, NEW d \in Deliveries, Load(w, d)
        PROVE  TypeOK' /\ AttemptsLeft'
    <2>1. job[w][d] \in JobSet /\ row[d] \in RowSet
      OBVIOUS
    <2>3. row[d].attempts \in 0 .. MaxAttempts
      BY <2>1 DEF RowSet
    <2>2. row[d].status = "pending" => row[d].attempts + 1 \in 0 .. MaxAttempts
      <3>1. row[d].status = "pending" => row[d].attempts < MaxAttempts
        BY DEF AttemptsLeft
      <3> QED  BY <2>3, <3>1, OutboxAssumption
    <2>4. PICK j \in JobSet : job' = [job EXCEPT ![w][d] = j]
      <3>1. CASE row[d].status # "pending"
        BY <1>7, <3>1, RecordTypes DEF Load
      <3>2. CASE job' = [job EXCEPT ![w][d] = Decided(job[w][d], "ineligible", row[d].attempts)]
        <4>1. Decided(job[w][d], "ineligible", row[d].attempts) \in JobSet
          BY <2>1, <2>3, DecidedType DEF Outcomes
        <4> QED  BY <3>2, <4>1
      <3>3. CASE /\ row[d].status = "pending"
                 /\ job' = [job EXCEPT ![w][d] = Decided(job[w][d], "no key", row[d].attempts + 1)]
        <4>1. Decided(job[w][d], "no key", row[d].attempts + 1) \in JobSet
          BY <2>1, <2>2, <3>3, DecidedType DEF Outcomes
        <4> QED  BY <3>3, <4>1
      <3>4. CASE row[d].status = "pending" /\ ~Ineligible /\ readable /\ w \in keyed
        <4> DEFINE j == [job[w][d] EXCEPT !.phase = "posting", !.timer = AttemptTimeout,
                                          !.attempts = row[d].attempts + 1]
        <4>1. j \in JobSet
          BY <2>1, <2>2, <3>4, TimeoutType DEF JobSet, Phases
        <4>2. job' = [job EXCEPT ![w][d] = j]
          BY <1>7, <3>4 DEF Load
        <4> QED  BY <4>1, <4>2
      <3> QED  BY <1>7, <3>1, <3>2, <3>3, <3>4 DEF Load
    <2>5. job' \in [Workers -> [Deliveries -> JobSet]]
      BY <2>4, JobUpdate
    <2>6. AttemptsLeft'
      BY <1>7 DEF Load, AttemptsLeft
    <2>7. posts' \in [Deliveries -> Nat]
      <3>1. posts' = posts \/ posts' = [posts EXCEPT ![d] = @ + 1]
        BY <1>7 DEF Load
      <3>2. posts \in [Deliveries -> Nat]
        BY DEF TypeOK
      <3> QED  BY <3>1, <3>2
    <2>8. TypeOK'
      BY <1>b, <1>7, <2>5, <2>7 DEF Load, TypeOK, adminVars, keyVars
    <2> QED  BY <2>6, <2>8
  <1>8. ASSUME NEW w \in Workers, NEW d \in Deliveries, Answer(w, d)
        PROVE  TypeOK' /\ AttemptsLeft'
    <2>1. job[w][d] \in JobSet /\ job[w][d].attempts \in 0 .. MaxAttempts
      BY DEF JobSet
    <2>2. PICK o \in {"ok", "failed"} :
             job' = [job EXCEPT ![w][d] = Decided(job[w][d], o, job[w][d].attempts)]
      BY <1>8 DEF Answer
    <2>8. o \in Outcomes
      BY DEF Outcomes
    <2>3. Decided(job[w][d], o, job[w][d].attempts) \in JobSet
      BY <2>1, <2>8, DecidedType
    <2>4. job' \in [Workers -> [Deliveries -> JobSet]]
      BY <2>2, <2>3, JobUpdate
    <2>5. AttemptsLeft'
      BY <1>8 DEF Answer, AttemptsLeft
    <2>6. accepted' \subseteq Deliveries
      BY <1>8 DEF Answer, TypeOK
    <2>7. TypeOK'
      BY <1>b, <1>8, <2>4, <2>6 DEF Answer, TypeOK, adminVars, keyVars
    <2> QED  BY <2>5, <2>7
  <1>9. ASSUME NEW w \in Workers, NEW d \in Deliveries, Commit(w, d)
        PROVE  TypeOK' /\ AttemptsLeft'
    <2>1. job' \in [Workers -> [Deliveries -> JobSet]]
      BY <1>9, JobUpdate, RecordTypes DEF Commit
    <2>2. job[w][d] \in JobSet /\ row[d] \in RowSet
      OBVIOUS
    <2>3. row' \in [Deliveries -> RowSet] /\ AttemptsLeft'
      <3>1. CASE row[d].status = "deleted"
        BY <1>9, <3>1 DEF Commit, AttemptsLeft
      <3>2. CASE row[d].status # "deleted"
        <4> DEFINE r == SettledRow(row[d], job[w][d])
        <4>1. r \in RowSet /\ (r.status \in {"none", "pending"} => r.attempts < MaxAttempts)
          BY <2>2, SettledRowType DEF AttemptsLeft
        <4>2. row' = [row EXCEPT ![d] = r]
          BY <1>9, <3>2 DEF Commit
        <4> HIDE DEF r
        <4>3. /\ row' \in [Deliveries -> RowSet] /\ row'[d] = r
              /\ \A e \in Deliveries : e # d => row'[e] = row[e]
          BY <4>1, <4>2, RowUpdate
        <4> QED  BY <4>1, <4>3 DEF AttemptsLeft
      <3> QED  BY <3>1, <3>2
    <2>4. keyed' \subseteq configured
      BY <1>9 DEF Commit, Rekeyed, TypeOK
    <2>5. TypeOK'
      BY <1>b, <1>9, <2>1, <2>3, <2>4 DEF Commit, TypeOK, adminVars, keyVars, ghostVars
    <2> QED  BY <2>3, <2>5
  <1>10. ASSUME NEW w \in Workers, NEW d \in Deliveries, AttemptRaises(w, d)
         PROVE  TypeOK' /\ AttemptsLeft'
    <2>1. job' \in [Workers -> [Deliveries -> JobSet]]
      BY <1>10, JobUpdate, RecordTypes DEF AttemptRaises
    <2>2. lost' \in [Deliveries -> Nat]
      <3>1. Cardinality({d} \cap Uncounted(job[w])) \in Nat
        BY UncountedType
      <3> QED  BY <1>10, <3>1 DEF AttemptRaises, TypeOK
    <2>3. AttemptsLeft'
      BY <1>10 DEF AttemptRaises, AttemptsLeft
    <2>4. TypeOK'
      BY <1>b, <1>c, <1>10, <2>1, <2>2 DEF AttemptRaises, TypeOK, adminVars, keyVars
    <2> QED  BY <2>3, <2>4
  <1>11. ASSUME UpdateSubscription \/ RotateSecret \/ RevokePartner
         PROVE  TypeOK' /\ AttemptsLeft'
    <2>1. AttemptsLeft'
      BY <1>11 DEF AttemptsLeft, UpdateSubscription, RotateSecret, RevokePartner
    <2>2. TypeOK'
      BY <1>b, <1>c, <1>11 DEF UpdateSubscription, RotateSecret, RevokePartner, TypeOK, keyVars, ghostVars
    <2> QED  BY <2>1, <2>2
  <1>12. ASSUME DeleteSubscription  PROVE  TypeOK' /\ AttemptsLeft'
    <2>1. row' \in [Deliveries -> RowSet]
          /\ \A d \in Deliveries : row'[d] = [NoRow EXCEPT !.status = "deleted"]
      BY <1>12, RecordTypes DEF DeleteSubscription
    <2>2. AttemptsLeft'
      BY <2>1 DEF AttemptsLeft, NoRow
    <2>3. TypeOK'
      BY <1>b, <1>12, <2>1 DEF DeleteSubscription, TypeOK, keyVars, ghostVars
    <2> QED  BY <2>2, <2>3
  <1>13. ASSUME Tick  PROVE  TypeOK' /\ AttemptsLeft'
    <2>1. ASSUME NEW d \in Deliveries
          PROVE  /\ [row[d] EXCEPT !.due = Less(@)] \in RowSet
                 /\ [row[d] EXCEPT !.due = Less(@)].attempts = row[d].attempts
                 /\ [row[d] EXCEPT !.due = Less(@)].status = row[d].status
      <3>1. row[d] \in RowSet
        OBVIOUS
      <3> QED  BY <3>1 DEF RowSet, Less
    <2>2. ASSUME NEW w \in Workers, NEW d \in Deliveries
          PROVE  [job[w][d] EXCEPT !.lease = Less(@), !.timer = Less(@),
                                   !.slow = HeldUp(job[w][d])] \in JobSet
      <3>1. job[w][d] \in JobSet
        OBVIOUS
      <3>2. /\ Less(job[w][d].lease) \in Nat /\ Less(job[w][d].timer) \in Nat
            /\ HeldUp(job[w][d]) \in BOOLEAN
        BY <3>1 DEF JobSet, Less, HeldUp
      <3> QED  BY <3>1, <3>2 DEF JobSet
    <2>3. /\ row' \in [Deliveries -> RowSet]
          /\ \A d \in Deliveries : row'[d].attempts = row[d].attempts /\ row'[d].status = row[d].status
      BY <1>13, <2>1 DEF Tick
    <2>4. job' \in [Workers -> [Deliveries -> JobSet]]
      BY <1>13, <2>2 DEF Tick
    <2>5. AttemptsLeft'
      BY <2>3 DEF AttemptsLeft
    <2>6. TypeOK'
      BY <1>b, <1>13, <2>3, <2>4 DEF Tick, TypeOK, adminVars, keyVars, ghostVars
    <2> QED  BY <2>5, <2>6
  <1>14. ASSUME UNCHANGED vars  PROVE  TypeOK' /\ AttemptsLeft'
    BY <1>14 DEF vars, adminVars, keyVars, ghostVars, TypeOK, AttemptsLeft
  <1> QED
    BY <1>1, <1>2, <1>3, <1>4, <1>5, <1>6, <1>7, <1>8, <1>9, <1>10, <1>11, <1>12, <1>13, <1>14
    DEF Next, AttemptStep

\* The type invariant, for every instance.
THEOREM TypeCorrect == Spec => []TypeOK
  <1>1. Init => TypeOK /\ AttemptsLeft
    BY TypeInit
  <1>2. TypeOK /\ AttemptsLeft /\ [Next]_vars => TypeOK' /\ AttemptsLeft'
    BY TypeNext
  <1> QED  BY <1>1, <1>2, PTL DEF Spec

-----------------------------------------------------------------------------
\* The lease.

\* No attempt runs at the start.
LEMMA LeaseInit == Init => LeaseInv
  BY DEF Init, LeaseInv, LeaseCovers, LeaseIsDue, OneLease, OkWasTaken, Live, Phase, NoJob, Held

\* Attempts that end or go on under the lease they have, with the rows as they
\* are, keep a lease single and in step with its row.
LEMMA LeaseShrinks ==
    ASSUME LeaseIsDue, OneLease, row' = row, overrun' = overrun,
           \A w \in Workers, d \in Held :
               Live(w, d)' => Live(w, d) /\ job'[w][d].lease = job[w][d].lease
    PROVE  LeaseIsDue' /\ OneLease'
  BY DEF LeaseIsDue, OneLease, Held

\* Rows no lease is on may change.
LEMMA RowsWithoutLease ==
    ASSUME LeaseIsDue, OneLease, LeaseCovers, job' = job, overrun' = overrun,
           \A d \in Held :
               \/ row'[d] = row[d]
               \/ row'[d].status = "deleted"
               \/ row[d].status \notin {"pending", "deleted"}
    PROVE  LeaseIsDue' /\ OneLease' /\ LeaseCovers'
  BY DEF LeaseIsDue, OneLease, LeaseCovers, Live, Phase, Held

\* An attempt past the lease check has a running lease, on a row that is
\* queued or gone.
LEMMA RunningIsLive ==
    ASSUME LeaseInv, NEW w \in Workers, NEW d \in Held,
           Phase(w, d) \in {"checked", "posting", "answered"}
    PROVE  Live(w, d) /\ row[d].status \in {"pending", "deleted"}
  <1>1. Live(w, d)
    BY DEF LeaseInv, LeaseCovers, Live, Phase
  <1> QED  BY <1>1 DEF LeaseInv, LeaseIsDue

\* Every step keeps the leases of the deliveries that are held.
LEMMA LeaseNext == TypeOK /\ AttemptsLeft /\ LeaseInv /\ [Next]_vars => LeaseInv'
  <1> SUFFICES ASSUME TypeOK, AttemptsLeft, LeaseInv, [Next]_vars
               PROVE  LeaseInv'
    OBVIOUS
  <1>a. row \in [Deliveries -> RowSet] /\ job \in [Workers -> [Deliveries -> JobSet]]
    BY DEF TypeOK, RowSet, JobSet
  <1>b. LeaseCovers /\ LeaseIsDue /\ OneLease /\ OkWasTaken
    BY DEF LeaseInv
  <1>c. ASSUME job' = job, accepted' = accepted, overrun' = overrun  PROVE  OkWasTaken'
    BY <1>b, <1>c DEF OkWasTaken, Phase, Held
  <1>d. NoJob.phase = "none" /\ QueuedJob.phase = "queued" /\ QueuedJob.lease = ClaimLease
    BY DEF NoJob, QueuedJob
  <1>e. Held \subseteq Deliveries /\ (overrun' = overrun => Held' = Held)
    BY DEF Held
  <1> USE <1>a
  <1>1. ASSUME NEW d \in Deliveries, Enqueue(d)  PROVE  LeaseInv'
    <2>1. \A e \in Deliveries : row'[e] = row[e] \/ row[e].status \notin {"pending", "deleted"}
      BY <1>1 DEF Enqueue
    <2>2. job' = job /\ accepted' = accepted /\ overrun' = overrun
      BY <1>1 DEF Enqueue, ghostVars
    <2> QED  BY <1>b, <1>c, <2>1, <2>2, <1>e, RowsWithoutLease DEF LeaseInv
  <1>2. ASSUME NEW d \in Deliveries, Redeliver(d)  PROVE  LeaseInv'
    <2>1. \A e \in Deliveries : row'[e] = row[e] \/ row[e].status \notin {"pending", "deleted"}
      BY <1>2 DEF Redeliver, Settled
    <2>2. /\ job' = job /\ accepted' = accepted \ {d} /\ row[d].status \in Settled
          /\ overrun' = overrun
      BY <1>2 DEF Redeliver
    <2>3. \A w \in Workers : d \in Held => Phase(w, d) # "answered"
      BY <2>2, RunningIsLive DEF Settled
    <2>4. OkWasTaken'
      BY <1>b, <1>e, <2>2, <2>3 DEF OkWasTaken, Phase
    <2> QED  BY <1>b, <2>1, <2>2, <2>4, <1>e, RowsWithoutLease DEF LeaseInv
  <1>3. ASSUME NEW d \in Deliveries, Purge(d)  PROVE  LeaseInv'
    <2>1. \A e \in Deliveries : row'[e] = row[e] \/ row[e].status \notin {"pending", "deleted"}
      BY <1>3 DEF Purge, Settled
    <2>2. job' = job /\ accepted' = accepted /\ overrun' = overrun
      BY <1>3 DEF Purge, ghostVars
    <2> QED  BY <1>b, <1>c, <2>1, <2>2, <1>e, RowsWithoutLease DEF LeaseInv
  <1>5. ASSUME NEW w \in Workers, Crash(w)  PROVE  LeaseInv'
    <2>1. \A v \in Workers, e \in Deliveries :
             \/ v = w /\ job'[v][e] = NoJob
             \/ v # w /\ job'[v][e] = job[v][e]
      BY <1>5 DEF Crash
    <2>2. row' = row /\ accepted' = accepted /\ overrun' = overrun
      BY <1>5 DEF Crash
    <2>3. LeaseIsDue' /\ OneLease'
      BY <1>b, <1>d, <1>e, <2>1, <2>2, LeaseShrinks DEF Live, Phase
    <2>4. LeaseCovers' /\ OkWasTaken'
      BY <1>b, <1>d, <1>e, <2>1, <2>2 DEF LeaseCovers, OkWasTaken, Phase
    <2> QED  BY <2>3, <2>4 DEF LeaseInv
  <1>4. ASSUME NEW w \in Workers, Claim(w)  PROVE  LeaseInv'
    <2>1. PICK claimed \in SUBSET Due :
             /\ row' = [d \in Deliveries |->
                           IF d \in claimed THEN [row[d] EXCEPT !.due = ClaimLease] ELSE row[d]]
             /\ job' = [job EXCEPT ![w] = [d \in Deliveries |->
                           IF d \in claimed THEN QueuedJob ELSE NoJob]]
      BY <1>4 DEF Claim
    <2>2. \A v \in Workers, e \in Deliveries :
             \/ v # w /\ job'[v][e] = job[v][e]
             \/ v = w /\ e \in claimed /\ job'[v][e] = QueuedJob
             \/ v = w /\ e \notin claimed /\ job'[v][e] = NoJob
      BY <2>1
    <2>3. \A e \in Deliveries :
             \/ e \notin claimed /\ row'[e] = row[e]
             \/ e \in claimed /\ row'[e].status = "pending" /\ row'[e].due = ClaimLease
      <3>1. \A e \in claimed : row[e] \in RowSet /\ row[e].status = "pending"
        BY DEF Due
      <3> QED  BY <2>1, <3>1 DEF RowSet
    <2>4. \A v \in Workers, e \in claimed \cap Held : ~Live(v, e)
      <3>1. \A e \in claimed : row[e].status = "pending" /\ row[e].due = 0
        BY DEF Due
      <3>2. ASSUME NEW v \in Workers, NEW e \in claimed \cap Held, Live(v, e)
            PROVE  job[v][e].lease = 0
        BY <1>b, <3>1, <3>2 DEF LeaseIsDue
      <3> QED  BY <3>2 DEF Live
    <2>5. accepted' = accepted /\ overrun' = overrun
      BY <1>4 DEF Claim, ghostVars
    <2>6. LeaseCovers' /\ OkWasTaken'
      BY <1>b, <1>d, <1>e, <2>2, <2>5 DEF LeaseCovers, OkWasTaken, Phase
    <2>7. ASSUME NEW v \in Workers, NEW e \in Held, Live(v, e)', v # w
          PROVE  Live(v, e) /\ e \notin claimed /\ job'[v][e] = job[v][e]
      <3>1. job'[v][e] = job[v][e]
        BY <1>e, <2>2, <2>7
      <3>2. Live(v, e)
        BY <2>7, <3>1 DEF Live, Phase
      <3> QED  BY <2>4, <3>1, <3>2
    <2>8. ASSUME NEW e \in Deliveries, job'[w][e].phase # "none"
          PROVE  e \in claimed /\ job'[w][e] = QueuedJob
      BY <1>d, <2>2, <2>8
    <2>9. LeaseIsDue'
      <3> SUFFICES ASSUME NEW v \in Workers, NEW e \in Held, Live(v, e)'
                   PROVE  \/ row'[e].status = "deleted"
                          \/ row'[e].status = "pending" /\ row'[e].due = job'[v][e].lease
        BY <1>e, <2>5 DEF LeaseIsDue
      <3>1. CASE v = w
        BY <1>d, <1>e, <2>3, <2>8, <3>1 DEF Live, Phase
      <3>2. CASE v # w
        BY <1>b, <1>e, <2>3, <2>7, <3>2 DEF LeaseIsDue
      <3> QED  BY <3>1, <3>2
    <2>10. OneLease'
      <3> SUFFICES ASSUME NEW u \in Workers, NEW v \in Workers, NEW e \in Held,
                          Live(u, e)', Live(v, e)', u # v
                   PROVE  FALSE
        BY <1>e, <2>5 DEF OneLease
      <3>1. CASE e \in claimed
        BY <2>7, <3>1
      <3>2. CASE e \notin claimed
        <4>1. u # w /\ v # w
          BY <1>e, <2>8, <3>2 DEF Live, Phase
        <4> QED  BY <1>b, <2>7, <4>1 DEF OneLease
      <3> QED  BY <3>1, <3>2
    <2> QED  BY <2>6, <2>9, <2>10 DEF LeaseInv
  <1>6. ASSUME NEW w \in Workers, NEW d \in Deliveries, CheckLease(w, d)  PROVE  LeaseInv'
    <2> DEFINE j == IF AttemptTimeout >= job[w][d].lease THEN NoJob
                    ELSE [job[w][d] EXCEPT !.phase = "checked", !.timer = MaxStall]
    <2>1. job[w][d] \in JobSet /\ job[w][d].phase = "queued"
      BY <1>6 DEF CheckLease
    <2>2. \/ j.phase = "none"
          \/ /\ j.phase = "checked" /\ j.lease = job[w][d].lease
             /\ j.lease > AttemptTimeout /\ j.lease > 0
      BY <1>d, <2>1, TimeoutType DEF JobSet
    <2>3. /\ job' = [job EXCEPT ![w][d] = j] /\ row' = row /\ accepted' = accepted
          /\ overrun' = overrun
      BY <1>6 DEF CheckLease, ghostVars
    <2> HIDE DEF j
    <2>4. \A v \in Workers, e \in Deliveries :
             \/ v = w /\ e = d /\ job'[v][e] = j
             \/ (v # w \/ e # d) /\ job'[v][e] = job[v][e]
      BY <2>3
    <2>5. LeaseIsDue' /\ OneLease'
      BY <1>b, <1>e, <2>1, <2>2, <2>3, <2>4, LeaseShrinks DEF Live, Phase
    <2>6. LeaseCovers' /\ OkWasTaken'
      BY <1>b, <1>e, <2>2, <2>3, <2>4 DEF LeaseCovers, OkWasTaken, Phase
    <2> QED  BY <2>5, <2>6 DEF LeaseInv
  <1>7. ASSUME NEW w \in Workers, NEW d \in Deliveries, Load(w, d)  PROVE  LeaseInv'
    <2>1. /\ job[w][d] \in JobSet /\ job[w][d].phase = "checked"
          /\ d \in Held => /\ job[w][d].lease > 0
                            /\ ~job[w][d].slow => job[w][d].lease > AttemptTimeout
      BY <1>7, <1>b DEF Load, LeaseCovers, Phase
    <2> DEFINE Goes(j) == \/ j.phase = "none"
                          \/ /\ j.lease = job[w][d].lease /\ j.slow = job[w][d].slow
                             /\ \/ j.phase = "answered" /\ j.outcome # "ok"
                                \/ j.phase = "posting" /\ j.timer = AttemptTimeout
               Posting == [job[w][d] EXCEPT !.phase = "posting", !.timer = AttemptTimeout,
                                            !.attempts = row[d].attempts + 1]
    <2>2. \A a : /\ Goes(Decided(job[w][d], "ineligible", a))
                 /\ Goes(Decided(job[w][d], "no key", a))
      BY <2>1 DEF Decided, JobSet
    <2>3. Goes(Posting) /\ Goes(NoJob)
      BY <2>1, <1>d DEF JobSet
    <2>4. \/ job' = [job EXCEPT ![w][d] = NoJob]
          \/ job' = [job EXCEPT ![w][d] = Decided(job[w][d], "ineligible", row[d].attempts)]
          \/ job' = [job EXCEPT ![w][d] = Decided(job[w][d], "no key", row[d].attempts + 1)]
          \/ job' = [job EXCEPT ![w][d] = Posting]
      BY <1>7 DEF Load
    <2> HIDE DEF Goes, Posting
    <2>5. PICK j : job' = [job EXCEPT ![w][d] = j] /\ Goes(j)
      BY <2>2, <2>3, <2>4
    <2>6. row' = row /\ accepted' = accepted /\ overrun' = overrun
      BY <1>7 DEF Load
    <2>7. \A v \in Workers, e \in Deliveries :
             \/ v = w /\ e = d /\ job'[v][e] = j
             \/ (v # w \/ e # d) /\ job'[v][e] = job[v][e]
      BY <2>5
    <2>8. LeaseIsDue' /\ OneLease'
      BY <1>b, <1>e, <2>1, <2>5, <2>6, <2>7, LeaseShrinks DEF Live, Phase, Goes
    <2>9. LeaseCovers' /\ OkWasTaken'
      BY <1>b, <1>e, <2>1, <2>5, <2>6, <2>7 DEF LeaseCovers, OkWasTaken, Phase, Goes
    <2> QED  BY <2>8, <2>9 DEF LeaseInv
  <1>8. ASSUME NEW w \in Workers, NEW d \in Deliveries, Answer(w, d)  PROVE  LeaseInv'
    <2>1. job[w][d] \in JobSet /\ job[w][d].phase = "posting" /\ (d \in Held => job[w][d].lease > 0)
      <3>1. job[w][d].phase = "posting"
        BY <1>8 DEF Answer
      <3> QED  BY <3>1, RunningIsLive DEF Live, Phase
    <2>2. PICK o \in {"ok", "failed"}, taken \in BOOLEAN :
             /\ o = "ok" => taken
             /\ job' = [job EXCEPT ![w][d] = Decided(job[w][d], o, job[w][d].attempts)]
             /\ accepted' = IF taken THEN accepted \cup {d} ELSE accepted
      BY <1>8 DEF Answer
    <2> DEFINE j == Decided(job[w][d], o, job[w][d].attempts)
    <2>3. j.phase = "answered" /\ j.lease = job[w][d].lease /\ j.outcome = o
      BY <2>1 DEF Decided, JobSet
    <2>4. job' = [job EXCEPT ![w][d] = j] /\ row' = row /\ overrun' = overrun
      BY <1>8, <2>2 DEF Answer
    <2> HIDE DEF j
    <2>5. \A v \in Workers, e \in Deliveries :
             \/ v = w /\ e = d /\ job'[v][e] = j
             \/ (v # w \/ e # d) /\ job'[v][e] = job[v][e]
      BY <2>4
    <2>6. LeaseIsDue' /\ OneLease'
      BY <1>b, <1>e, <2>1, <2>3, <2>4, <2>5, LeaseShrinks DEF Live, Phase
    <2>7. LeaseCovers'
      BY <1>b, <1>e, <2>1, <2>3, <2>4, <2>5 DEF LeaseCovers, Phase
    <2>8. OkWasTaken'
      BY <1>b, <1>e, <2>2, <2>3, <2>4, <2>5 DEF OkWasTaken, Phase
    <2> QED  BY <2>6, <2>7, <2>8 DEF LeaseInv
  <1>9. ASSUME NEW w \in Workers, NEW d \in Deliveries, Commit(w, d)  PROVE  LeaseInv'
    <2>1. d \in Held => Live(w, d)
      BY <1>9, RunningIsLive DEF Commit, Phase
    <2>2. \A v \in Workers, e \in Deliveries :
             \/ v = w /\ e = d /\ job'[v][e] = NoJob
             \/ (v # w \/ e # d) /\ job'[v][e] = job[v][e]
      BY <1>9 DEF Commit
    <2>3. \A e \in Deliveries : e # d => row'[e] = row[e]
      BY <1>9 DEF Commit
    <2>a. accepted' = accepted /\ overrun' = overrun
      BY <1>9 DEF Commit, ghostVars
    <2>4. \A v \in Workers, e \in Held :
             Live(v, e)' => Live(v, e) /\ e # d /\ job'[v][e] = job[v][e]
      BY <1>b, <1>d, <1>e, <2>1, <2>2 DEF OneLease, Live, Phase
    <2>5. LeaseIsDue' /\ OneLease'
      BY <1>b, <1>e, <2>a, <2>3, <2>4 DEF LeaseIsDue, OneLease
    <2>6. LeaseCovers' /\ OkWasTaken'
      BY <1>b, <1>d, <1>e, <2>a, <2>2 DEF LeaseCovers, OkWasTaken, Phase
    <2> QED  BY <2>5, <2>6 DEF LeaseInv
  <1>10. ASSUME NEW w \in Workers, NEW d \in Deliveries, AttemptRaises(w, d)  PROVE  LeaseInv'
    <2>1. \A v \in Workers, e \in Deliveries :
             \/ v = w /\ e = d /\ job'[v][e] = NoJob
             \/ (v # w \/ e # d) /\ job'[v][e] = job[v][e]
      BY <1>10 DEF AttemptRaises
    <2>2. row' = row /\ accepted' = accepted /\ overrun' = overrun
      BY <1>10 DEF AttemptRaises
    <2>3. LeaseIsDue' /\ OneLease'
      BY <1>b, <1>d, <1>e, <2>1, <2>2, LeaseShrinks DEF Live, Phase
    <2>4. LeaseCovers' /\ OkWasTaken'
      BY <1>b, <1>d, <1>e, <2>1, <2>2 DEF LeaseCovers, OkWasTaken, Phase
    <2> QED  BY <2>3, <2>4 DEF LeaseInv
  <1>13. ASSUME Tick  PROVE  LeaseInv'
    <2>1. ASSUME NEW w \in Workers, NEW d \in Deliveries
          PROVE  /\ job'[w][d].phase = job[w][d].phase
                 /\ job'[w][d].outcome = job[w][d].outcome
                 /\ job'[w][d].lease = Less(job[w][d].lease)
                 /\ job'[w][d].timer = Less(job[w][d].timer)
                 /\ job'[w][d].slow = HeldUp(job[w][d])
                 /\ job[w][d].lease \in Nat /\ job[w][d].timer \in Nat
      <3>1. job[w][d] \in JobSet
        OBVIOUS
      <3>2. job'[w][d] = [job[w][d] EXCEPT !.lease = Less(@), !.timer = Less(@),
                                           !.slow = HeldUp(job[w][d])]
        BY <1>13 DEF Tick
      <3> QED  BY <3>1, <3>2 DEF JobSet
    <2>2. \A d \in Deliveries : row'[d].status = row[d].status /\ row'[d].due = Less(row[d].due)
      <3>1. \A d \in Deliveries : row[d] \in RowSet
        OBVIOUS
      <3> QED  BY <1>13, <3>1 DEF Tick, RowSet
    <2>3. \A w \in Workers, d \in Deliveries :
             Phase(w, d) \in {"checked", "posting", "answered"} => job[w][d].timer # 0
      BY <1>13 DEF Tick, Urgent, Running, Phase
    <2>8. /\ Held' \subseteq Held
          /\ \A w \in Workers, d \in Held' :
                Phase(w, d) \in {"checked", "posting", "answered"} /\ HeldUp(job[w][d])
                   => ~(job[w][d].lease <= 1)
      BY <1>13 DEF Tick, Held, Running, Phase
    <2>4. LeaseCovers'
      <3> SUFFICES ASSUME NEW w \in Workers, NEW d \in Held',
                          Phase(w, d)' \in {"checked", "posting", "answered"}
                   PROVE  /\ job'[w][d].lease > 0
                          /\ Phase(w, d)' = "checked" /\ ~job'[w][d].slow => job'[w][d].lease > AttemptTimeout
                          /\ Phase(w, d)' = "posting" /\ ~job'[w][d].slow => job'[w][d].lease > job'[w][d].timer
        BY DEF LeaseCovers
      <3>1. /\ d \in Held /\ d \in Deliveries
            /\ Phase(w, d) \in {"checked", "posting", "answered"} /\ Phase(w, d)' = Phase(w, d)
        BY <1>e, <2>1, <2>8 DEF Phase
      <3>2. job[w][d].timer # 0
        BY <2>3, <3>1
      <3>3. CASE HeldUp(job[w][d])
        BY <2>1, <2>8, <3>1, <3>3 DEF Less
      <3>4. CASE ~HeldUp(job[w][d])
        <4>1. Phase(w, d) = "posting" /\ ~job[w][d].slow
          BY <3>1, <3>4 DEF HeldUp, Phase
        <4>2. job[w][d].lease > job[w][d].timer
          BY <1>b, <3>1, <4>1 DEF LeaseCovers
        <4> QED  BY <2>1, <3>1, <3>2, <4>1, <4>2 DEF Less
      <3> QED  BY <3>3, <3>4
    <2>5. \A w \in Workers, d \in Deliveries : Live(w, d)' => Live(w, d)
      BY <2>1 DEF Live, Phase, Less
    <2>6. LeaseIsDue' /\ OneLease'
      BY <1>b, <1>e, <2>1, <2>2, <2>5, <2>8 DEF LeaseIsDue, OneLease
    <2>7. OkWasTaken'
      BY <1>b, <1>e, <1>13, <2>1, <2>8 DEF OkWasTaken, Phase, Tick
    <2> QED  BY <2>4, <2>6, <2>7 DEF LeaseInv
  <1>11. ASSUME UpdateSubscription \/ RotateSecret \/ RevokePartner  PROVE  LeaseInv'
    <2>1. job' = job /\ accepted' = accepted /\ row' = row /\ overrun' = overrun
      BY <1>11 DEF UpdateSubscription, RotateSecret, RevokePartner, ghostVars
    <2> QED  BY <1>b, <1>c, <2>1, <1>e, RowsWithoutLease DEF LeaseInv
  <1>12. ASSUME DeleteSubscription  PROVE  LeaseInv'
    <2>1. \A d \in Deliveries : row'[d].status = "deleted"
      BY <1>12 DEF DeleteSubscription, NoRow
    <2>2. job' = job /\ accepted' = accepted /\ overrun' = overrun
      BY <1>12 DEF DeleteSubscription, ghostVars
    <2> QED  BY <1>b, <1>c, <2>1, <2>2, <1>e, RowsWithoutLease DEF LeaseInv
  <1>14. ASSUME UNCHANGED vars  PROVE  LeaseInv'
    <2>1. job' = job /\ accepted' = accepted /\ row' = row /\ overrun' = overrun
      BY <1>14 DEF vars, ghostVars
    <2> QED  BY <1>b, <1>c, <2>1, <1>e, RowsWithoutLease DEF LeaseInv
  <1> QED
    BY <1>1, <1>2, <1>3, <1>4, <1>5, <1>6, <1>7, <1>8, <1>9, <1>10, <1>11, <1>12, <1>13, <1>14
    DEF Next, AttemptStep

\* The parts together, as one inductive invariant.
LEMMA LeaseInductive == Spec => [](TypeOK /\ AttemptsLeft /\ LeaseInv)
  <1>1. Init => TypeOK /\ AttemptsLeft /\ LeaseInv
    BY TypeInit, LeaseInit
  <1>2. TypeOK /\ AttemptsLeft /\ LeaseInv /\ [Next]_vars
           => (TypeOK /\ AttemptsLeft /\ LeaseInv)'
    BY TypeNext, LeaseNext
  <1> QED  BY <1>1, <1>2, PTL DEF Spec

\* Two workers never send the same delivery at the same time unless the
\* database has held up an attempt of it past the end of its lease: for any
\* number of workers and deliveries, whatever the limits, the lease, the
\* timeout, the retry schedule and the time a database round trip takes.
THEOREM LeaseKeepsRequestsApart == Spec => []NoOverlap
  <1>1. TypeOK /\ LeaseInv => NoOverlap
    <2> SUFFICES ASSUME TypeOK, LeaseInv, NEW d \in Deliveries, d \notin overrun,
                        NEW v \in Workers, NEW w \in Workers,
                        job[v][d].phase = "posting", job[w][d].phase = "posting"
                 PROVE  v = w
      BY DEF NoOverlap
    <2>1. d \in Held
      BY DEF Held
    <2>2. Live(v, d) /\ Live(w, d)
      BY <2>1, RunningIsLive DEF Phase
    <2> QED  BY <2>1, <2>2 DEF LeaseInv, OneLease
  <1> QED  BY <1>1, LeaseInductive, PTL

-----------------------------------------------------------------------------
\* The requests of a delivery.

\* An attempt that will count itself when it commits, and one whose request is
\* out, or answered, and counted by no row yet.
Counting(w, d) ==
    \/ Phase(w, d) = "posting"
    \/ Phase(w, d) = "answered" /\ job[w][d].outcome # "ineligible"
InFlight(w, d) ==
    \/ Phase(w, d) = "posting"
    \/ Phase(w, d) = "answered" /\ job[w][d].outcome \in {"ok", "failed"}

\* The attempt's count is still the row's next one when it commits, and but for
\* the dead workers' only the request that is in flight is not counted.
PostsInv ==
    /\ \A d \in Held : row[d].status = "none" => posts[d] = 0
    /\ \A w \in Workers, d \in Held :
          Counting(w, d) /\ row[d].status = "pending" => job[w][d].attempts = row[d].attempts + 1
    /\ \A d \in Held :
          row[d].status \notin {"none", "deleted"} =>
              \/ posts[d] <= row[d].attempts + lost[d]
              \/ /\ posts[d] <= row[d].attempts + lost[d] + 1
                 /\ \E w \in Workers : InFlight(w, d)

\* A delivery is in flight once, and only while it is queued or gone.
LEMMA OneInFlight ==
    ASSUME LeaseInv, NEW w \in Workers, NEW d \in Held, Counting(w, d)
    PROVE  /\ row[d].status \in {"pending", "deleted"}
           /\ \A v \in Workers : Phase(v, d) \in {"checked", "posting", "answered"} => v = w
  <1>1. Live(w, d) /\ row[d].status \in {"pending", "deleted"}
    BY RunningIsLive DEF Counting
  <1>2. \A v \in Workers : Phase(v, d) \in {"checked", "posting", "answered"} => Live(v, d)
    BY RunningIsLive
  <1> QED  BY <1>1, <1>2 DEF LeaseInv, OneLease

\* No step gives back the lease of a delivery that is not held.
LEMMA HeldShrinks == [Next]_vars => Held' \subseteq Held
  <1> SUFFICES ASSUME [Next]_vars  PROVE  overrun \subseteq overrun'
    BY DEF Held
  <1>1. ASSUME NEW d \in Deliveries, Enqueue(d) \/ Redeliver(d) \/ Purge(d)  PROVE  overrun' = overrun
    BY <1>1 DEF Enqueue, Redeliver, Purge, ghostVars
  <1>2. ASSUME NEW w \in Workers, Claim(w) \/ Crash(w)  PROVE  overrun' = overrun
    BY <1>2 DEF Claim, Crash, ghostVars
  <1>3. ASSUME NEW w \in Workers, NEW d \in Deliveries, AttemptStep(w, d) \/ AttemptRaises(w, d)
        PROVE  overrun' = overrun
    BY <1>3 DEF AttemptStep, AttemptRaises, CheckLease, Load, Answer, Commit, ghostVars
  <1>4. ASSUME UpdateSubscription \/ RotateSecret \/ RevokePartner \/ DeleteSubscription \/ UNCHANGED vars
        PROVE  overrun' = overrun
    BY <1>4 DEF UpdateSubscription, RotateSecret, RevokePartner, DeleteSubscription, vars, ghostVars
  <1>5. CASE Tick
    BY <1>5 DEF Tick
  <1> QED  BY <1>1, <1>2, <1>3, <1>4, <1>5 DEF Next

\* A step of an attempt touches no other.
LEMMA OneAttempt ==
    ASSUME job \in [Workers -> [Deliveries -> JobSet]], NEW w \in Workers, NEW d \in Deliveries,
           AttemptStep(w, d) \/ AttemptRaises(w, d)
    PROVE  \A v \in Workers, e \in Deliveries : (v # w \/ e # d) => job'[v][e] = job[v][e]
  <1> DEFINE Touched(x) == job' = [job EXCEPT ![w][d] = x]
             Checked == IF AttemptTimeout >= job[w][d].lease THEN NoJob
                        ELSE [job[w][d] EXCEPT !.phase = "checked", !.timer = MaxStall]
             Posting == [job[w][d] EXCEPT !.phase = "posting", !.timer = AttemptTimeout,
                                          !.attempts = row[d].attempts + 1]
  <1>1. ASSUME NEW x, Touched(x)
        PROVE  \A v \in Workers, e \in Deliveries : (v # w \/ e # d) => job'[v][e] = job[v][e]
    BY <1>1
  <1>2. CASE CheckLease(w, d)
    <2>1. Touched(Checked)
      BY <1>2 DEF CheckLease
    <2> HIDE DEF Touched, Checked
    <2> QED  BY <1>1, <2>1
  <1>3. CASE Load(w, d)
    <2>1. \/ Touched(NoJob) \/ Touched(Posting)
          \/ Touched(Decided(job[w][d], "ineligible", row[d].attempts))
          \/ Touched(Decided(job[w][d], "no key", row[d].attempts + 1))
      BY <1>3 DEF Load
    <2> HIDE DEF Touched, Posting
    <2> QED  BY <1>1, <2>1
  <1>4. CASE Answer(w, d)
    <2>1. PICK o \in {"ok", "failed"} : Touched(Decided(job[w][d], o, job[w][d].attempts))
      BY <1>4 DEF Answer
    <2> HIDE DEF Touched
    <2> QED  BY <1>1, <2>1
  <1>5. CASE Commit(w, d) \/ AttemptRaises(w, d)
    <2>1. Touched(NoJob)
      BY <1>5 DEF Commit, AttemptRaises
    <2> HIDE DEF Touched
    <2> QED  BY <1>1, <2>1
  <1> QED  BY <1>2, <1>3, <1>4, <1>5 DEF AttemptStep

\* Steps that send, count and lose nothing.
LEMMA PostsSame ==
    ASSUME PostsInv, Held' \subseteq Held,
           \A d \in Held :
              \/ row'[d].status = "deleted"
              \/ /\ row'[d].status = row[d].status /\ row'[d].attempts = row[d].attempts
                 /\ posts'[d] = posts[d] /\ lost'[d] = lost[d],
           \A w \in Workers, d \in Held :
              /\ Counting(w, d)' => Counting(w, d) /\ job'[w][d].attempts = job[w][d].attempts
              /\ InFlight(w, d) => InFlight(w, d)'
    PROVE  PostsInv'
  BY DEF PostsInv

\* Steps of other deliveries count nothing.
LEMMA PostsElsewhere ==
    ASSUME PostsInv, Held' \subseteq Held,
           \A d \in Held :
              /\ row'[d] = row[d] /\ posts'[d] = posts[d] /\ lost'[d] = lost[d]
              /\ \A w \in Workers : job'[w][d] = job[w][d]
    PROVE  PostsInv'
  BY PostsSame DEF Counting, InFlight, Phase

\* One attempt changes, and its row, posts and lost with it.
LEMMA PostsOne ==
    ASSUME PostsInv, Held' \subseteq Held, NEW w \in Workers, NEW d \in Held,
           \A e \in Held : e # d => row'[e] = row[e] /\ posts'[e] = posts[e] /\ lost'[e] = lost[e],
           \A v \in Workers, e \in Held : (v # w \/ e # d) => job'[v][e] = job[v][e],
           row'[d].status = "none" => posts'[d] = 0,
           \A v \in Workers :
              Counting(v, d)' /\ row'[d].status = "pending" => job'[v][d].attempts = row'[d].attempts + 1,
           row'[d].status \notin {"none", "deleted"} =>
              \/ posts'[d] <= row'[d].attempts + lost'[d]
              \/ /\ posts'[d] <= row'[d].attempts + lost'[d] + 1
                 /\ InFlight(w, d)'
    PROVE  PostsInv'
  <1>1. \A v \in Workers, e \in Held :
           e # d => (Counting(v, e)' <=> Counting(v, e)) /\ (InFlight(v, e)' <=> InFlight(v, e))
    BY DEF Counting, InFlight, Phase
  <1> QED  BY <1>1 DEF PostsInv

\* With nobody in flight, what is out is counted.
LEMMA NothingOut ==
    ASSUME PostsInv, NEW d \in Held, row[d].status \notin {"none", "deleted"},
           \A w \in Workers : ~InFlight(w, d)
    PROVE  posts[d] <= row[d].attempts + lost[d]
  BY DEF PostsInv

\* A worker that dies, or an attempt that raises, loses at most its request.
LEMMA LostRequest ==
    ASSUME NEW w \in Workers, NEW d \in Deliveries
    PROVE  Cardinality({d} \cap Uncounted(job[w])) = IF InFlight(w, d) THEN 1 ELSE 0
  <1>1. {d} \cap Uncounted(job[w]) = IF InFlight(w, d) THEN {d} ELSE {}
    BY DEF Uncounted, InFlight, Phase
  <1> QED  BY <1>1, FS_EmptySet, FS_Singleton

\* Before any delivery, nothing is sent.
LEMMA PostsInit == Init => PostsInv
  BY DEF Init, PostsInv, NoRow, NoJob, Counting, InFlight, Phase, Held

\* Every step keeps the count of the requests.
LEMMA PostsNext == TypeOK /\ AttemptsLeft /\ LeaseInv /\ PostsInv /\ [Next]_vars => PostsInv'
  <1> SUFFICES ASSUME TypeOK, AttemptsLeft, LeaseInv, PostsInv, [Next]_vars
               PROVE  PostsInv'
    OBVIOUS
  <1>a. /\ row \in [Deliveries -> RowSet] /\ job \in [Workers -> [Deliveries -> JobSet]]
        /\ posts \in [Deliveries -> Nat] /\ lost \in [Deliveries -> Nat]
    BY DEF TypeOK, RowSet, JobSet
  <1>b. \A d \in Deliveries : row[d].attempts \in Nat /\ posts[d] \in Nat /\ lost[d] \in Nat
    BY <1>a, OutboxAssumption DEF RowSet
  <1>c. NoJob.phase = "none" /\ QueuedJob.phase = "queued"
    BY DEF NoJob, QueuedJob
  <1>e. Held' \subseteq Held /\ Held \subseteq Deliveries
    BY HeldShrinks DEF Held
  <1> USE <1>e
  <1>d. ASSUME UNCHANGED <<row, job, posts, lost>>  PROVE  PostsInv'
    BY <1>d, PostsElsewhere
  <1>1. ASSUME NEW d \in Held, Enqueue(d)  PROVE  PostsInv'
    <2>1. /\ row[d].status = "none" /\ row[d] \in RowSet
          /\ row' = [row EXCEPT ![d].status = "pending"] /\ UNCHANGED <<job, posts, lost>>
      BY <1>1, <1>a DEF Enqueue, ghostVars
    <2>2. /\ row'[d].status = "pending" /\ row'[d].attempts = row[d].attempts
          /\ \A e \in Deliveries : e # d => row'[e] = row[e]
      BY <1>a, <2>1 DEF RowSet
    <2>3. posts[d] = 0
      BY <2>1 DEF PostsInv
    <2>4. \A w \in Workers : ~Counting(w, d)
      BY <2>1, OneInFlight
    <2>5. ~\E w \in Workers : Counting(w, d)'
      BY <2>1, <2>4 DEF Counting, Phase
    <2>6. \A w \in Workers, e \in Deliveries :
             (Counting(w, e)' <=> Counting(w, e)) /\ (InFlight(w, e)' <=> InFlight(w, e))
      BY <2>1 DEF Counting, InFlight, Phase
    <2> QED  BY <1>b, <2>1, <2>2, <2>3, <2>5, <2>6 DEF PostsInv
  <1>2. ASSUME NEW d \in Held, Redeliver(d)  PROVE  PostsInv'
    <2>1. /\ row[d].status \in Settled /\ UNCHANGED job
          /\ row' = [row EXCEPT ![d] = [NoRow EXCEPT !.status = "pending"]]
          /\ posts' = [posts EXCEPT ![d] = 0] /\ lost' = [lost EXCEPT ![d] = 0]
      BY <1>2 DEF Redeliver
    <2>2. /\ row'[d].status = "pending" /\ row'[d].attempts = 0 /\ posts'[d] = 0 /\ lost'[d] = 0
          /\ \A e \in Deliveries : e # d => row'[e] = row[e] /\ posts'[e] = posts[e] /\ lost'[e] = lost[e]
      BY <1>a, <2>1 DEF NoRow
    <2>3. \A w \in Workers : ~Counting(w, d)
      BY <2>1, OneInFlight DEF Settled
    <2>4. \A w \in Workers, e \in Deliveries :
             (Counting(w, e)' <=> Counting(w, e)) /\ (InFlight(w, e)' <=> InFlight(w, e))
      BY <2>1 DEF Counting, InFlight, Phase
    <2> QED  BY <1>b, <2>1, <2>2, <2>3, <2>4 DEF PostsInv
  <1>3. ASSUME NEW d \in Deliveries, Purge(d)  PROVE  PostsInv'
    <2>1. row' = [row EXCEPT ![d] = [NoRow EXCEPT !.status = "deleted"]] /\ UNCHANGED <<job, posts, lost>>
      BY <1>3 DEF Purge, ghostVars
    <2>2. \A e \in Deliveries : row'[e] = row[e] \/ row'[e].status = "deleted"
      BY <1>a, <2>1 DEF NoRow
    <2> QED  BY <2>1, <2>2, PostsSame DEF Counting, InFlight, Phase
  <1>4. ASSUME NEW w \in Workers, Claim(w)  PROVE  PostsInv'
    <2>1. PICK claimed \in SUBSET Due :
             /\ row' = [d \in Deliveries |->
                           IF d \in claimed THEN [row[d] EXCEPT !.due = ClaimLease] ELSE row[d]]
             /\ job' = [job EXCEPT ![w] = [d \in Deliveries |->
                           IF d \in claimed THEN QueuedJob ELSE NoJob]]
      BY <1>4 DEF Claim
    <2>2. UNCHANGED <<posts, lost>> /\ \A d \in Deliveries : Phase(w, d) = "none"
      BY <1>4 DEF Claim, ghostVars, Idle, Phase
    <2>3. \A d \in Deliveries : row'[d].status = row[d].status /\ row'[d].attempts = row[d].attempts
      BY <1>a, <2>1 DEF RowSet
    <2>4. \A v \in Workers, d \in Deliveries :
             \/ v # w /\ job'[v][d] = job[v][d]
             \/ v = w /\ job'[v][d].phase \in {"queued", "none"}
      BY <1>a, <1>c, <2>1
    <2> QED  BY <2>2, <2>3, <2>4, PostsSame DEF Counting, InFlight, Phase
  <1>5. ASSUME NEW w \in Workers, Crash(w)  PROVE  PostsInv'
    <2>1. /\ UNCHANGED <<row, posts>>
          /\ \A d \in Deliveries : lost'[d] = lost[d] + (IF InFlight(w, d) THEN 1 ELSE 0)
      BY <1>5, LostRequest DEF Crash
    <2>2. \A v \in Workers, d \in Deliveries :
             \/ v # w /\ job'[v][d] = job[v][d]
             \/ v = w /\ job'[v][d].phase = "none"
      BY <1>5, <1>a, <1>c DEF Crash
    <2>3. \A v \in Workers, d \in Deliveries :
             /\ Counting(v, d)' => Counting(v, d) /\ job'[v][d].attempts = job[v][d].attempts
             /\ v # w /\ InFlight(v, d) => InFlight(v, d)'
      BY <2>2 DEF Counting, InFlight, Phase
    <2> QED  BY <1>b, <2>1, <2>3 DEF PostsInv
  <1>6. ASSUME NEW w \in Workers, NEW d \in Held, CheckLease(w, d)  PROVE  PostsInv'
    <2>1. Phase(w, d) = "queued" /\ UNCHANGED <<row, posts, lost>> /\ job[w][d] \in JobSet
      BY <1>6, <1>a DEF CheckLease, ghostVars, Phase
    <2>2. \A v \in Workers, e \in Deliveries :
             \/ (v # w \/ e # d) /\ job'[v][e] = job[v][e]
             \/ v = w /\ e = d /\ job'[v][e].phase \in {"checked", "none"}
      BY <1>6, <1>a, <1>c, <2>1 DEF CheckLease, JobSet
    <2> QED  BY <2>1, <2>2, PostsSame DEF Counting, InFlight, Phase
  <1>7. ASSUME NEW w \in Workers, NEW d \in Held, Load(w, d)  PROVE  PostsInv'
    <2> DEFINE j == job'[w][d]
    <2>1. Phase(w, d) = "checked" /\ UNCHANGED <<row, lost>>
      BY <1>7 DEF Load, Phase
    <2>a. job[w][d] \in JobSet /\ row[d].attempts \in Nat
      BY <1>a, <1>b
    <2> DEFINE n == row[d].attempts
               Posting == [job[w][d] EXCEPT !.phase = "posting", !.timer = AttemptTimeout, !.attempts = n + 1]
               Refused == Decided(job[w][d], "ineligible", n)
               Keyless == Decided(job[w][d], "no key", n + 1)
               Made(k) == \/ UNCHANGED posts /\ k.phase = "none"
                          \/ UNCHANGED posts /\ k.phase = "answered" /\ k.outcome = "ineligible"
                          \/ /\ UNCHANGED posts /\ k.phase = "answered" /\ k.outcome = "no key"
                             /\ k.attempts = n + 1
                          \/ /\ posts' = [posts EXCEPT ![d] = @ + 1] /\ k.phase = "posting"
                             /\ k.attempts = n + 1
    <2>b. /\ Posting.phase = "posting" /\ Posting.attempts = n + 1
          /\ Refused.phase = "answered" /\ Refused.outcome = "ineligible"
          /\ Keyless.phase = "answered" /\ Keyless.outcome = "no key" /\ Keyless.attempts = n + 1
      BY <2>a DEF Decided, JobSet
    <2>c. \/ UNCHANGED posts /\ job' = [job EXCEPT ![w][d] = NoJob]
          \/ UNCHANGED posts /\ job' = [job EXCEPT ![w][d] = Refused]
          \/ UNCHANGED posts /\ job' = [job EXCEPT ![w][d] = Keyless]
          \/ posts' = [posts EXCEPT ![d] = @ + 1] /\ job' = [job EXCEPT ![w][d] = Posting]
      BY <1>7 DEF Load
    <2> HIDE DEF Posting, Refused, Keyless
    <2>d. PICK k : job' = [job EXCEPT ![w][d] = k] /\ Made(k)
      BY <1>c, <2>b, <2>c
    <2>2. /\ \A v \in Workers, e \in Deliveries : (v # w \/ e # d) => job'[v][e] = job[v][e]
          /\ Made(j)
      <3> HIDE DEF Made
      <3> QED  BY <1>a, <2>d
    <2>3. \A v \in Workers : ~Counting(v, d)
      <3>1. \A v \in Workers : Counting(v, d) => w = v
        BY <2>1, OneInFlight
      <3> QED  BY <2>1, <3>1 DEF Counting
    <2> HIDE DEF j
    <2>4. \A v \in Workers : v # w => ~Counting(v, d)'
      BY <2>2, <2>3 DEF Counting, Phase
    <2>5. CASE UNCHANGED posts /\ (j.phase = "none" \/ (j.phase = "answered" /\ j.outcome = "ineligible"))
      <3>1. ~Counting(w, d)' /\ ~InFlight(w, d)
        BY <2>1, <2>5 DEF Counting, InFlight, Phase, j
      <3> QED  BY <2>1, <2>2, <2>5, <3>1, PostsSame DEF Counting, InFlight, Phase
    <2>6. CASE j.attempts = row[d].attempts + 1
      <3>1. row[d].status \notin {"none", "deleted"} => posts[d] <= row[d].attempts + lost[d]
        BY <2>3, NothingOut DEF Counting, InFlight
      <3>2. \/ posts' = posts
            \/ posts'[d] = posts[d] + 1 /\ InFlight(w, d)' /\ \A e \in Deliveries : e # d => posts'[e] = posts[e]
        BY <1>a, <2>2 DEF InFlight, Phase, j
      <3>3. row[d].status # "none"
        BY <2>1, RunningIsLive
      <3>4. \A e \in Deliveries : e # d => row'[e] = row[e] /\ posts'[e] = posts[e] /\ lost'[e] = lost[e]
        BY <2>1, <3>2
      <3>5. /\ row'[d].status = "none" => posts'[d] = 0
            /\ \A v \in Workers :
                  Counting(v, d)' /\ row'[d].status = "pending" => job'[v][d].attempts = row'[d].attempts + 1
        BY <2>1, <2>4, <2>6, <3>3 DEF j
      <3>6. row'[d].status \notin {"none", "deleted"} =>
              \/ posts'[d] <= row'[d].attempts + lost'[d]
              \/ posts'[d] <= row'[d].attempts + lost'[d] + 1 /\ InFlight(w, d)'
        BY <1>b, <2>1, <3>1, <3>2
      <3> QED  BY <2>2, <3>4, <3>5, <3>6, PostsOne
    <2> QED  BY <2>2, <2>5, <2>6
  <1>8. ASSUME NEW w \in Workers, NEW d \in Held, Answer(w, d)  PROVE  PostsInv'
    <2>1. Phase(w, d) = "posting" /\ UNCHANGED <<row, posts, lost>> /\ job[w][d] \in JobSet
      BY <1>8, <1>a DEF Answer, Phase
    <2>2. \A v \in Workers, e \in Deliveries :
             \/ (v # w \/ e # d) /\ job'[v][e] = job[v][e]
             \/ /\ v = w /\ e = d
                /\ job'[v][e].phase = "answered" /\ job'[v][e].outcome \in {"ok", "failed"}
                /\ job'[v][e].attempts = job[v][e].attempts
      BY <1>8, <1>a, <2>1 DEF Answer, Decided, JobSet
    <2> QED  BY <2>1, <2>2, PostsSame DEF Counting, InFlight, Phase
  <1>9. ASSUME NEW w \in Workers, NEW d \in Held, Commit(w, d)  PROVE  PostsInv'
    <2> DEFINE j == job[w][d]
    <2>1. /\ Phase(w, d) = "answered" /\ UNCHANGED <<posts, lost>>
          /\ j \in JobSet /\ row[d] \in RowSet
      BY <1>9, <1>a DEF Commit, Phase, ghostVars
    <2>2. /\ \A v \in Workers, e \in Deliveries : (v # w \/ e # d) => job'[v][e] = job[v][e]
          /\ job'[w][d].phase = "none"
      BY <1>9, <1>a, <1>c DEF Commit
    <2>3. row[d].status \in {"pending", "deleted"}
      BY <2>1, RunningIsLive
    <2>4. CASE row[d].status = "deleted"
      <3>1. row' = row
        BY <1>9, <2>4 DEF Commit
      <3> QED  BY <2>1, <2>2, <2>4, <3>1, PostsOne DEF Counting, Phase
    <2>5. CASE row[d].status = "pending"
      <3>1. row'[d] = SettledRow(row[d], j) /\ \A e \in Deliveries : e # d => row'[e] = row[e]
        BY <1>9, <1>a, <2>5 DEF Commit
      <3>2. row'[d].status # "none"
            /\ row'[d].attempts = IF j.outcome = "ineligible" THEN row[d].attempts ELSE j.attempts
        <4> HIDE DEF j
        <4>1. /\ Failed(row[d], j.attempts).attempts = j.attempts
              /\ Failed(row[d], j.attempts).status \in {"pending", "dead"}
          BY <2>1, <2>5 DEF Failed, RowSet
        <4> QED  BY <2>1, <2>5, <3>1, <4>1 DEF SettledRow, RowSet
      <3>3. \A v \in Workers : v # w => ~Counting(v, d)'
        <4>1. \A v \in Workers : Counting(v, d) => w = v
          BY <2>1, OneInFlight
        <4> QED  BY <2>2, <4>1 DEF Counting, Phase
      <3>4. posts[d] <= row'[d].attempts + lost[d]
        <4>1. CASE j.outcome = "ineligible"
          <5>1. \A v \in Workers : ~InFlight(v, d)
            <6>1. \A v \in Workers : InFlight(v, d) => Counting(v, d) /\ w = v
              BY <2>1, OneInFlight DEF Counting, InFlight
            <6> QED  BY <2>1, <4>1, <6>1 DEF InFlight
          <5> QED  BY <2>5, <3>2, <4>1, <5>1, NothingOut
        <4>2. CASE j.outcome # "ineligible"
          <5>1. j.attempts = row[d].attempts + 1
            BY <2>1, <2>5, <4>2 DEF PostsInv, Counting
          <5>2. posts[d] <= row[d].attempts + lost[d] + 1
            BY <1>b, <2>5 DEF PostsInv
          <5> QED  BY <1>b, <3>2, <4>2, <5>1, <5>2
        <4> QED  BY <4>1, <4>2
      <3>5. ~Counting(w, d)'
        BY <2>2 DEF Counting, Phase
      <3> QED  BY <2>1, <2>2, <3>1, <3>2, <3>3, <3>4, <3>5, PostsOne
    <2> QED  BY <2>3, <2>4, <2>5
  <1>10. ASSUME NEW w \in Workers, NEW d \in Held, AttemptRaises(w, d)  PROVE  PostsInv'
    <2>1. /\ UNCHANGED <<row, posts>>
          /\ lost'[d] = lost[d] + (IF InFlight(w, d) THEN 1 ELSE 0)
          /\ \A e \in Deliveries : e # d => lost'[e] = lost[e]
      BY <1>10, <1>a, LostRequest DEF AttemptRaises
    <2>2. \A v \in Workers, e \in Deliveries :
             \/ (v # w \/ e # d) /\ job'[v][e] = job[v][e]
             \/ v = w /\ e = d /\ job'[v][e].phase = "none"
      BY <1>10, <1>a, <1>c DEF AttemptRaises
    <2>3. \A v \in Workers, e \in Deliveries :
             /\ Counting(v, e)' => Counting(v, e) /\ job'[v][e].attempts = job[v][e].attempts
             /\ (v # w \/ e # d) /\ InFlight(v, e) => InFlight(v, e)'
      BY <2>2 DEF Counting, InFlight, Phase
    <2> QED  BY <1>b, <2>1, <2>3 DEF PostsInv
  <1>11. ASSUME UpdateSubscription \/ RotateSecret \/ RevokePartner \/ UNCHANGED vars  PROVE  PostsInv'
    BY <1>11, <1>d DEF UpdateSubscription, RotateSecret, RevokePartner, vars, ghostVars
  <1>12. ASSUME DeleteSubscription  PROVE  PostsInv'
    <2>1. (\A d \in Deliveries : row'[d].status = "deleted") /\ UNCHANGED <<job, posts, lost>>
      BY <1>12 DEF DeleteSubscription, NoRow, ghostVars
    <2> QED  BY <2>1, PostsSame DEF Counting, InFlight, Phase
  <1>13. ASSUME Tick  PROVE  PostsInv'
    <2>1. ASSUME NEW w \in Workers, NEW d \in Deliveries
          PROVE  /\ job'[w][d].phase = job[w][d].phase /\ job'[w][d].outcome = job[w][d].outcome
                 /\ job'[w][d].attempts = job[w][d].attempts
      <3>1. job[w][d] \in JobSet
        BY <1>a
      <3>2. job'[w][d] = [job[w][d] EXCEPT !.lease = Less(@), !.timer = Less(@),
                                           !.slow = HeldUp(job[w][d])]
        BY <1>13 DEF Tick
      <3> QED  BY <3>1, <3>2 DEF JobSet
    <2>2. \A d \in Deliveries : row'[d].status = row[d].status /\ row'[d].attempts = row[d].attempts
      <3>1. \A d \in Deliveries : row[d] \in RowSet
        BY <1>a
      <3> QED  BY <1>13, <3>1 DEF Tick, RowSet
    <2>3. UNCHANGED <<posts, lost>>
      BY <1>13 DEF Tick
    <2> QED  BY <2>1, <2>2, <2>3, PostsSame DEF Counting, InFlight, Phase
  <1>14. ASSUME NEW d \in Deliveries \ Held, Enqueue(d) \/ Redeliver(d)  PROVE  PostsInv'
    <2>1. \A e \in Deliveries : e # d => row'[e] = row[e] /\ posts'[e] = posts[e] /\ lost'[e] = lost[e]
      BY <1>14, <1>a DEF Enqueue, Redeliver, ghostVars
    <2>2. job' = job
      BY <1>14 DEF Enqueue, Redeliver
    <2> QED  BY <2>1, <2>2, PostsElsewhere
  <1>15. ASSUME NEW w \in Workers, NEW d \in Deliveries \ Held,
                AttemptStep(w, d) \/ AttemptRaises(w, d)
         PROVE  PostsInv'
    <2>1. \A e \in Deliveries : e # d => row'[e] = row[e] /\ posts'[e] = posts[e] /\ lost'[e] = lost[e]
      <3>1. CASE CheckLease(w, d)
        BY <1>a, <3>1 DEF CheckLease, ghostVars
      <3>2. CASE Load(w, d)
        BY <1>a, <3>2 DEF Load, ghostVars
      <3>3. CASE Answer(w, d)
        BY <1>a, <3>3 DEF Answer, ghostVars
      <3>4. CASE Commit(w, d)
        BY <1>a, <3>4 DEF Commit, ghostVars
      <3>5. CASE AttemptRaises(w, d)
        BY <1>a, <3>5 DEF AttemptRaises, ghostVars
      <3> QED  BY <1>15, <3>1, <3>2, <3>3, <3>4, <3>5 DEF AttemptStep
    <2>2. \A v \in Workers, e \in Deliveries : e # d => job'[v][e] = job[v][e]
      BY <1>15, <1>a, OneAttempt
    <2> QED  BY <2>1, <2>2, PostsElsewhere
  <1>16. ASSUME NEW w \in Workers, NEW d \in Held, AttemptStep(w, d) \/ AttemptRaises(w, d)
         PROVE  PostsInv'
    BY <1>6, <1>7, <1>8, <1>9, <1>10, <1>16 DEF AttemptStep
  <1> QED
    BY <1>1, <1>2, <1>3, <1>4, <1>5, <1>11, <1>12, <1>13, <1>14, <1>15, <1>16
    DEF Next

\* PS_WEBHOOK_MAX_ATTEMPTS bounds a delivery's requests, up to those whose
\* worker died before its commit, for any number of workers, claims that run
\* late, redeliveries and removals in between, until the database holds up an
\* attempt past the end of its lease.
THEOREM RequestsAreBounded == Spec => []PostsAreBounded
  <1>1. Init => PostsInv
    BY PostsInit
  <1>2. TypeOK /\ AttemptsLeft /\ LeaseInv /\ PostsInv /\ [Next]_vars => PostsInv'
    BY PostsNext
  <1>3. TypeOK /\ AttemptsLeft /\ LeaseInv /\ PostsInv => PostsAreBounded
    <2> SUFFICES ASSUME TypeOK, AttemptsLeft, LeaseInv, PostsInv,
                        NEW d \in Deliveries, d \notin overrun,
                        row[d].status \notin {"none", "deleted"}
                 PROVE  /\ posts[d] <= row[d].attempts + lost[d] + Open(d)
                        /\ posts[d] <= MaxAttempts + lost[d]
      BY DEF PostsAreBounded
    <2>a. d \in Held
      BY DEF Held
    <2> USE <2>a
    <2>1. /\ posts[d] \in Nat /\ lost[d] \in Nat /\ MaxAttempts \in Nat
          /\ row[d].attempts \in 0 .. MaxAttempts /\ row[d].attempts \in Nat
      BY OutboxAssumption DEF TypeOK
    <2> DEFINE out == {w \in Workers : InFlight(w, d)}
    <2>2. Open(d) = Cardinality(out)
      BY DEF Open, Uncounted, InFlight, Phase
    <2>3. CASE out = {}
      <3>1. posts[d] <= row[d].attempts + lost[d] /\ Open(d) = 0
        BY <2>2, <2>3, NothingOut, FS_EmptySet
      <3> QED  BY <2>1, <3>1
    <2>4. ASSUME NEW w \in Workers, InFlight(w, d)
          PROVE  /\ posts[d] <= row[d].attempts + lost[d] + Open(d)
                 /\ posts[d] <= MaxAttempts + lost[d]
      <3>1. Counting(w, d)
        BY <2>4 DEF Counting, InFlight
      <3>2. \A v \in Workers : InFlight(v, d) => v = w
        BY <3>1, OneInFlight DEF InFlight
      <3>3. out = {w}
        BY <2>4, <3>2
      <3>4. Open(d) = 1
        BY <2>2, <3>3, FS_Singleton
      <3>5. row[d].status = "pending"
        BY <3>1, OneInFlight
      <3>6. row[d].attempts < MaxAttempts
        BY <3>5 DEF AttemptsLeft
      <3>7. posts[d] <= row[d].attempts + lost[d] + 1
        BY <2>1 DEF PostsInv
      <3> QED  BY <2>1, <3>4, <3>6, <3>7
    <2> QED  BY <2>3, <2>4
  <1> QED  BY <1>1, <1>2, <1>3, LeaseInductive, PTL DEF Spec

-----------------------------------------------------------------------------
\* The contract.

\* An attempt belongs to a row that was queued.
JobsHaveRows ==
    \A w \in Workers, d \in Deliveries : Phase(w, d) # "none" => row[d].status # "none"

\* No row is forgotten, and no attempt begins without one.
LEMMA JobsHaveRowsNext == TypeOK /\ JobsHaveRows /\ [Next]_vars => JobsHaveRows'
  <1> SUFFICES ASSUME TypeOK, JobsHaveRows, [Next]_vars  PROVE  JobsHaveRows'
    OBVIOUS
  <1>a. row \in [Deliveries -> RowSet] /\ job \in [Workers -> [Deliveries -> JobSet]]
    BY DEF TypeOK, RowSet, JobSet
  <1>b. ASSUME \A d \in Deliveries : row'[d].status = "none" => row[d].status = "none",
               \A w \in Workers, d \in Deliveries :
                   job'[w][d].phase # "none" => job[w][d].phase # "none" \/ row'[d].status # "none"
        PROVE  JobsHaveRows'
    BY <1>b DEF JobsHaveRows, Phase
  <1>c. NoJob.phase = "none"
    BY DEF NoJob
  <1> USE <1>a
  <1>1. ASSUME NEW d \in Deliveries, Enqueue(d) \/ Redeliver(d) \/ Purge(d)  PROVE  JobsHaveRows'
    <2>1. \A e \in Deliveries : row'[e] = row[e] \/ row'[e].status \in {"pending", "deleted"}
      <3>1. row[d] \in RowSet
        OBVIOUS
      <3> QED  BY <1>1, <3>1 DEF Enqueue, Redeliver, Purge, NoRow, RowSet
    <2>2. job' = job
      BY <1>1 DEF Enqueue, Redeliver, Purge
    <2> QED  BY <1>b, <2>1, <2>2
  <1>2. ASSUME NEW w \in Workers, Claim(w)  PROVE  JobsHaveRows'
    <2>1. PICK claimed \in SUBSET Due :
             /\ row' = [d \in Deliveries |->
                           IF d \in claimed THEN [row[d] EXCEPT !.due = ClaimLease] ELSE row[d]]
             /\ job' = [job EXCEPT ![w] = [d \in Deliveries |->
                           IF d \in claimed THEN QueuedJob ELSE NoJob]]
      BY <1>2 DEF Claim
    <2>2. \A d \in Deliveries : row'[d].status = row[d].status
      BY <2>1 DEF RowSet
    <2>3. \A v \in Workers, d \in Deliveries :
             \/ job'[v][d] = job[v][d] \/ job'[v][d] = NoJob \/ d \in claimed
      BY <2>1
    <2> QED  BY <1>b, <1>c, <2>2, <2>3 DEF Due
  <1>3. ASSUME NEW w \in Workers, Crash(w)  PROVE  JobsHaveRows'
    <2>1. \A v \in Workers, d \in Deliveries : job'[v][d] \in {job[v][d], NoJob}
      BY <1>3 DEF Crash
    <2>2. row' = row
      BY <1>3 DEF Crash
    <2> QED  BY <1>b, <1>c, <2>1, <2>2
  <1>4. ASSUME NEW w \in Workers, NEW d \in Deliveries, AttemptStep(w, d) \/ AttemptRaises(w, d)
        PROVE  JobsHaveRows'
    <2>1. job[w][d].phase # "none"
      BY <1>4 DEF AttemptStep, CheckLease, Load, Answer, Commit, AttemptRaises
    <2>2. \A v \in Workers, e \in Deliveries : (v # w \/ e # d) => job'[v][e] = job[v][e]
      BY <1>4, OneAttempt
    <2>3. \A e \in Deliveries : row'[e].status = "none" => row[e].status = "none"
      <3>1. CASE row' = row
        BY <3>1
      <3>2. CASE Commit(w, d) /\ row[d].status # "deleted"
        <4> DEFINE r == SettledRow(row[d], job[w][d])
        <4>1. row' = [row EXCEPT ![d] = r]
          BY <3>2 DEF Commit
        <4>2. row[d] \in RowSet
          OBVIOUS
        <4>3. r.status \in {row[d].status, "succeeded", "dead"}
          BY <4>2 DEF SettledRow, Failed, RowSet
        <4> HIDE DEF r
        <4> QED  BY <4>1, <4>3
      <3> QED  BY <1>4, <3>1, <3>2 DEF AttemptStep, CheckLease, Load, Answer, Commit, AttemptRaises
    <2> QED  BY <1>b, <2>1, <2>2, <2>3
  <1>5. ASSUME UpdateSubscription \/ RotateSecret \/ RevokePartner \/ UNCHANGED vars  PROVE  JobsHaveRows'
    <2>1. row' = row /\ job' = job
      BY <1>5 DEF UpdateSubscription, RotateSecret, RevokePartner, vars
    <2> QED  BY <1>b, <2>1
  <1>6. ASSUME DeleteSubscription  PROVE  JobsHaveRows'
    <2>1. \A d \in Deliveries : row'[d].status = "deleted"
      BY <1>6 DEF DeleteSubscription, NoRow
    <2> QED  BY <1>b, <2>1
  <1>7. ASSUME Tick  PROVE  JobsHaveRows'
    <2>1. \A d \in Deliveries : row'[d].status = row[d].status
      <3>1. \A d \in Deliveries : row[d] \in RowSet
        OBVIOUS
      <3> QED  BY <1>7, <3>1 DEF Tick, RowSet
    <2>2. ASSUME NEW w \in Workers, NEW d \in Deliveries  PROVE  job'[w][d].phase = job[w][d].phase
      <3>1. job[w][d] \in JobSet
        OBVIOUS
      <3> QED  BY <1>7, <3>1 DEF Tick, JobSet
    <2> QED  BY <1>b, <2>1, <2>2
  <1> QED  BY <1>1, <1>2, <1>3, <1>4, <1>5, <1>6, <1>7 DEF Next

\* A step of the outbox is a step of the contract, or none.
LEMMA StepKeepsContract ==
    TypeOK /\ LeaseInv /\ JobsHaveRows /\ [Next]_vars => [Contract!Next]_(Contract!vars)
  <1> SUFFICES ASSUME TypeOK, LeaseInv, JobsHaveRows, [Next]_vars
               PROVE  [Contract!Next]_(Contract!vars)
    OBVIOUS
  <1> DEFINE st == [d \in Deliveries |-> row[d].status]
  <1>a. row \in [Deliveries -> RowSet] /\ job \in [Workers -> [Deliveries -> JobSet]]
    BY DEF TypeOK, RowSet, JobSet
  <1>b. ASSUME \A d \in Deliveries : row'[d].status = row[d].status, accepted' = accepted,
               overrun' = overrun
        PROVE  [Contract!Next]_(Contract!vars)
    <2>1. st' = st
      BY <1>b
    <2> QED  BY <1>b, <2>1 DEF Contract!vars
  <1>c. ASSUME NEW d \in Deliveries, NEW r, row' = [row EXCEPT ![d] = r]
        PROVE  st' = [st EXCEPT ![d] = r.status]
    BY <1>a, <1>c
  <1> USE <1>a
  <1>1. ASSUME NEW d \in Deliveries, Enqueue(d)  PROVE  Contract!Next
    <2>1. row[d] \in RowSet
      OBVIOUS
    <2>2. st' = [st EXCEPT ![d] = "pending"] /\ st[d] = "none" /\ accepted' = accepted /\ overrun' = overrun
      BY <1>1, <2>1 DEF Enqueue, ghostVars, RowSet
    <2>3. Contract!Queue(d)
      BY <2>2 DEF Contract!Queue
    <2> QED  BY <2>3 DEF Contract!Next
  <1>2. ASSUME NEW d \in Deliveries, Redeliver(d)  PROVE  Contract!Next
    <2>1. [NoRow EXCEPT !.status = "pending"].status = "pending"
      BY DEF NoRow
    <2>2. /\ st' = [st EXCEPT ![d] = "pending"]
          /\ st[d] \in Settled /\ accepted' = accepted \ {d} /\ overrun' = overrun
      BY <1>2, <1>c, <2>1 DEF Redeliver
    <2>3. Contract!Redeliver(d)
      BY <2>2 DEF Contract!Redeliver, Contract!Settled, Settled
    <2> QED  BY <2>3 DEF Contract!Next
  <1>3. ASSUME NEW d \in Deliveries, Purge(d)  PROVE  Contract!Next
    <2>1. [NoRow EXCEPT !.status = "deleted"].status = "deleted"
      BY DEF NoRow
    <2>2. st' = [st EXCEPT ![d] = "deleted"] /\ st[d] # "deleted" /\ accepted' = accepted /\ overrun' = overrun
      BY <1>3, <1>c, <2>1 DEF Purge, Settled, ghostVars
    <2>3. st' = [e \in Deliveries |-> IF e \in {d} THEN "deleted" ELSE st[e]]
      BY <2>2
    <2>4. Contract!Remove
      BY <2>2, <2>3 DEF Contract!Remove
    <2> QED  BY <2>4 DEF Contract!Next
  <1>4. ASSUME NEW w \in Workers, Claim(w)  PROVE  [Contract!Next]_(Contract!vars)
    <2>1. PICK claimed \in SUBSET Due :
             row' = [d \in Deliveries |->
                        IF d \in claimed THEN [row[d] EXCEPT !.due = ClaimLease] ELSE row[d]]
      BY <1>4 DEF Claim
    <2>2. ASSUME NEW d \in Deliveries  PROVE  row'[d].status = row[d].status
      <3>1. row[d] \in RowSet
        OBVIOUS
      <3> QED  BY <2>1, <3>1 DEF RowSet
    <2>3. accepted' = accepted /\ overrun' = overrun
      BY <1>4 DEF Claim, ghostVars
    <2> QED  BY <1>b, <2>2, <2>3
  <1>5. ASSUME NEW w \in Workers, NEW d \in Deliveries,
               CheckLease(w, d) \/ Load(w, d) \/ AttemptRaises(w, d)
        PROVE  [Contract!Next]_(Contract!vars)
    <2>1. row' = row /\ accepted' = accepted /\ overrun' = overrun
      BY <1>5 DEF CheckLease, Load, AttemptRaises, ghostVars
    <2> QED  BY <1>b, <2>1
  <1>6. ASSUME NEW w \in Workers, NEW d \in Deliveries, Answer(w, d)
        PROVE  [Contract!Next]_(Contract!vars)
    <2>1. st[d] \in {"pending", "deleted"} \/ d \in overrun
      <3>1. Phase(w, d) = "posting"
        BY <1>6 DEF Answer, Phase
      <3> QED  BY <3>1, RunningIsLive DEF Held
    <2>2. st' = st /\ overrun' = overrun /\ (accepted' = accepted \/ accepted' = accepted \cup {d})
      BY <1>6 DEF Answer
    <2>3. CASE accepted' = accepted
      BY <1>6, <1>b, <2>2, <2>3 DEF Answer
    <2>4. CASE accepted' = accepted \cup {d}
      <3>1. Contract!Receive(d)
        BY <2>1, <2>2, <2>4 DEF Contract!Receive
      <3> QED  BY <3>1 DEF Contract!Next
    <2> QED  BY <2>2, <2>3, <2>4
  <1>7. ASSUME NEW w \in Workers, NEW d \in Deliveries, Commit(w, d)
        PROVE  [Contract!Next]_(Contract!vars)
    <2> DEFINE j == job[w][d]
               r == SettledRow(row[d], j)
    <2>1. /\ row[d] \in RowSet /\ j \in JobSet /\ Phase(w, d) = "answered"
          /\ row[d].status \in {"pending", "deleted"} \/ d \in overrun
      <3>1. Phase(w, d) = "answered"
        BY <1>7 DEF Commit, Phase
      <3> QED  BY <3>1, RunningIsLive DEF Held
    <2>2. accepted' = accepted /\ overrun' = overrun
      BY <1>7 DEF Commit, ghostVars
    <2>3. CASE row[d].status = "deleted"
      BY <1>7, <1>b, <2>2, <2>3 DEF Commit
    <2>4. CASE row[d].status # "deleted"
      <3>1. /\ r.status \in {row[d].status, "succeeded", "dead"}
            /\ r.status = "succeeded" => j.outcome = "ok" \/ row[d].status = "succeeded"
        <4> HIDE DEF j
        <4>1. \/ r.status = "succeeded" /\ j.outcome = "ok"
              \/ r.status = "dead"
              \/ r = Failed(row[d], j.attempts)
          BY <2>1 DEF SettledRow, RowSet
        <4>2. Failed(row[d], j.attempts).status \in {row[d].status, "dead"}
          BY <2>1 DEF Failed, RowSet
        <4> QED  BY <4>1, <4>2
      <3>2. j.outcome = "ok" => d \in accepted \cup overrun
        BY <2>1 DEF LeaseInv, OkWasTaken, Held
      <3>3. st' = [st EXCEPT ![d] = r.status] /\ st[d] = row[d].status
        <4>1. row' = [row EXCEPT ![d] = r]
          BY <1>7, <2>4 DEF Commit
        <4> HIDE DEF r
        <4> QED  BY <1>c, <4>1
      <3> HIDE DEF r, st
      <3>4. CASE r.status = row[d].status
        <4>1. st' = st
          BY <3>3, <3>4 DEF st
        <4> QED  BY <2>2, <4>1 DEF Contract!vars, st
      <3>5. CASE row[d].status = "pending" /\ r.status = "succeeded"
        <4>1. Contract!Succeed(d)
          BY <2>2, <3>1, <3>2, <3>3, <3>5 DEF Contract!Succeed, st
        <4> QED  BY <4>1 DEF Contract!Next
      <3>6. CASE row[d].status = "pending" /\ r.status = "dead"
        <4>1. Contract!GiveUp(d)
          BY <2>2, <3>3, <3>6 DEF Contract!GiveUp, st
        <4> QED  BY <4>1 DEF Contract!Next
      <3>7. CASE row[d].status # "pending" /\ r.status \in Settled
        <4>1. row[d].status \in Settled
          BY <2>1, <2>4, <3>7 DEF JobsHaveRows, RowSet, Statuses, Settled
        <4>2. Contract!SettleAgain(d)
          BY <2>1, <2>2, <2>4, <3>3, <3>7, <4>1 DEF Contract!SettleAgain, Contract!Settled, Settled, st
        <4> QED  BY <4>2 DEF Contract!Next
      <3> QED  BY <3>1, <3>4, <3>5, <3>6, <3>7 DEF Settled
    <2> QED  BY <2>3, <2>4
  <1>8. ASSUME UpdateSubscription \/ RotateSecret \/ RevokePartner \/ UNCHANGED vars
        PROVE  [Contract!Next]_(Contract!vars)
    <2>1. accepted' = accepted /\ row' = row /\ overrun' = overrun
      BY <1>8 DEF UpdateSubscription, RotateSecret, RevokePartner, vars, ghostVars
    <2> QED  BY <1>b, <2>1
  <1>9. ASSUME DeleteSubscription  PROVE  [Contract!Next]_(Contract!vars)
    <2> DEFINE gone == {d \in Deliveries : row[d].status # "deleted"}
    <2>1. \A d \in Deliveries : row'[d].status = "deleted"
      BY <1>9 DEF DeleteSubscription, NoRow
    <2>2. accepted' = accepted /\ overrun' = overrun
      BY <1>9 DEF DeleteSubscription, ghostVars
    <2>3. CASE gone = {}
      BY <1>b, <2>1, <2>2, <2>3
    <2>4. CASE gone # {}
      <3>1. st' = [d \in Deliveries |-> IF d \in gone THEN "deleted" ELSE st[d]]
        BY <2>1
      <3>2. Contract!Remove
        BY <2>2, <2>4, <3>1 DEF Contract!Remove
      <3> QED  BY <3>2 DEF Contract!Next
    <2> QED  BY <2>3, <2>4
  <1>10. ASSUME Tick  PROVE  [Contract!Next]_(Contract!vars)
    <2>1. ASSUME NEW d \in Deliveries  PROVE  row'[d].status = row[d].status
      <3>1. row[d] \in RowSet
        OBVIOUS
      <3> QED  BY <1>10, <3>1 DEF Tick, RowSet
    <2>2. st' = st
      BY <2>1
    <2>3. /\ accepted' = accepted /\ overrun \subseteq overrun'
          /\ overrun' \subseteq Deliveries
      BY <1>10 DEF Tick, TypeOK
    <2>4. Contract!LoseClaims
      BY <2>2, <2>3 DEF Contract!LoseClaims
    <2> QED  BY <2>4 DEF Contract!Next
  <1>11. ASSUME NEW w \in Workers, Crash(w)  PROVE  [Contract!Next]_(Contract!vars)
    <2>1. row' = row /\ accepted' = accepted /\ overrun' = overrun
      BY <1>11 DEF Crash
    <2> QED  BY <1>b, <2>1
  <1> QED
    BY <1>1, <1>2, <1>3, <1>4, <1>5, <1>6, <1>7, <1>8, <1>9, <1>10, <1>11
    DEF Next, AttemptStep

\* The outbox implements the contract, for every instance: a settled delivery is
\* neither sent nor settled again by a worker that lost its claim, unless the
\* database held that worker up past the end of its lease, and then too nobody
\* but the admin puts it back in the queue.
THEOREM OutboxImplementsContract == Spec => OutboxKeepsContract
  <1>1. Init => Contract!Init /\ JobsHaveRows
    BY DEF Init, Contract!Init, NoRow, NoJob, JobsHaveRows, Phase
  <1>2. TypeOK /\ JobsHaveRows /\ [Next]_vars => JobsHaveRows'
    BY JobsHaveRowsNext
  <1>3. TypeOK /\ LeaseInv /\ JobsHaveRows /\ [Next]_vars => [Contract!Next]_(Contract!vars)
    BY StepKeepsContract
  <1> QED
    BY <1>1, <1>2, <1>3, LeaseInductive, PTL DEF Spec, OutboxKeepsContract, Contract!Spec
=============================================================================
