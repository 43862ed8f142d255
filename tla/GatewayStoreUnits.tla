-------------------------- MODULE GatewayStoreUnits --------------------------
(***************************************************************************)
(* The units of GatewayStores about which theorems are proved: credentials,*)
(* event sinks, policies and keys.  A unit's invariant says nothing of the *)
(* other units; the lemmas say that each of its steps keeps it, for every  *)
(* number of callers, every bound and every setting that the assumptions   *)
(* allow.                                                                  *)
(***************************************************************************)
EXTENDS Integers, Sequences, FiniteSetTheorems, SequenceTheorems, TLAPS

CONSTANTS
  Callers, None,
  Roles, HostRole, SourceRole, Hosts, CredentialTtl, CredentialLife, \* of AwsCredentials
  MaxCredentials,
  Reports, MaxLines, LogQueue, LogBatch, LogSlots, SpanQueue,        \* of EventSinks
  SpanBatch, SinkConfigs,
  Bundles, LocalBundles, Texts, BadTexts, PolicyCalls, Pulls,        \* of PolicyPull
  MaxEdits, LocalEdits, FileEdits, MaxFailures,
  Kids, Configured, Uris, TTLs, Cooldown, FetchTimeout, MaxTime,     \* of OidcKeys
  MaxRotations

VARIABLES
  config, fileCache, store, caller, request, now,
  platform, sinks, events, spans, lines, scheduled, waitingForDrain, written, lineDrops,
  logQueue, logTimer, logFlights, logDelivered, logDropped, spanQueue, spanTimer,
  spanFlights, spanDelivered, spanDropped, phase, late, drainer,
  served, edits, active, failing, rejected, pull, serving, failures, file, fileEdits,
  loaded, badText, reload, call,
  idp, rotations, keys, expiresAt, lastAttempt, jwksUri, lastError, inflight, fetches

\* The records of an exporter: sequences without repetitions, and what a flush
\* makes of them.

Elements(s) == {s[i] : i \in DOMAIN s}
Distinct(s) == \A i, j \in DOMAIN s : s[i] = s[j] => i = j

LEMMA ElementsOf ==
  ASSUME NEW S, NEW s \in Seq(S)
  PROVE  /\ Len(s) \in Nat /\ DOMAIN s = 1 .. Len(s)
         /\ \A i \in 1 .. Len(s) : s[i] \in S
         /\ Elements(s) \subseteq S /\ s \in Seq(Elements(s))
         /\ s = << >> <=> Len(s) = 0
  <1>1. Len(s) \in Nat /\ DOMAIN s = 1 .. Len(s) /\ s \in [1 .. Len(s) -> S]
    BY LenProperties
  <1>2. \A i \in 1 .. Len(s) : s[i] \in S
    BY <1>1
  <1>3. Elements(s) \subseteq S
    BY <1>1, <1>2 DEF Elements
  <1>4. s \in [1 .. Len(s) -> Elements(s)]
    BY <1>1 DEF Elements
  <1>5. s \in Seq(Elements(s))
    BY <1>1, <1>4, SeqDef
  <1>6. s = << >> <=> Len(s) = 0
    BY EmptySeq
  <1> QED
    BY <1>1, <1>2, <1>3, <1>5, <1>6

\* Part of a sequence.
LEMMA PartOf ==
  ASSUME NEW S, NEW s \in Seq(S), Distinct(s), NEW m \in 1 .. Len(s) + 1,
         NEW n \in 0 .. Len(s), m <= n + 1
  PROVE  LET part == SubSeq(s, m, n)
         IN  /\ part \in Seq(S) /\ Distinct(part) /\ Len(part) = n - m + 1
             /\ Elements(part) = {s[k] : k \in m .. n}
  <1> DEFINE part == SubSeq(s, m, n)
  <1>1. /\ Len(s) \in Nat /\ DOMAIN s = 1 .. Len(s) /\ m \in Int /\ n \in Int
        /\ \A i \in 1 .. Len(s) : s[i] \in S
    BY ElementsOf
  <1>2. \A i \in m .. n : s[i] \in S
    BY <1>1
  <1>3. /\ part \in Seq(S) /\ Len(part) = IF m <= n THEN n - m + 1 ELSE 0
        /\ \A i \in 1 .. n - m + 1 : part[i] = s[m + i - 1]
    BY <1>1, <1>2, SubSeqProperties
  <1> HIDE DEF part
  <1>4. Len(part) = n - m + 1
    BY <1>1, <1>3
  <1>5. DOMAIN part = 1 .. n - m + 1
    BY <1>3, <1>4, LenProperties
  <1>6. Distinct(part)
    <2> SUFFICES ASSUME NEW i \in 1 .. n - m + 1, NEW j \in 1 .. n - m + 1, part[i] = part[j]
                 PROVE  i = j
      BY <1>5 DEF Distinct
    <2>1. s[m + i - 1] = s[m + j - 1]
      BY <1>3
    <2>2. m + i - 1 \in 1 .. Len(s) /\ m + j - 1 \in 1 .. Len(s)
      BY <1>1
    <2>3. m + i - 1 = m + j - 1
      BY <1>1, <2>1, <2>2 DEF Distinct
    <2> QED
      BY <1>1, <2>3
  <1>7. Elements(part) = {s[k] : k \in m .. n}
    <2>1. ASSUME NEW i \in 1 .. n - m + 1  PROVE part[i] \in {s[k] : k \in m .. n}
      <3>1. m + i - 1 \in m .. n /\ part[i] = s[m + i - 1]
        BY <1>1, <1>3
      <3> QED
        BY <3>1
    <2>2. ASSUME NEW k \in m .. n  PROVE s[k] \in Elements(part)
      <3>1. k - m + 1 \in 1 .. n - m + 1 /\ m + (k - m + 1) - 1 = k
        BY <1>1
      <3>2. part[k - m + 1] = s[k]
        BY <1>3, <3>1
      <3> QED
        BY <1>5, <3>1, <3>2 DEF Elements
    <2> QED
      BY <1>5, <2>1, <2>2 DEF Elements
  <1> QED
    BY <1>3, <1>4, <1>6, <1>7 DEF part

\* A sequence is cut in two.
LEMMA CutInTwo ==
  ASSUME NEW S, NEW s \in Seq(S), Distinct(s), NEW t \in 0 .. Len(s)
  PROVE  LET front == SubSeq(s, 1, t)
             back == SubSeq(s, t + 1, Len(s))
         IN  /\ front \in Seq(S) /\ Distinct(front) /\ Len(front) = t
             /\ back \in Seq(S) /\ Distinct(back) /\ Len(back) = Len(s) - t
             /\ Elements(front) \cup Elements(back) = Elements(s)
             /\ Elements(front) \cap Elements(back) = {}
  <1> DEFINE front == SubSeq(s, 1, t)
             back == SubSeq(s, t + 1, Len(s))
  <1>1. Len(s) \in Nat /\ DOMAIN s = 1 .. Len(s)
    BY ElementsOf
  <1>2. /\ front \in Seq(S) /\ Distinct(front) /\ Len(front) = t - 1 + 1
        /\ Elements(front) = {s[k] : k \in 1 .. t}
    <2>1. 1 \in 1 .. Len(s) + 1 /\ t \in 0 .. Len(s) /\ 1 <= t + 1
      BY <1>1
    <2> QED
      BY <2>1, PartOf
  <1>3. /\ back \in Seq(S) /\ Distinct(back) /\ Len(back) = Len(s) - (t + 1) + 1
        /\ Elements(back) = {s[k] : k \in t + 1 .. Len(s)}
    <2>1. t + 1 \in 1 .. Len(s) + 1 /\ Len(s) \in 0 .. Len(s) /\ t + 1 <= Len(s) + 1
      BY <1>1
    <2> QED
      BY <2>1, PartOf
  <1> HIDE DEF front, back
  <1>4. Len(front) = t /\ Len(back) = Len(s) - t
    BY <1>1, <1>2, <1>3
  <1>5. 1 .. Len(s) = (1 .. t) \cup (t + 1 .. Len(s))
    BY <1>1
  <1>6. Elements(front) \cup Elements(back) = Elements(s)
    BY <1>1, <1>2, <1>3, <1>5 DEF Elements
  <1>7. ASSUME NEW x \in Elements(front), x \in Elements(back)  PROVE FALSE
    <2>1. PICK i \in 1 .. t : x = s[i]
      BY <1>2
    <2>2. PICK j \in t + 1 .. Len(s) : x = s[j]
      BY <1>3, <1>7
    <2>3. i \in 1 .. Len(s) /\ j \in 1 .. Len(s) /\ i # j
      BY <1>1
    <2> QED
      BY <1>1, <2>1, <2>2, <2>3 DEF Distinct
  <1> QED
    BY <1>2, <1>3, <1>4, <1>6, <1>7 DEF front, back

LEMMA OneMore ==
  ASSUME NEW S, NEW s \in Seq(S), Distinct(s), NEW e \in S, e \notin Elements(s)
  PROVE  /\ Append(s, e) \in Seq(S) /\ Distinct(Append(s, e))
         /\ Len(Append(s, e)) = Len(s) + 1 /\ Elements(Append(s, e)) = Elements(s) \cup {e}
  <1> DEFINE longer == Append(s, e)
             n == Len(s)
  <1>1. n \in Nat /\ DOMAIN s = 1 .. n
    BY ElementsOf
  <1>2. /\ longer \in Seq(S) /\ Len(longer) = n + 1 /\ longer[n + 1] = e
        /\ \A i \in 1 .. n : longer[i] = s[i]
    BY AppendProperties
  <1> HIDE DEF longer, n
  <1>3. DOMAIN longer = 1 .. n + 1
    BY <1>2, LenProperties
  <1>4. \A i \in 1 .. n : s[i] # e
    BY <1>1 DEF Elements
  <1>5. 1 .. n + 1 = (1 .. n) \cup {n + 1}
    BY <1>1
  <1>6. Elements(longer) = Elements(s) \cup {e}
    BY <1>1, <1>2, <1>3, <1>5 DEF Elements
  <1>7. Distinct(longer)
    BY <1>1, <1>2, <1>3, <1>4, <1>5 DEF Distinct
  <1> QED
    BY <1>2, <1>6, <1>7 DEF longer, n

\* The oldest makes room.
LEMMA OneLess ==
  ASSUME NEW S, NEW s \in Seq(S), Distinct(s), s # << >>
  PROVE  /\ Tail(s) \in Seq(S) /\ Distinct(Tail(s)) /\ Len(Tail(s)) = Len(s) - 1
         /\ Elements(Tail(s)) \subseteq Elements(s)
  <1> DEFINE rest == Tail(s)
             n == Len(s)
  <1>1. n \in Nat \ {0} /\ DOMAIN s = 1 .. n
    BY ElementsOf
  <1>2. /\ rest \in Seq(S) /\ Len(rest) = n - 1
        /\ \A i \in 1 .. Len(rest) : rest[i] = s[i + 1]
    BY HeadTailProperties
  <1> HIDE DEF rest, n
  <1>3. DOMAIN rest = 1 .. n - 1 /\ \A i \in 1 .. n - 1 : rest[i] = s[i + 1] /\ i + 1 \in 1 .. n
    <2>1. Len(rest) = n - 1 /\ DOMAIN rest = 1 .. Len(rest)
      BY <1>2, LenProperties
    <2> QED
      BY <1>1, <1>2, <2>1
  <1>4. Elements(rest) \subseteq Elements(s)
    BY <1>1, <1>3 DEF Elements
  <1>5. Distinct(rest)
    <2> SUFFICES ASSUME NEW i \in 1 .. n - 1, NEW j \in 1 .. n - 1, rest[i] = rest[j]
                 PROVE  i = j
      BY <1>3 DEF Distinct
    <2>1. s[i + 1] = s[j + 1] /\ i + 1 \in 1 .. n /\ j + 1 \in 1 .. n
      BY <1>3
    <2>2. i + 1 = j + 1
      BY <1>1, <2>1 DEF Distinct
    <2> QED
      BY <1>1, <2>2
  <1> QED
    BY <1>2, <1>4, <1>5 DEF rest, n

-----------------------------------------------------------------------------
\* The batches of a flush: batch i holds what is in places i * B + 1 .. (i + 1) * B.

BatchAt(B, s, i) == {s[k] : k \in {j \in 1 .. Len(s) : i * B < j /\ j <= (i + 1) * B}}
Starts(B, s) == {i \in 0 .. Len(s) : i * B < Len(s)}
Batches(B, s) == {BatchAt(B, s, i) : i \in Starts(B, s)}

LEMMA InOneBatch ==
  ASSUME NEW B \in Nat \ {0}, NEW n \in Nat, NEW k \in 1 .. n
  PROVE  \E i \in 0 .. n : i * B < n /\ i * B < k /\ k <= (i + 1) * B
  <1> DEFINE i == (k - 1) \div B
  <1>1. k - 1 \in Nat /\ i \in Nat /\ i * B <= k - 1 /\ k - 1 < (i + 1) * B
    BY Z3
  <1> HIDE DEF i
  <1>2. i <= i * B
    BY <1>1, Z3
  <1>3. i * B \in Nat /\ (i + 1) * B \in Nat
    BY <1>1
  <1>4. i * B < k /\ i * B < n /\ i \in 0 .. n /\ k <= (i + 1) * B
    BY <1>1, <1>2, <1>3
  <1> QED
    BY <1>4

LEMMA BatchesOfSeq ==
  ASSUME NEW B \in Nat \ {0}, NEW S, NEW s \in Seq(S), Distinct(s)
  PROVE  /\ UNION Batches(B, s) = Elements(s)
         /\ \A b, c \in Batches(B, s) : b # c => b \cap c = {}
  <1>1. Len(s) \in Nat /\ DOMAIN s = 1 .. Len(s)
    BY ElementsOf
  <1>2. UNION Batches(B, s) \subseteq Elements(s)
    BY <1>1 DEF Batches, BatchAt, Elements
  <1>3. ASSUME NEW k \in 1 .. Len(s)  PROVE s[k] \in UNION Batches(B, s)
    <2>1. PICK i \in 0 .. Len(s) : i * B < Len(s) /\ i * B < k /\ k <= (i + 1) * B
      BY <1>1, InOneBatch
    <2>2. s[k] \in BatchAt(B, s, i)
      BY <2>1 DEF BatchAt
    <2>3. BatchAt(B, s, i) \in Batches(B, s)
      BY <2>1 DEF Batches, Starts
    <2> QED
      BY <2>2, <2>3
  <1>4. Elements(s) \subseteq UNION Batches(B, s)
    BY <1>1, <1>3 DEF Elements
  <1>5. ASSUME NEW i \in Starts(B, s), NEW j \in Starts(B, s), NEW x,
               x \in BatchAt(B, s, i), x \in BatchAt(B, s, j)
        PROVE  i = j
    <2>1. i \in Nat /\ j \in Nat
      BY <1>1 DEF Starts
    <2>2. PICK k \in 1 .. Len(s) : x = s[k] /\ i * B < k /\ k <= (i + 1) * B
      BY <1>5 DEF BatchAt
    <2>3. PICK l \in 1 .. Len(s) : x = s[l] /\ j * B < l /\ l <= (j + 1) * B
      BY <1>5 DEF BatchAt
    <2>4. k = l
      BY <1>1, <2>2, <2>3 DEF Distinct
    <2>5. i * B < (j + 1) * B /\ j * B < (i + 1) * B
      <3>1. i * B \in Int /\ j * B \in Int /\ (i + 1) * B \in Int /\ (j + 1) * B \in Int
        BY <2>1
      <3> QED
        BY <1>1, <2>2, <2>3, <2>4, <3>1
    <2>6. i < j + 1 /\ j < i + 1
      BY <2>1, <2>5, Z3
    <2> QED
      BY <2>1, <2>6
  <1>6. ASSUME NEW b \in Batches(B, s), NEW c \in Batches(B, s), b # c  PROVE b \cap c = {}
    <2>1. PICK i \in Starts(B, s) : b = BatchAt(B, s, i)
      BY DEF Batches
    <2>2. PICK j \in Starts(B, s) : c = BatchAt(B, s, j)
      BY DEF Batches
    <2>3. i # j
      BY <1>6, <2>1, <2>2
    <2> QED
      BY <1>5, <2>1, <2>2, <2>3
  <1> QED
    BY <1>2, <1>4, <1>6

\* m full batches are enough for B * m records.
LEMMA FewBatches ==
  ASSUME NEW B \in Nat \ {0}, NEW S, NEW s \in Seq(S), NEW m \in Nat, Len(s) <= B * m
  PROVE  IsFiniteSet(Batches(B, s)) /\ Cardinality(Batches(B, s)) <= m
  <1>1. Len(s) \in Nat
    BY ElementsOf
  <1>2. Starts(B, s) \subseteq 0 .. m - 1
    <2> SUFFICES ASSUME NEW i \in Starts(B, s)  PROVE i \in 0 .. m - 1
      OBVIOUS
    <2>1. i \in Nat /\ i * B < Len(s)
      BY <1>1 DEF Starts
    <2>2. i * B < m * B
      <3>1. i * B \in Nat /\ m * B \in Nat /\ B * m = m * B
        BY <2>1
      <3> QED
        BY <1>1, <2>1, <3>1
    <2>3. i < m
      BY <2>1, <2>2, Z3
    <2> QED
      BY <2>1, <2>3
  <1>3. IsFiniteSet(0 .. m - 1) /\ Cardinality(0 .. m - 1) <= m /\ Cardinality(0 .. m - 1) \in Nat
    <2>1. 0 \in Int /\ m - 1 \in Int
      OBVIOUS
    <2>2. /\ IsFiniteSet(0 .. m - 1)
          /\ Cardinality(0 .. m - 1) = IF 0 > m - 1 THEN 0 ELSE m - 1 - 0 + 1
      BY <2>1, FS_Interval
    <2> QED
      BY <2>2
  <1>4. /\ IsFiniteSet(Starts(B, s)) /\ Cardinality(Starts(B, s)) <= m
        /\ Cardinality(Starts(B, s)) \in Nat
    <2>1. IsFiniteSet(Starts(B, s)) /\ Cardinality(Starts(B, s)) <= Cardinality(0 .. m - 1)
      BY <1>2, <1>3, FS_Subset
    <2>2. Cardinality(Starts(B, s)) \in Nat
      BY <2>1, FS_CardinalityType
    <2> QED
      BY <1>3, <2>1, <2>2
  <1> DEFINE f == [i \in Starts(B, s) |-> BatchAt(B, s, i)]
  <1>5. f \in Surjection(Starts(B, s), Batches(B, s))
    BY DEF Surjection, Batches
  <1> HIDE DEF f
  <1>6. /\ IsFiniteSet(Batches(B, s))
        /\ Cardinality(Batches(B, s)) <= Cardinality(Starts(B, s))
    BY <1>4, <1>5, FS_Surjection
  <1>7. Cardinality(Batches(B, s)) \in Nat
    BY <1>6, FS_CardinalityType
  <1> QED
    BY <1>4, <1>6, <1>7

-----------------------------------------------------------------------------
\* Where the records are: waiting in q, in one of the batches fl that are being
\* sent, or in one of the sets del and drop; nowhere twice.

Parts(all, a, b, c, d) ==
  /\ all = a \cup b \cup c \cup d
  /\ a \cap b = {} /\ a \cap c = {} /\ a \cap d = {}
  /\ b \cap c = {} /\ b \cap d = {} /\ c \cap d = {}

Apart(fl) == \A b, c \in fl : b # c => b \cap c = {}

Sound(q, fl, del, drop, all, K) ==
  /\ q \in Seq(all) /\ Distinct(q)
  /\ Apart(fl) /\ IsFiniteSet(fl) /\ Cardinality(fl) <= K
  /\ Parts(all, Elements(q), (UNION fl), del, drop)

\* A record is appended, and the oldest makes room.
Shorter(q, M) == IF Len(q) > M THEN Tail(q) ELSE q

LEMMA RoomIsMade ==
  ASSUME NEW all, NEW q \in Seq(all), Distinct(q), NEW e, e \notin all, NEW M \in Nat
  PROVE  LET r == Shorter(Append(q, e), M)
         IN  /\ r \in Seq(all \cup {e}) /\ Distinct(r)
             /\ Elements(Append(q, e)) = Elements(q) \cup {e}
             /\ Elements(r) \subseteq Elements(q) \cup {e}
             /\ Len(q) <= M => Len(r) <= M
  <1> DEFINE longer == Append(q, e)
  <1>1. q \in Seq(all \cup {e}) /\ Elements(q) \subseteq all /\ Len(q) \in Nat
    BY ElementsOf
  <1>2. /\ longer \in Seq(all \cup {e}) /\ Distinct(longer) /\ Len(longer) = Len(q) + 1
        /\ Elements(longer) = Elements(q) \cup {e}
    BY <1>1, OneMore
  <1> HIDE DEF longer
  <1>3. longer # << >>
    BY <1>1, <1>2, ElementsOf
  <1>4. /\ Tail(longer) \in Seq(all \cup {e}) /\ Distinct(Tail(longer))
        /\ Len(Tail(longer)) = Len(longer) - 1
        /\ Elements(Tail(longer)) \subseteq Elements(longer)
    BY <1>2, <1>3, OneLess
  <1>5. CASE Len(longer) > M
    BY <1>1, <1>2, <1>4, <1>5 DEF Shorter, longer
  <1>6. CASE ~(Len(longer) > M)
    BY <1>1, <1>2, <1>6 DEF Shorter, longer
  <1> QED
    BY <1>5, <1>6

LEMMA SoundEnqueue ==
  ASSUME NEW q, NEW fl, NEW del, NEW drop, NEW all, NEW K, Sound(q, fl, del, drop, all, K),
         NEW e, e \notin all, NEW M \in Nat
  PROVE  LET r == Shorter(Append(q, e), M)
         IN  Sound(r, fl, del, drop \cup (Elements(Append(q, e)) \ Elements(r)), all \cup {e}, K)
  <1> DEFINE longer == Append(q, e)
             r == Shorter(longer, M)
             more == Elements(longer) \ Elements(r)
  <1>1. q \in Seq(all) /\ Distinct(q)
    BY DEF Sound
  <1>2. /\ r \in Seq(all \cup {e}) /\ Distinct(r)
        /\ Elements(longer) = Elements(q) \cup {e} /\ Elements(r) \subseteq Elements(q) \cup {e}
    BY <1>1, RoomIsMade
  <1> HIDE DEF longer, r
  <1>3. Parts(all, Elements(q), (UNION fl), del, drop)
    BY DEF Sound
  <1>4. Parts(all \cup {e}, Elements(r), (UNION fl), del, drop \cup more)
    BY <1>2, <1>3 DEF Parts
  <1> QED
    BY <1>2, <1>4 DEF Sound, longer, r

LEMMA SoundFlush ==
  ASSUME NEW q, NEW fl, NEW del, NEW drop, NEW all, NEW K \in Nat,
         Sound(q, fl, del, drop, all, K),
         NEW B \in Nat \ {0}, NEW t \in 0 .. Len(q), t <= B * (K - Cardinality(fl))
  PROVE  Sound(SubSeq(q, t + 1, Len(q)), fl \cup Batches(B, SubSeq(q, 1, t)), del, drop, all, K)
  <1> DEFINE front == SubSeq(q, 1, t)
             back == SubSeq(q, t + 1, Len(q))
             new == Batches(B, front)
             m == K - Cardinality(fl)
  <1>1. /\ q \in Seq(all) /\ Distinct(q) /\ Apart(fl) /\ IsFiniteSet(fl) /\ Cardinality(fl) <= K
        /\ Parts(all, Elements(q), (UNION fl), del, drop)
    BY DEF Sound
  <1>2. /\ front \in Seq(all) /\ Distinct(front) /\ Len(front) = t
        /\ back \in Seq(all) /\ Distinct(back)
        /\ Elements(front) \cup Elements(back) = Elements(q)
        /\ Elements(front) \cap Elements(back) = {}
    BY <1>1, CutInTwo
  <1>3. Cardinality(fl) \in Nat /\ m \in Nat
    BY <1>1, FS_CardinalityType
  <1> HIDE DEF front, back, m
  <1>4. Len(front) <= B * m
    BY <1>2 DEF m
  <1>5. IsFiniteSet(new) /\ Cardinality(new) <= m
    BY <1>2, <1>3, <1>4, FewBatches
  <1>6. (UNION new) = Elements(front) /\ Apart(new)
    BY <1>2, BatchesOfSeq DEF Apart
  <1> HIDE DEF new
  <1>7. IsFiniteSet(fl \cup new) /\ Cardinality(fl \cup new) <= K
    <2>1. IsFiniteSet(fl \cap new)
      BY <1>1, FS_Subset
    <2>2. /\ Cardinality(new) \in Nat /\ Cardinality(fl \cap new) \in Nat
      BY <1>5, <2>1, FS_CardinalityType
    <2>3. /\ IsFiniteSet(fl \cup new)
          /\ Cardinality(fl \cup new) = Cardinality(fl) + Cardinality(new) - Cardinality(fl \cap new)
      BY <1>1, <1>5, FS_Union
    <2> QED
      BY <1>3, <1>5, <2>2, <2>3 DEF m
  <1>8. (UNION (fl \cup new)) = (UNION fl) \cup Elements(front)
    BY <1>6
  <1>9. Parts(all, Elements(back), (UNION (fl \cup new)), del, drop)
    BY <1>1, <1>2, <1>8 DEF Parts
  <1>10. Apart(fl \cup new)
    <2> SUFFICES ASSUME NEW b \in fl \cup new, NEW c \in fl \cup new, b # c
                 PROVE  b \cap c = {}
      BY DEF Apart
    <2>1. (UNION fl) \cap (UNION new) = {}
      BY <1>1, <1>2, <1>6 DEF Parts
    <2>2. CASE b \in fl /\ c \in fl
      BY <1>1, <2>2 DEF Apart
    <2>3. CASE b \in new /\ c \in new
      BY <1>6, <2>3 DEF Apart
    <2>4. CASE (b \in fl /\ c \in new) \/ (b \in new /\ c \in fl)
      BY <2>1, <2>4
    <2> QED
      BY <2>2, <2>3, <2>4
  <1> QED
    BY <1>2, <1>7, <1>9, <1>10 DEF Sound, front, back, new

LEMMA SoundSent ==
  ASSUME NEW q, NEW fl, NEW del, NEW drop, NEW all, NEW K \in Nat,
         Sound(q, fl, del, drop, all, K), NEW b \in fl
  PROVE  /\ Sound(q, fl \ {b}, del \cup b, drop, all, K)
         /\ Sound(q, fl \ {b}, del, drop \cup b, all, K)
  <1>1. /\ q \in Seq(all) /\ Distinct(q) /\ Apart(fl) /\ IsFiniteSet(fl) /\ Cardinality(fl) <= K
        /\ Parts(all, Elements(q), (UNION fl), del, drop)
    BY DEF Sound
  <1>2. IsFiniteSet(fl \ {b}) /\ Cardinality(fl \ {b}) <= K
    <2>1. Cardinality(fl) \in Nat
      BY <1>1, FS_CardinalityType
    <2>2. IsFiniteSet(fl \ {b}) /\ Cardinality(fl \ {b}) = Cardinality(fl) - 1
      BY <1>1, FS_RemoveElement
    <2> QED
      BY <1>1, <2>1, <2>2
  <1>3. /\ (UNION fl) = (UNION (fl \ {b})) \cup b /\ (UNION (fl \ {b})) \cap b = {}
    BY <1>1 DEF Apart
  <1>4. Apart(fl \ {b})
    BY <1>1 DEF Apart
  <1>5. Parts(all, Elements(q), (UNION (fl \ {b})), del \cup b, drop)
    BY <1>1, <1>3 DEF Parts
  <1>6. Parts(all, Elements(q), (UNION (fl \ {b})), del, drop \cup b)
    BY <1>1, <1>3 DEF Parts
  <1> QED
    BY <1>1, <1>2, <1>4, <1>5, <1>6 DEF Sound

\* The end of batch i, as the exporter finds it.
LEMMA BatchIs ==
  ASSUME NEW B \in Nat \ {0}, NEW S, NEW s \in Seq(S), Distinct(s), NEW i \in Starts(B, s),
         NEW n, n = IF (i + 1) * B <= Len(s) THEN (i + 1) * B ELSE Len(s)
  PROVE  Elements(SubSeq(s, i * B + 1, n)) = BatchAt(B, s, i)
  <1>1. Len(s) \in Nat /\ i \in Nat /\ i * B < Len(s) /\ i * B \in Nat
    BY ElementsOf DEF Starts
  <1>2. (i + 1) * B \in Nat /\ i * B < (i + 1) * B
    <2>1. (i + 1) * B = i * B + B
      BY <1>1, Z3
    <2> QED
      BY <1>1, <2>1
  <1>3. i * B + 1 \in 1 .. Len(s) + 1 /\ n \in 0 .. Len(s) /\ i * B + 1 <= n + 1
    BY <1>1, <1>2
  <1>4. Elements(SubSeq(s, i * B + 1, n)) = {s[k] : k \in i * B + 1 .. n}
    BY <1>3, PartOf
  <1>5. i * B + 1 .. n = {j \in 1 .. Len(s) : i * B < j /\ j <= (i + 1) * B}
    BY <1>1, <1>2
  <1> QED
    BY <1>4, <1>5 DEF BatchAt

-----------------------------------------------------------------------------
\* OidcKeys.

Jwks == INSTANCE OidcKeys WITH Requests <- Callers

\* The cooldown is longer than the two fetches of a refresh, and a key set
\* lives at least as long.
ASSUME KeysAssumption ==
  /\ Cooldown \in Nat \ {0} /\ FetchTimeout \in Nat /\ 2 * FetchTimeout < Cooldown
  /\ TTLs \subseteq Nat /\ \A ttl \in TTLs : Cooldown <= ttl
  /\ None \notin Nat \cup Uris \cup [set : SUBSET Kids, serial : Nat]
  /\ MaxTime \in Nat /\ MaxRotations \in Nat /\ Configured \in BOOLEAN

KeyRequest == [at : Jwks!Results \cup {"idle", "wait", "retry"}, kid : Kids \cup {None},
               before : Nat]

KeySet == [set : (SUBSET Kids) \ {{}}, serial : Nat]

Fetch == [at : {"none", "discovery", "jwks", "body"}, deadline : Nat,
          doc : (SUBSET Kids) \cup {None}]

ProviderTypes ==
  /\ now \in 0 .. MaxTime /\ rotations \in 0 .. MaxRotations
  /\ idp \in [keys : SUBSET Kids, since : [Kids -> Nat], uri : Uris]
  /\ \A kid \in Kids : idp.since[kid] <= now

SourceTypes ==
  /\ keys = None \/ keys \in KeySet
  /\ expiresAt \in Nat /\ fetches \in Nat
  /\ lastAttempt = None \/ lastAttempt \in 0 .. now
  /\ jwksUri \in Uris \cup {None} /\ lastError \in BOOLEAN
  /\ inflight \in Fetch

\* The refreshes that began so far leave a cooldown between any two of them.
Pace ==
  /\ lastAttempt = None => fetches = 0 /\ inflight.at = "none" /\ keys = None
  /\ lastAttempt # None => 1 <= fetches /\ fetches <= (lastAttempt \div Cooldown) + 1

\* Of a refresh under way: it ends by its deadline, in time for the cooldown;
\* what it has fetched misses only keys published since it began; and it makes
\* a key set that is not the present one.
RefreshUnderWay ==
  inflight.at # "none" =>
    /\ now <= inflight.deadline
    /\ inflight.deadline <=
         lastAttempt + (IF inflight.at = "discovery" THEN FetchTimeout ELSE 2 * FetchTimeout)
    /\ inflight.at = "jwks" => jwksUri # None
    /\ inflight.at = "body" =>
         /\ inflight.doc \in (SUBSET Kids) \ {{}}
         /\ \A kid \in idp.keys \ inflight.doc : lastAttempt <= idp.since[kid]

\* Once the last refresh has succeeded its key set is in use: it lives through
\* the cooldown and misses only keys published since the refresh began.
RefreshDone ==
  inflight.at = "none" /\ ~lastError /\ lastAttempt # None =>
    /\ keys # None
    /\ lastAttempt + Cooldown <= expiresAt
    /\ \A kid \in idp.keys \ keys.set : lastAttempt <= idp.since[kid]

Serials ==
  keys # None => /\ 1 <= keys.serial /\ keys.serial <= fetches
                 /\ inflight.at # "none" => keys.serial < fetches

SourceInv ==
  SourceTypes /\ Pace /\ RefreshUnderWay /\ RefreshDone /\ Serials

\* A request that waits does so within the time of one refresh; one that tries
\* again did not find its key in the set it has seen.
WaitsForRefresh(r) ==
  /\ request[r].at \in {"wait", "retry"} =>
       /\ lastAttempt # None
       /\ inflight.at = "none" => now <= lastAttempt + 2 * FetchTimeout
  /\ request[r].at = "retry" =>
       /\ keys # None /\ request[r].before <= keys.serial
       /\ keys.serial = request[r].before => request[r].kid \notin keys.set

RequestInv ==
  /\ request \in [Callers -> KeyRequest]
  /\ \A r \in Callers : WaitsForRefresh(r)

KeyInv == ProviderTypes /\ SourceInv /\ RequestInv

LEMMA KeyBounds ==
  /\ Cooldown \in Nat \ {0} /\ FetchTimeout \in Nat /\ 2 * FetchTimeout < Cooldown
  /\ TTLs \subseteq Nat /\ \A ttl \in TTLs : Cooldown <= ttl
  /\ None \notin Nat /\ None \notin Uris /\ None \notin [set : SUBSET Kids, serial : Nat]
  /\ MaxTime \in Nat /\ MaxRotations \in Nat
  BY KeysAssumption

\* A cooldown later the number of cooldowns passed is larger by one.
LEMMA CooldownsPassed ==
  ASSUME NEW a \in Nat, NEW b \in Nat, NEW c \in Nat \ {0}
  PROVE  /\ a \div c \in Nat /\ b \div c \in Nat
         /\ a <= b => a \div c <= b \div c
         /\ a + c <= b => (a \div c) + 1 <= b \div c
  <1>1. a \div c \in Nat /\ b \div c \in Nat
    BY SMT
  <1>2. a <= b => a \div c <= b \div c
    BY SMT
  <1>3. a + c <= b => (a \div c) + 1 <= b \div c
    BY Z3
  <1> QED
    BY <1>1, <1>2, <1>3

\* refresh() joins the running fetch or starts one a cooldown after the last.
LEMMA RefreshStarts ==
  ASSUME KeyInv, Jwks!RefreshStep, ~Jwks!NeedsNoWait, UNCHANGED <<now, idp, rotations>>
  PROVE  /\ SourceInv' /\ keys' = keys /\ inflight'.at # "none" /\ lastAttempt' # None
         /\ ProviderTypes'
  <1> USE KeyBounds
  <1>0. ProviderTypes'
    BY DEF KeyInv, ProviderTypes
  <1>1. CASE Jwks!Joins
    <2>1. UNCHANGED Jwks!source
      BY <1>1 DEF Jwks!RefreshStep
    <2>2. SourceInv'
      BY <2>1 DEF Jwks!source, KeyInv, SourceInv, SourceTypes, Pace, RefreshUnderWay,
        RefreshDone, Serials
    <2>3. inflight.at # "none" /\ lastAttempt # None
      BY <1>1 DEF KeyInv, SourceInv, Pace, Jwks!Joins
    <2> QED
      BY <1>0, <2>1, <2>2, <2>3 DEF Jwks!source
  <1>2. CASE ~Jwks!Joins
    <2>1. Jwks!StartRefresh
      BY <1>2 DEF Jwks!RefreshStep
    <2>2. /\ lastAttempt' = now /\ fetches' = fetches + 1
          /\ inflight' = [at |-> IF jwksUri = None THEN "discovery" ELSE "jwks",
                          deadline |-> now + FetchTimeout, doc |-> None]
          /\ UNCHANGED <<keys, expiresAt, jwksUri, lastError>>
      BY <2>1 DEF Jwks!StartRefresh
    <2>3. now \in Nat /\ fetches \in Nat /\ inflight.at = "none"
      BY <1>2 DEF KeyInv, ProviderTypes, SourceInv, SourceTypes, Jwks!Joins
    <2>4. lastAttempt = None \/ (lastAttempt \in Nat /\ lastAttempt + Cooldown <= now)
      BY <1>2 DEF Jwks!NeedsNoWait, Jwks!CoolingDown, KeyInv, ProviderTypes, SourceInv, SourceTypes
    <2>5. fetches + 1 <= (now \div Cooldown) + 1
      <3>1. CASE lastAttempt = None
        <4>1. now \div Cooldown \in Nat
          BY <2>3, CooldownsPassed
        <4> QED
          BY <3>1, <4>1 DEF KeyInv, SourceInv, Pace
      <3>2. CASE lastAttempt # None
        <4>1. lastAttempt \in Nat /\ lastAttempt + Cooldown <= now
          BY <2>4, <3>2
        <4>2. /\ lastAttempt \div Cooldown \in Nat /\ now \div Cooldown \in Nat
              /\ (lastAttempt \div Cooldown) + 1 <= now \div Cooldown
          BY <2>3, <4>1, CooldownsPassed
        <4>3. fetches <= (lastAttempt \div Cooldown) + 1
          BY <3>2 DEF KeyInv, SourceInv, Pace
        <4> QED
          BY <2>3, <4>2, <4>3
      <3> QED
        BY <3>1, <3>2
    <2>6. SourceTypes'
      <3>1. inflight' \in Fetch
        <4>1. now + FetchTimeout \in Nat
          BY <2>3
        <4> QED
          BY <2>2, <4>1 DEF Fetch
      <3>2. lastAttempt' \in 0 .. now' /\ fetches' \in Nat
        BY <2>2, <2>3
      <3> QED
        BY <2>2, <3>1, <3>2 DEF KeyInv, SourceInv, SourceTypes
    <2>7. Pace'
      BY <2>2, <2>3, <2>5 DEF Pace
    <2>8. RefreshUnderWay' /\ RefreshDone'
      BY <2>2, <2>3 DEF RefreshUnderWay, RefreshDone
    <2>9. Serials'
      BY <2>2, <2>3 DEF KeyInv, SourceInv, SourceTypes, KeySet, Serials
    <2> QED
      BY <1>0, <2>2, <2>3, <2>6, <2>7, <2>8, <2>9 DEF SourceInv
  <1> QED
    BY <1>1, <1>2

\* While nobody refreshes, the keys in use are live or cooling down after a
\* failure, and miss only keys published within the cooldown.
LEMMA CoolingKeys ==
  ASSUME KeyInv, inflight.at = "none", lastAttempt # None, now - lastAttempt < Cooldown,
         keys # None
  PROVE  /\ now < expiresAt \/ (lastError /\ Jwks!CoolingDown)
         /\ \A kid \in idp.keys \ keys.set : lastError \/ now - idp.since[kid] < Cooldown
  <1> USE KeyBounds
  <1>1. lastAttempt \in Nat /\ now \in Nat /\ expiresAt \in Nat /\ lastAttempt <= now
    BY DEF KeyInv, ProviderTypes, SourceInv, SourceTypes
  <1>2. \A kid \in idp.keys : idp.since[kid] \in Nat
    BY DEF KeyInv, ProviderTypes
  <1>3. CASE lastError
    BY <1>3 DEF Jwks!CoolingDown
  <1>4. CASE ~lastError
    BY <1>1, <1>2, <1>4 DEF KeyInv, SourceInv, RefreshDone
  <1> QED
    BY <1>3, <1>4

\* What the properties say of a step, and the invariant after it.
KeyStepIsSafe == KeyInv' /\ Jwks!VerifiedByLiveKeys /\ Jwks!RefusedForARecentKey

\* One request changes, to something that does not wait.
LEMMA KeyAnswered ==
  ASSUME KeyInv, NEW r \in Callers, NEW kid \in Kids \cup {None}, NEW result \in Jwks!Results,
         Jwks!Answer(r, kid, result), UNCHANGED Jwks!source, UNCHANGED <<now, idp, rotations>>
  PROVE  /\ KeyInv'
         /\ \A o \in Callers \ {r} : request'[o] = request[o]
         /\ request'[r] = [at |-> result, kid |-> kid, before |-> 0]
  <1>0. result \notin {"wait", "retry"} /\ result \in Jwks!Results \cup {"idle", "wait", "retry"}
    BY DEF Jwks!Results
  <1>1. /\ request \in [Callers -> KeyRequest]
        /\ request' = [request EXCEPT ![r] = [at |-> result, kid |-> kid, before |-> 0]]
    BY DEF KeyInv, RequestInv, Jwks!Answer
  <1>2. /\ request'[r] = [at |-> result, kid |-> kid, before |-> 0]
        /\ \A o \in Callers \ {r} : request'[o] = request[o]
        /\ request' \in [Callers -> KeyRequest]
    BY <1>0, <1>1 DEF KeyRequest
  <1>3. ProviderTypes' /\ SourceInv'
    BY DEF KeyInv, ProviderTypes, Jwks!source, SourceInv, SourceTypes, Pace, RefreshUnderWay,
      RefreshDone, Serials
  <1>4. \A o \in Callers : WaitsForRefresh(o)'
    <2> TAKE o \in Callers
    <2>1. CASE o = r
      BY <1>0, <1>2, <2>1 DEF WaitsForRefresh
    <2>2. CASE o # r
      <3>1. WaitsForRefresh(o) /\ request'[o] = request[o]
        BY <1>2, <2>2 DEF KeyInv, RequestInv
      <3> QED
        BY <3>1 DEF WaitsForRefresh, Jwks!source
    <2> QED
      BY <2>1, <2>2
  <1> QED
    BY <1>2, <1>3, <1>4 DEF KeyInv, RequestInv

\* One request begins to wait for a refresh.
LEMMA KeyWaits ==
  ASSUME KeyInv, NEW r \in Callers, NEW kid \in Kids \cup {None}, NEW at \in {"wait", "retry"},
         NEW before \in Nat,
         at = "retry" => keys # None /\ kid \notin keys.set /\ before = keys.serial,
         request' = [request EXCEPT ![r] = [at |-> at, kid |-> kid, before |-> before]],
         Jwks!RefreshStep, ~Jwks!NeedsNoWait, UNCHANGED <<now, idp, rotations>>
  PROVE  KeyStepIsSafe
  <1>1. /\ request \in [Callers -> KeyRequest]
        /\ at \in Jwks!Results \cup {"idle", "wait", "retry"}
    BY DEF KeyInv, RequestInv
  <1>2. /\ request'[r] = [at |-> at, kid |-> kid, before |-> before]
        /\ \A o \in Callers \ {r} : request'[o] = request[o]
        /\ request' \in [Callers -> KeyRequest]
    BY <1>1 DEF KeyRequest
  <1>3. /\ SourceInv' /\ keys' = keys /\ inflight'.at # "none" /\ lastAttempt' # None
        /\ ProviderTypes'
    BY RefreshStarts
  <1>4. \A o \in Callers : WaitsForRefresh(o)'
    <2> TAKE o \in Callers
    <2>1. CASE o = r
      <3>1. at = "retry" => before <= keys.serial
        BY DEF KeyInv, SourceInv, SourceTypes, KeySet
      <3> QED
        BY <1>2, <1>3, <2>1, <3>1 DEF WaitsForRefresh
    <2>2. CASE o # r
      <3>1. WaitsForRefresh(o) /\ request'[o] = request[o]
        BY <1>2, <2>2 DEF KeyInv, RequestInv
      <3> QED
        BY <1>3, <3>1 DEF WaitsForRefresh
    <2> QED
      BY <2>1, <2>2
  <1>5. KeyInv'
    BY <1>2, <1>3, <1>4 DEF KeyInv, RequestInv
  <1>6. Jwks!VerifiedByLiveKeys /\ Jwks!RefusedForARecentKey
    BY <1>2 DEF Jwks!VerifiedByLiveKeys, Jwks!RefusedForARecentKey
  <1> QED
    BY <1>5, <1>6 DEF KeyStepIsSafe

LEMMA KeyVerify ==
  ASSUME KeyInv, NEW r \in Callers, NEW kid \in Kids \cup {None}, keys # None,
         Jwks!Verify(r, kid), UNCHANGED <<now, idp, rotations>>,
         now < expiresAt \/ (lastError /\ Jwks!CoolingDown)
  PROVE  KeyStepIsSafe
  <1>1. CASE kid \in keys.set /\ Jwks!Answer(r, kid, "verified") /\ UNCHANGED Jwks!source
    <2>1. "verified" \in Jwks!Results
      BY DEF Jwks!Results
    <2>2. /\ KeyInv' /\ \A o \in Callers \ {r} : request'[o] = request[o]
          /\ request'[r] = [at |-> "verified", kid |-> kid, before |-> 0]
      BY <1>1, <2>1, KeyAnswered
    <2>3. Jwks!VerifiedByLiveKeys /\ Jwks!RefusedForARecentKey
      BY <2>2 DEF Jwks!VerifiedByLiveKeys, Jwks!RefusedForARecentKey
    <2> QED
      BY <2>2, <2>3 DEF KeyStepIsSafe
  <1>2. CASE /\ kid \notin keys.set /\ Jwks!NeedsNoWait
             /\ Jwks!Answer(r, kid, "unknown_key") /\ UNCHANGED Jwks!source
    <2>1. "unknown_key" \in Jwks!Results
      BY DEF Jwks!Results
    <2>2. /\ KeyInv' /\ \A o \in Callers \ {r} : request'[o] = request[o]
          /\ request'[r] = [at |-> "unknown_key", kid |-> kid, before |-> 0]
      BY <1>2, <2>1, KeyAnswered
    <2>3. inflight.at = "none" /\ lastAttempt # None /\ now - lastAttempt < Cooldown
      BY <1>2 DEF Jwks!NeedsNoWait, Jwks!Joins, Jwks!CoolingDown
    <2>4. \A p \in idp.keys \ keys.set : lastError \/ now - idp.since[p] < Cooldown
      BY <2>3, CoolingKeys
    <2>5. Jwks!VerifiedByLiveKeys /\ Jwks!RefusedForARecentKey
      BY <1>2, <2>2, <2>4 DEF Jwks!VerifiedByLiveKeys, Jwks!RefusedForARecentKey
    <2> QED
      BY <2>2, <2>5 DEF KeyStepIsSafe
  <1>3. CASE /\ kid \notin keys.set /\ ~Jwks!NeedsNoWait /\ Jwks!RefreshStep
             /\ request' = [request EXCEPT ![r] = [at |-> "retry", kid |-> kid,
                                                   before |-> keys.serial]]
    <2>1. keys.serial \in Nat
      BY DEF KeyInv, SourceInv, SourceTypes, KeySet
    <2> QED
      BY <1>3, <2>1, KeyWaits
  <1> QED
    BY <1>1, <1>2, <1>3 DEF Jwks!Verify

\* A request that is answered without a key.
LEMMA KeyRefused ==
  ASSUME KeyInv, NEW r \in Callers, NEW kid \in Kids \cup {None},
         NEW result \in {"jwks_unavailable", "disallowed_alg"},
         Jwks!Answer(r, kid, result), UNCHANGED Jwks!source, UNCHANGED <<now, idp, rotations>>
  PROVE  KeyStepIsSafe
  <1>1. result \in Jwks!Results
    BY DEF Jwks!Results
  <1>2. /\ KeyInv' /\ \A o \in Callers \ {r} : request'[o] = request[o]
        /\ request'[r] = [at |-> result, kid |-> kid, before |-> 0]
    BY <1>1, KeyAnswered
  <1>3. Jwks!VerifiedByLiveKeys /\ Jwks!RefusedForARecentKey
    BY <1>2 DEF Jwks!VerifiedByLiveKeys, Jwks!RefusedForARecentKey
  <1> QED
    BY <1>2, <1>3 DEF KeyStepIsSafe

LEMMA KeyLookup ==
  ASSUME KeyInv, NEW r \in Callers, NEW kid \in Kids, Jwks!Lookup(r, kid)
  PROVE  KeyStepIsSafe
  <1>0. UNCHANGED <<now, idp, rotations>> /\ kid \in Kids \cup {None}
    BY DEF Jwks!Lookup
  <1>1. CASE Jwks!Fresh /\ Jwks!Verify(r, kid)
    <2>1. keys # None /\ now < expiresAt
      BY <1>1 DEF Jwks!Fresh
    <2> QED
      BY <1>0, <1>1, <2>1, KeyVerify
  <1>2. CASE /\ ~Jwks!NeedsNoWait /\ Jwks!RefreshStep
             /\ request' = [request EXCEPT ![r] = [at |-> "wait", kid |-> kid, before |-> 0]]
    BY <1>0, <1>2, KeyWaits
  <1>3. CASE ~Jwks!Fresh /\ Jwks!NeedsNoWait /\ keys # None /\ Jwks!Verify(r, kid)
    <2>1. inflight.at = "none" /\ lastAttempt # None /\ now - lastAttempt < Cooldown
      BY <1>3 DEF Jwks!NeedsNoWait, Jwks!Joins, Jwks!CoolingDown
    <2>2. now < expiresAt \/ (lastError /\ Jwks!CoolingDown)
      BY <1>3, <2>1, CoolingKeys
    <2> QED
      BY <1>0, <1>3, <2>2, KeyVerify
  <1>4. CASE Jwks!Answer(r, kid, "jwks_unavailable") /\ UNCHANGED Jwks!source
    BY <1>0, <1>4, KeyRefused
  <1> QED
    BY <1>1, <1>2, <1>3, <1>4 DEF Jwks!Lookup

LEMMA KeyRefuseAlg ==
  ASSUME KeyInv, NEW r \in Callers, Jwks!RefuseAlg(r)
  PROVE  KeyStepIsSafe
  <1>1. /\ Jwks!Answer(r, None, "disallowed_alg") /\ UNCHANGED Jwks!source
        /\ UNCHANGED <<now, idp, rotations>>
    BY DEF Jwks!RefuseAlg
  <1> QED
    BY <1>1, KeyRefused

\* Who waited for a refresh resumes within its time: less than a cooldown.
LEMMA WaitedWithinCooldown ==
  ASSUME KeyInv, NEW r \in Callers, request[r].at \in {"wait", "retry"}, inflight.at = "none"
  PROVE  /\ lastAttempt # None /\ now - lastAttempt < Cooldown
         /\ request[r].kid \in Kids \cup {None}
  <1>1. lastAttempt # None /\ now <= lastAttempt + 2 * FetchTimeout
    BY DEF KeyInv, RequestInv, WaitsForRefresh
  <1>2. lastAttempt \in Nat /\ now \in Nat
    BY <1>1, KeyBounds DEF KeyInv, ProviderTypes, SourceInv, SourceTypes
  <1>3. now - lastAttempt < Cooldown
    BY <1>1, <1>2, KeyBounds
  <1> QED
    BY <1>1, <1>3 DEF KeyInv, RequestInv, KeyRequest

LEMMA KeyResume ==
  ASSUME KeyInv, NEW r \in Callers, Jwks!Resume(r)
  PROVE  KeyStepIsSafe
  <1>0. /\ request[r].at = "wait" /\ inflight.at = "none" /\ UNCHANGED <<now, idp, rotations>>
    BY DEF Jwks!Resume
  <1>1. /\ lastAttempt # None /\ now - lastAttempt < Cooldown
        /\ request[r].kid \in Kids \cup {None}
    BY <1>0, WaitedWithinCooldown
  <1>2. CASE keys = None
    BY <1>0, <1>1, <1>2, KeyRefused DEF Jwks!Resume
  <1>3. CASE keys # None
    <2>1. now < expiresAt \/ (lastError /\ Jwks!CoolingDown)
      BY <1>0, <1>1, <1>3, CoolingKeys
    <2>2. Jwks!Verify(r, request[r].kid)
      BY <1>3 DEF Jwks!Resume
    <2> QED
      BY <1>0, <1>1, <1>3, <2>1, <2>2, KeyVerify
  <1> QED
    BY <1>2, <1>3

LEMMA KeyRetry ==
  ASSUME KeyInv, NEW r \in Callers, Jwks!Retry(r)
  PROVE  KeyStepIsSafe
  <1> DEFINE kid == request[r].kid
             result == IF Jwks!Changed(r) /\ kid \in keys.set THEN "verified" ELSE "unknown_key"
  <1>0. /\ request[r].at = "retry" /\ inflight.at = "none" /\ UNCHANGED <<now, idp, rotations>>
        /\ Jwks!Answer(r, kid, result) /\ UNCHANGED Jwks!source
    BY DEF Jwks!Retry
  <1>1. /\ lastAttempt # None /\ now - lastAttempt < Cooldown /\ kid \in Kids \cup {None}
    BY <1>0, WaitedWithinCooldown
  <1>2. /\ keys # None
        /\ keys.serial = request[r].before => kid \notin keys.set
    BY <1>0 DEF KeyInv, RequestInv, WaitsForRefresh
  <1>3. result = IF kid \in keys.set THEN "verified" ELSE "unknown_key"
    BY <1>2 DEF Jwks!Changed
  <1>4. result \in Jwks!Results
    BY DEF Jwks!Results
  <1>5. /\ now < expiresAt \/ (lastError /\ Jwks!CoolingDown)
        /\ \A p \in idp.keys \ keys.set : lastError \/ now - idp.since[p] < Cooldown
    BY <1>0, <1>1, <1>2, CoolingKeys
  <1> HIDE DEF result, kid
  <1>6. /\ KeyInv' /\ \A o \in Callers \ {r} : request'[o] = request[o]
        /\ request'[r] = [at |-> result, kid |-> kid, before |-> 0]
    BY <1>0, <1>1, <1>4, KeyAnswered
  <1>7. Jwks!VerifiedByLiveKeys /\ Jwks!RefusedForARecentKey
    BY <1>3, <1>5, <1>6 DEF Jwks!VerifiedByLiveKeys, Jwks!RefusedForARecentKey
  <1> QED
    BY <1>6, <1>7 DEF KeyStepIsSafe

LEMMA KeyDone ==
  ASSUME KeyInv, NEW r \in Callers, Jwks!Done(r)
  PROVE  KeyStepIsSafe
  <1>0. /\ request' = [request EXCEPT ![r] = Jwks!IdleRequest]
        /\ UNCHANGED <<now, idp, rotations>> /\ UNCHANGED Jwks!source
    BY DEF Jwks!Done
  <1>1. request \in [Callers -> KeyRequest]
    BY DEF KeyInv, RequestInv
  <1>2. /\ request'[r] = Jwks!IdleRequest
        /\ \A o \in Callers \ {r} : request'[o] = request[o]
        /\ request' \in [Callers -> KeyRequest]
    BY <1>0, <1>1 DEF KeyRequest, Jwks!IdleRequest
  <1>3. ProviderTypes' /\ SourceInv'
    BY <1>0 DEF KeyInv, ProviderTypes, Jwks!source, SourceInv, SourceTypes, Pace,
      RefreshUnderWay, RefreshDone, Serials
  <1>4. \A o \in Callers : WaitsForRefresh(o)'
    <2> TAKE o \in Callers
    <2>1. CASE o = r
      BY <1>2, <2>1 DEF WaitsForRefresh, Jwks!IdleRequest
    <2>2. CASE o # r
      <3>1. WaitsForRefresh(o) /\ request'[o] = request[o]
        BY <1>2, <2>2 DEF KeyInv, RequestInv
      <3> QED
        BY <1>0, <3>1 DEF WaitsForRefresh, Jwks!source
    <2> QED
      BY <2>1, <2>2
  <1>5. Jwks!VerifiedByLiveKeys /\ Jwks!RefusedForARecentKey
    BY <1>2 DEF Jwks!VerifiedByLiveKeys, Jwks!RefusedForARecentKey, Jwks!IdleRequest
  <1> QED
    BY <1>2, <1>3, <1>4, <1>5 DEF KeyStepIsSafe, KeyInv, RequestInv

\* A step that leaves the requests alone keeps what a property says of them.
LEMMA RequestsAlone ==
  ASSUME UNCHANGED request
  PROVE  Jwks!VerifiedByLiveKeys /\ Jwks!RefusedForARecentKey
  BY DEF Jwks!VerifiedByLiveKeys, Jwks!RefusedForARecentKey

\* The requests wait on, whatever becomes of the refresh.
LEMMA RequestsWaitOn ==
  ASSUME KeyInv, UNCHANGED <<request, lastAttempt, keys>>,
         now' = now \/ inflight' = inflight,
         inflight.at # "none" /\ inflight'.at = "none" => now <= lastAttempt + 2 * FetchTimeout,
         inflight'.at = "none" /\ inflight.at = "none" =>
           now' = now \/ \A r \in Callers : request[r].at \notin {"wait", "retry"}
  PROVE  RequestInv'
  <1>1. request' \in [Callers -> KeyRequest]
    BY DEF KeyInv, RequestInv
  <1>2. ASSUME NEW r \in Callers  PROVE WaitsForRefresh(r)'
    <2>1. WaitsForRefresh(r)
      BY DEF KeyInv, RequestInv
    <2> QED
      BY <2>1 DEF WaitsForRefresh
  <1> QED
    BY <1>1, <1>2 DEF RequestInv

\* A fetch under way is within the time of one refresh.
LEMMA RefreshIsShort ==
  ASSUME KeyInv, inflight.at # "none"
  PROVE  /\ lastAttempt # None /\ lastAttempt \in Nat /\ now \in Nat
         /\ now <= inflight.deadline /\ inflight.deadline \in Nat
         /\ now <= lastAttempt + 2 * FetchTimeout
         /\ lastAttempt <= now
         /\ inflight.at = "discovery" => now <= lastAttempt + FetchTimeout
  <1>1. /\ lastAttempt # None /\ inflight.deadline \in Nat
        /\ inflight.at \in {"none", "discovery", "jwks", "body"}
    BY DEF KeyInv, SourceInv, SourceTypes, Pace, Fetch
  <1>2. lastAttempt \in Nat /\ now \in Nat /\ lastAttempt <= now
    BY <1>1, KeyBounds DEF KeyInv, ProviderTypes, SourceInv, SourceTypes
  <1>3. /\ now <= inflight.deadline
        /\ inflight.deadline <=
             lastAttempt + (IF inflight.at = "discovery" THEN FetchTimeout ELSE 2 * FetchTimeout)
    BY DEF KeyInv, SourceInv, RefreshUnderWay
  <1> QED
    BY <1>1, <1>2, <1>3, KeyBounds

LEMMA KeyDiscovered ==
  ASSUME KeyInv, Jwks!Discovered
  PROVE  KeyStepIsSafe
  <1>1. /\ inflight.at = "discovery" /\ jwksUri' = idp.uri
        /\ inflight' = [inflight EXCEPT !.at = "jwks", !.deadline = now + FetchTimeout]
        /\ UNCHANGED <<now, idp, rotations, request, keys, expiresAt, lastAttempt, lastError, fetches>>
    BY DEF Jwks!Discovered
  <1>2. inflight \in Fetch /\ idp.uri \in Uris
    BY DEF KeyInv, SourceInv, SourceTypes, ProviderTypes
  <1>3. /\ inflight' \in Fetch /\ inflight'.at = "jwks"
        /\ inflight'.deadline = now + FetchTimeout
    <2>1. now + FetchTimeout \in Nat
      BY <1>1, RefreshIsShort, KeyBounds
    <2> QED
      BY <1>1, <1>2, <2>1 DEF Fetch
  <1>4. /\ lastAttempt \in Nat /\ now \in Nat /\ now <= lastAttempt + FetchTimeout
    BY <1>1, RefreshIsShort
  <1>5. ProviderTypes'
    BY <1>1 DEF KeyInv, ProviderTypes
  <1>6. SourceTypes' /\ Pace'
    BY <1>1, <1>2, <1>3 DEF KeyInv, SourceInv, SourceTypes, Pace
  <1>7. RefreshUnderWay' /\ RefreshDone'
    BY <1>1, <1>2, <1>3, <1>4, KeyBounds DEF RefreshUnderWay, RefreshDone
  <1>8. Serials'
    BY <1>1, <1>3 DEF KeyInv, SourceInv, Serials
  <1>9. RequestInv'
    BY <1>1, <1>3, RequestsWaitOn
  <1> QED
    BY <1>1, <1>5, <1>6, <1>7, <1>8, <1>9, RequestsAlone DEF KeyStepIsSafe, KeyInv, SourceInv

LEMMA KeyServed ==
  ASSUME KeyInv, Jwks!JwksServed
  PROVE  KeyStepIsSafe
  <1>1. /\ inflight.at = "jwks" /\ idp.keys # {}
        /\ inflight' = [inflight EXCEPT !.at = "body", !.doc = idp.keys]
        /\ UNCHANGED <<now, idp, rotations, request, keys, expiresAt, lastAttempt, jwksUri,
                       lastError, fetches>>
    BY DEF Jwks!JwksServed
  <1>2. inflight \in Fetch /\ idp.keys \in SUBSET Kids
    BY DEF KeyInv, SourceInv, SourceTypes, ProviderTypes
  <1>3. /\ inflight' \in Fetch /\ inflight'.at = "body" /\ inflight'.doc = idp.keys
        /\ inflight'.deadline = inflight.deadline
    BY <1>1, <1>2 DEF Fetch
  <1>4. ProviderTypes'
    BY <1>1 DEF KeyInv, ProviderTypes
  <1>5. SourceTypes' /\ Pace'
    BY <1>1, <1>2, <1>3 DEF KeyInv, SourceInv, SourceTypes, Pace
  <1>6. RefreshUnderWay'
    <2>1. /\ now <= inflight.deadline
          /\ inflight.deadline <= lastAttempt + 2 * FetchTimeout
      BY <1>1 DEF KeyInv, SourceInv, RefreshUnderWay
    <2>2. inflight'.doc \in (SUBSET Kids) \ {{}} /\ idp'.keys \ inflight'.doc = {}
      BY <1>1, <1>2, <1>3
    <2> QED
      BY <1>1, <1>3, <2>1, <2>2 DEF RefreshUnderWay
  <1>7. RefreshDone'
    BY <1>3 DEF RefreshDone
  <1>8. Serials'
    BY <1>1, <1>3 DEF KeyInv, SourceInv, Serials
  <1>9. RequestInv'
    BY <1>1, <1>3, RequestsWaitOn
  <1> QED
    BY <1>1, <1>4, <1>5, <1>6, <1>7, <1>8, <1>9, RequestsAlone DEF KeyStepIsSafe, KeyInv, SourceInv

LEMMA KeySucceeds ==
  ASSUME KeyInv, NEW ttl \in TTLs, Jwks!RefreshSucceeds(ttl)
  PROVE  KeyStepIsSafe
  <1>1. /\ inflight.at = "body" /\ keys' = [set |-> inflight.doc, serial |-> fetches]
        /\ expiresAt' = now + ttl /\ lastError' = FALSE /\ inflight' = Jwks!NotRunning
        /\ UNCHANGED <<now, idp, rotations, request, lastAttempt, jwksUri, fetches>>
    BY DEF Jwks!RefreshSucceeds
  <1>2. /\ inflight.doc \in (SUBSET Kids) \ {{}}
        /\ \A kid \in idp.keys \ inflight.doc : lastAttempt <= idp.since[kid]
    BY <1>1 DEF KeyInv, SourceInv, RefreshUnderWay
  <1>3. /\ lastAttempt # None /\ lastAttempt \in Nat /\ now \in Nat
        /\ now <= lastAttempt + 2 * FetchTimeout /\ lastAttempt <= now
    BY <1>1, RefreshIsShort
  <1>4. fetches \in Nat /\ 1 <= fetches
    BY <1>3 DEF KeyInv, SourceInv, SourceTypes, Pace
  <1>5. ttl \in Nat /\ Cooldown <= ttl
    BY KeyBounds
  <1>6. inflight' \in Fetch /\ inflight'.at = "none"
    BY <1>1 DEF Jwks!NotRunning, Fetch
  <1>7. keys' \in KeySet /\ keys'.set = inflight.doc /\ keys'.serial = fetches
    BY <1>1, <1>2, <1>4 DEF KeySet
  <1>8. ProviderTypes'
    BY <1>1 DEF KeyInv, ProviderTypes
  <1>9. SourceTypes' /\ Pace'
    <2>1. expiresAt' \in Nat
      BY <1>1, <1>3, <1>5
    <2>2. lastError' \in BOOLEAN
      BY <1>1
    <2> QED
      BY <1>1, <1>3, <1>6, <1>7, <2>1, <2>2 DEF KeyInv, SourceInv, SourceTypes, Pace
  <1>10. RefreshUnderWay'
    BY <1>6 DEF RefreshUnderWay
  <1>11. keys' # None
    BY <1>7, KeyBounds DEF KeySet
  <1>12. RefreshDone' /\ Serials'
    BY <1>1, <1>2, <1>3, <1>4, <1>5, <1>6, <1>7, <1>11, KeyBounds DEF RefreshDone, Serials
  <1>13. RequestInv'
    <2>1. request' \in [Callers -> KeyRequest]
      BY <1>1 DEF KeyInv, RequestInv
    <2>2. ASSUME NEW r \in Callers  PROVE WaitsForRefresh(r)'
      <3>1. WaitsForRefresh(r)
        BY DEF KeyInv, RequestInv
      <3>2. request[r].at = "retry" => request[r].before < fetches /\ request[r].before \in Nat
        <4>1. keys # None => keys.serial < fetches /\ keys.serial \in Nat
          BY <1>1 DEF KeyInv, SourceInv, SourceTypes, KeySet, Serials
        <4>2. request[r].before \in Nat
          BY DEF KeyInv, RequestInv, KeyRequest
        <4> QED
          BY <1>4, <3>1, <4>1, <4>2 DEF WaitsForRefresh
      <3> QED
        BY <1>1, <1>3, <1>4, <1>7, <1>11, <3>1, <3>2 DEF WaitsForRefresh
    <2> QED
      BY <2>1, <2>2 DEF RequestInv
  <1> QED
    BY <1>1, <1>8, <1>9, <1>10, <1>12, <1>13, RequestsAlone DEF KeyStepIsSafe, KeyInv, SourceInv

LEMMA KeyFails ==
  ASSUME KeyInv, Jwks!RefreshFails
  PROVE  KeyStepIsSafe
  <1>1. /\ inflight.at # "none" /\ lastError' = TRUE /\ jwksUri' = Jwks!ForgetUri
        /\ inflight' = Jwks!NotRunning
        /\ UNCHANGED <<now, idp, rotations, request, keys, expiresAt, lastAttempt, fetches>>
    BY DEF Jwks!RefreshFails
  <1>2. /\ lastAttempt # None /\ lastAttempt \in Nat /\ now \in Nat
        /\ now <= lastAttempt + 2 * FetchTimeout
    BY <1>1, RefreshIsShort
  <1>3. inflight' \in Fetch /\ inflight'.at = "none"
    BY <1>1 DEF Jwks!NotRunning, Fetch
  <1>4. jwksUri' \in Uris \cup {None}
    BY <1>1 DEF Jwks!ForgetUri, KeyInv, SourceInv, SourceTypes
  <1>5. ProviderTypes'
    BY <1>1 DEF KeyInv, ProviderTypes
  <1>6. SourceTypes' /\ Pace'
    BY <1>1, <1>2, <1>3, <1>4 DEF KeyInv, SourceInv, SourceTypes, Pace
  <1>7. RefreshUnderWay' /\ RefreshDone'
    BY <1>1, <1>3 DEF RefreshUnderWay, RefreshDone
  <1>8. Serials'
    BY <1>1, <1>3 DEF KeyInv, SourceInv, Serials
  <1>9. RequestInv'
    BY <1>1, <1>2, <1>3, RequestsWaitOn
  <1> QED
    BY <1>1, <1>5, <1>6, <1>7, <1>8, <1>9, RequestsAlone DEF KeyStepIsSafe, KeyInv, SourceInv

\* What the identity provider publishes anew it publishes now.
LEMMA KeyRotates ==
  ASSUME KeyInv, Jwks!Rotate
  PROVE  KeyStepIsSafe
  <1>1. PICK ks \in (SUBSET Kids) \ {idp.keys} :
          idp' = [idp EXCEPT !.keys = ks,
                    !.since = [kid \in Kids |-> IF kid \in ks \ idp.keys THEN now ELSE @[kid]]]
    BY DEF Jwks!Rotate
  <1>2. /\ rotations < MaxRotations /\ rotations' = rotations + 1
        /\ UNCHANGED <<now, request>> /\ UNCHANGED Jwks!source
    BY DEF Jwks!Rotate
  <1>3. /\ idp \in [keys : SUBSET Kids, since : [Kids -> Nat], uri : Uris] /\ now \in Nat
        /\ \A kid \in Kids : idp.since[kid] \in Nat /\ idp.since[kid] <= now
    BY KeyBounds DEF KeyInv, ProviderTypes
  <1> DEFINE since == [kid \in Kids |-> IF kid \in ks \ idp.keys THEN now ELSE idp.since[kid]]
  <1>4. /\ since \in [Kids -> Nat]
        /\ \A kid \in Kids : since[kid] <= now /\ (kid \notin idp.keys /\ kid \in ks => since[kid] = now)
        /\ \A kid \in Kids : idp.since[kid] <= since[kid]
    BY <1>3
  <1>5. idp' = [idp EXCEPT !.keys = ks, !.since = since]
    BY <1>1
  <1> HIDE DEF since
  <1>6. /\ idp' \in [keys : SUBSET Kids, since : [Kids -> Nat], uri : Uris]
        /\ idp'.keys = ks /\ idp'.since = since
    BY <1>3, <1>4, <1>5
  <1>7. ProviderTypes'
    BY <1>2, <1>4, <1>6, KeyBounds DEF KeyInv, ProviderTypes
  \* A key that was missing is missing still, or published now.
  <1>8. ASSUME NEW set \in SUBSET Kids, lastAttempt \in Nat, lastAttempt <= now,
               \A kid \in idp.keys \ set : lastAttempt <= idp.since[kid]
        PROVE  \A kid \in idp'.keys \ set : lastAttempt <= idp'.since[kid]
    <2> TAKE kid \in idp'.keys \ set
    <2>0. kid \in Kids /\ kid \in ks
      BY <1>6
    <2>1. CASE kid \in idp.keys
      BY <1>3, <1>4, <1>6, <1>8, <2>0, <2>1
    <2>2. CASE kid \notin idp.keys
      BY <1>4, <1>6, <1>8, <2>0, <2>2
    <2> QED
      BY <2>1, <2>2
  <1>9. lastAttempt # None => lastAttempt \in Nat /\ lastAttempt <= now
    BY <1>3 DEF KeyInv, ProviderTypes, SourceInv, SourceTypes
  <1>10. SourceTypes' /\ Pace' /\ Serials'
    BY <1>2 DEF KeyInv, SourceInv, SourceTypes, Pace, Serials, Jwks!source
  <1>11. RefreshUnderWay'
    <2>1. inflight.at # "none" => lastAttempt # None
      BY DEF KeyInv, SourceInv, Pace
    <2>2. inflight.at = "body" =>
            \A kid \in idp'.keys \ inflight.doc : lastAttempt <= idp'.since[kid]
      BY <1>8, <1>9, <2>1 DEF KeyInv, SourceInv, RefreshUnderWay
    <2> QED
      BY <1>2, <2>2 DEF KeyInv, SourceInv, RefreshUnderWay, Jwks!source
  <1>12. RefreshDone'
    <2>1. inflight.at = "none" /\ ~lastError /\ lastAttempt # None =>
            \A kid \in idp'.keys \ keys.set : lastAttempt <= idp'.since[kid]
      <3> SUFFICES ASSUME inflight.at = "none", ~lastError, lastAttempt # None
                   PROVE  \A kid \in idp'.keys \ keys.set : lastAttempt <= idp'.since[kid]
        OBVIOUS
      <3>1. /\ keys # None
            /\ \A kid \in idp.keys \ keys.set : lastAttempt <= idp.since[kid]
        BY DEF KeyInv, SourceInv, RefreshDone
      <3>2. keys.set \in SUBSET Kids
        BY <3>1 DEF KeyInv, SourceInv, SourceTypes, KeySet
      <3> QED
        BY <1>8, <1>9, <3>1, <3>2
    <2> QED
      BY <1>2, <2>1 DEF KeyInv, SourceInv, RefreshDone, Jwks!source
  <1>13. RequestInv'
    BY <1>2 DEF KeyInv, RequestInv, WaitsForRefresh, Jwks!source
  <1> QED
    BY <1>2, <1>7, <1>10, <1>11, <1>12, <1>13, RequestsAlone DEF KeyStepIsSafe, KeyInv, SourceInv

LEMMA KeyMoves ==
  ASSUME KeyInv, Jwks!Move
  PROVE  KeyStepIsSafe
  <1>1. PICK u \in Uris \ {idp.uri} : idp' = [idp EXCEPT !.uri = u]
    BY DEF Jwks!Move
  <1>2. /\ rotations < MaxRotations /\ rotations' = rotations + 1
        /\ UNCHANGED <<now, request>> /\ UNCHANGED Jwks!source
    BY DEF Jwks!Move
  <1>3. idp \in [keys : SUBSET Kids, since : [Kids -> Nat], uri : Uris]
    BY DEF KeyInv, ProviderTypes
  <1>4. /\ idp' \in [keys : SUBSET Kids, since : [Kids -> Nat], uri : Uris]
        /\ idp'.keys = idp.keys /\ idp'.since = idp.since
    BY <1>1, <1>3
  <1>5. ProviderTypes'
    BY <1>2, <1>4, KeyBounds DEF KeyInv, ProviderTypes
  <1>6. SourceInv'
    BY <1>2, <1>4 DEF KeyInv, SourceInv, SourceTypes, Pace, RefreshUnderWay, RefreshDone,
      Serials, Jwks!source
  <1>7. RequestInv'
    BY <1>2 DEF KeyInv, RequestInv, WaitsForRefresh, Jwks!source
  <1> QED
    BY <1>2, <1>5, <1>6, <1>7, RequestsAlone DEF KeyStepIsSafe, KeyInv

LEMMA KeyTick ==
  ASSUME KeyInv, Jwks!Tick
  PROVE  KeyStepIsSafe
  <1>1. /\ now < MaxTime /\ now' = now + 1
        /\ inflight.at # "none" => now < inflight.deadline
        /\ inflight.at = "none" => \A r \in Callers : request[r].at \notin {"wait", "retry"}
        /\ UNCHANGED <<idp, rotations, request>> /\ UNCHANGED Jwks!source
    BY DEF Jwks!Tick
  <1>2. now \in Nat
    BY KeyBounds DEF KeyInv, ProviderTypes
  <1>3. ProviderTypes'
    <2>1. \A kid \in Kids : idp.since[kid] \in Nat
      BY DEF KeyInv, ProviderTypes
    <2> QED
      BY <1>1, <1>2, <2>1, KeyBounds DEF KeyInv, ProviderTypes
  <1>4. SourceTypes'
    BY <1>1, <1>2 DEF KeyInv, SourceInv, SourceTypes, Jwks!source
  <1>5. RefreshUnderWay'
    <2>1. inflight.at # "none" => inflight.deadline \in Nat
      BY RefreshIsShort
    <2> QED
      BY <1>1, <1>2, <2>1 DEF KeyInv, SourceInv, RefreshUnderWay, Jwks!source
  <1>6. Pace' /\ RefreshDone' /\ Serials'
    BY <1>1 DEF KeyInv, SourceInv, Pace, RefreshDone, Serials, Jwks!source
  <1>7. RequestInv'
    <2>1. inflight' = inflight /\ UNCHANGED <<request, lastAttempt, keys>>
      BY <1>1 DEF Jwks!source
    <2> QED
      BY <1>1, <2>1, RequestsWaitOn
  <1> QED
    BY <1>1, <1>3, <1>4, <1>5, <1>6, <1>7, RequestsAlone DEF KeyStepIsSafe, KeyInv, SourceInv

LEMMA KeysInitially == Jwks!Init => KeyInv
  <1> SUFFICES ASSUME Jwks!Init  PROVE KeyInv
    OBVIOUS
  <1>1. PICK ks \in (SUBSET Kids) \ {{}}, u \in Uris :
          /\ idp = [keys |-> ks, since |-> [kid \in Kids |-> 0], uri |-> u]
          /\ jwksUri = IF Configured THEN u ELSE None
    BY DEF Jwks!Init
  <1>2. /\ now = 0 /\ rotations = 0 /\ fetches = 0 /\ keys = None /\ expiresAt = 0
        /\ lastAttempt = None /\ lastError = FALSE /\ inflight = Jwks!NotRunning
        /\ request = [r \in Callers |-> Jwks!IdleRequest]
    BY DEF Jwks!Init
  <1>3. ProviderTypes
    BY <1>1, <1>2, KeyBounds DEF ProviderTypes
  <1>4. inflight \in Fetch /\ inflight.at = "none"
    BY <1>2 DEF Fetch, Jwks!NotRunning
  <1>5. SourceInv
    BY <1>1, <1>2, <1>4 DEF SourceInv, SourceTypes, Pace, RefreshUnderWay, RefreshDone, Serials
  <1>6. RequestInv
    BY <1>2 DEF RequestInv, KeyRequest, WaitsForRefresh, Jwks!IdleRequest
  <1> QED
    BY <1>3, <1>5, <1>6 DEF KeyInv

LEMMA KeysStep == KeyInv /\ Jwks!Next => KeyStepIsSafe
  BY KeyRefuseAlg, KeyResume, KeyRetry, KeyDone, KeyLookup, KeySucceeds, KeyDiscovered,
     KeyServed, KeyFails, KeyRotates, KeyMoves, KeyTick DEF Jwks!Next

LEMMA KeysStutter == KeyInv /\ UNCHANGED Jwks!vars => KeyStepIsSafe
  <1> SUFFICES ASSUME KeyInv, UNCHANGED Jwks!vars  PROVE KeyStepIsSafe
    OBVIOUS
  <1>1. UNCHANGED <<now, idp, rotations, request>> /\ UNCHANGED Jwks!source
    BY DEF Jwks!vars
  <1>2. KeyInv'
    BY <1>1 DEF KeyInv, ProviderTypes, SourceInv, SourceTypes, Pace, RefreshUnderWay,
      RefreshDone, Serials, RequestInv, WaitsForRefresh, Jwks!source
  <1> QED
    BY <1>1, <1>2, RequestsAlone DEF KeyStepIsSafe

LEMMA KeysAreSafe == KeyInv => Jwks!TypeOK /\ Jwks!IdpIsSpared
  <1> SUFFICES ASSUME KeyInv  PROVE Jwks!TypeOK /\ Jwks!IdpIsSpared
    OBVIOUS
  <1>1. now \in Nat /\ fetches \in Nat
    BY KeyBounds DEF KeyInv, ProviderTypes, SourceInv, SourceTypes
  <1>2. Jwks!IdpIsSpared
    <2>1. CASE lastAttempt = None
      <3>1. now \div Cooldown \in Nat
        BY <1>1, KeyBounds, CooldownsPassed
      <3> QED
        BY <2>1, <3>1 DEF KeyInv, SourceInv, Pace, Jwks!IdpIsSpared
    <2>2. CASE lastAttempt # None
      <3>1. lastAttempt \in Nat /\ lastAttempt <= now
        BY <1>1, <2>2 DEF KeyInv, SourceInv, SourceTypes
      <3>2. /\ lastAttempt \div Cooldown \in Nat /\ now \div Cooldown \in Nat
            /\ lastAttempt \div Cooldown <= now \div Cooldown
        BY <1>1, <3>1, KeyBounds, CooldownsPassed
      <3>3. fetches <= (lastAttempt \div Cooldown) + 1
        BY <2>2 DEF KeyInv, SourceInv, Pace
      <3> QED
        BY <1>1, <3>2, <3>3 DEF Jwks!IdpIsSpared
    <2> QED
      BY <2>1, <2>2
  <1>3. Jwks!TypeOK
    <2>1. /\ now \in 0 .. MaxTime /\ rotations \in 0 .. MaxRotations
          /\ idp.keys \subseteq Kids /\ idp.uri \in Uris
      BY DEF KeyInv, ProviderTypes
    <2>2. keys = None \/ (keys.set \in (SUBSET Kids) \ {{}} /\ keys.serial \in 1 .. fetches)
      BY <1>1 DEF KeyInv, SourceInv, SourceTypes, KeySet, Serials
    <2>3. /\ lastAttempt = None \/ lastAttempt \in 0 .. now
          /\ jwksUri \in Uris \cup {None} /\ lastError \in BOOLEAN
          /\ inflight.at \in {"none", "discovery", "jwks", "body"}
          /\ inflight.at = "jwks" => jwksUri # None
      BY DEF KeyInv, SourceInv, SourceTypes, Fetch, RefreshUnderWay
    <2>4. \A r \in Callers : request[r].at \in Jwks!Results \cup {"idle", "wait", "retry"}
      BY DEF KeyInv, RequestInv, KeyRequest
    <2> QED
      BY <2>1, <2>2, <2>3, <2>4 DEF Jwks!TypeOK
  <1> QED
    BY <1>2, <1>3


-----------------------------------------------------------------------------
\* PolicyPull, with the policies of the control plane and with a file of its own.

Pulled == INSTANCE PolicyPull WITH Texts <- {}, BadTexts <- {}, FileSet <- FALSE,
                                   RouterEnabled <- TRUE, Calls <- PolicyCalls,
                                   MaxFileEdits <- 0
Local == INSTANCE PolicyPull WITH Bundles <- LocalBundles, FileSet <- TRUE,
                                  RouterEnabled <- FALSE, Calls <- PolicyCalls,
                                  MaxEdits <- LocalEdits, MaxFileEdits <- FileEdits,
                                  MaxFailures <- 0

\* served and in the texts T that the file may hold.

Etags(B) == {None} \cup {b.etag : b \in B}

PullOf(B) == [at : {"idle", "sent", "unchanged", "body"}, etag : Etags(B),
              body : B \cup {None}, rev : Nat]

ReloadOf(T) == [at : {"idle", "reading", "read"}, text : T \cup {None}, rev : Nat]

InForce(b, rev) ==
  [etag |-> b.etag, version |-> b.version, rev |-> rev,
   route |-> b.tenant.route, access |-> b.tenant.access]

PolicyTypes(B, T) ==
  /\ served \in B /\ edits \in Nat /\ fileEdits \in Nat
  /\ active = None \/ \E b \in B, n \in 0 .. edits : active = InForce(b, n)
  /\ file \in T \cup {None}
  /\ loaded = None \/ \E t \in T, n \in 0 .. fileEdits : loaded = [text |-> t, rev |-> n]
  /\ pull \in [Pulls -> PullOf(B)]
  /\ reload \in [Pulls -> ReloadOf(T)]

\* One pull and one reload at a time.
NoOverlaps ==
  \A p, q \in Pulls :
    /\ pull[p].at # "idle" /\ pull[q].at # "idle" => p = q
    /\ reload[p].at # "idle" /\ reload[q].at # "idle" => p = q

\* What a pull or a reload has read is no older than what is in force.
NothingOlder(B) ==
  \A p \in Pulls :
    /\ pull[p].at = "body" =>
         /\ pull[p].body \in B /\ pull[p].rev <= edits
         /\ active # None => active.rev <= pull[p].rev
    /\ reload[p].at = "read" =>
         /\ reload[p].rev <= fileEdits
         /\ loaded # None => loaded.rev <= reload[p].rev

PolicyInv(B, T) == PolicyTypes(B, T) /\ NoOverlaps /\ NothingOlder(B)

PolicyStepIsSafe(B, T) == PolicyInv(B, T)' /\ Pulled!InOrderStep /\ Local!InOrderStep

\* The two units, by their bundles and texts.
IsPulled(B, T) == B = Bundles /\ T = {}
IsLocal(B, T) == B = LocalBundles /\ T = Texts

LEMMA RevsAreNumbers ==
  ASSUME NEW B, NEW T, PolicyTypes(B, T)
  PROVE  /\ active # None => active.rev \in 0 .. edits
         /\ loaded # None => loaded.rev \in 0 .. fileEdits
  BY DEF PolicyTypes, InForce

\* What is in force stays, and so does its order.
LEMMA PolicyStays ==
  ASSUME NEW B, NEW T, PolicyTypes(B, T), UNCHANGED <<active, loaded>>
  PROVE  Pulled!InOrderStep /\ Local!InOrderStep
  <1>1. /\ active # None => active.rev \in 0 .. edits
        /\ loaded # None => loaded.rev \in 0 .. fileEdits
        /\ edits \in Nat /\ fileEdits \in Nat
    BY RevsAreNumbers DEF PolicyTypes
  <1> QED
    BY <1>1 DEF Pulled!InOrderStep, Local!InOrderStep

LEMMA PolicyStartPull ==
  ASSUME NEW B, NEW T, PolicyInv(B, T), NEW p \in Pulls, Pulled!StartPull(p) \/ Local!StartPull(p)
  PROVE  PolicyStepIsSafe(B, T)
  <1> DEFINE new == [at |-> "sent", etag |-> IF active = None THEN None ELSE active.etag,
                     body |-> None, rev |-> 0]
  <1>1. /\ \A q \in Pulls : pull[q].at = "idle"
        /\ pull' = [pull EXCEPT ![p] = new]
        /\ UNCHANGED <<served, edits, file, fileEdits, loaded, badText, reload, active>>
    BY DEF Pulled!StartPull, Local!StartPull, Pulled!NoPullRunning, Local!NoPullRunning,
      Pulled!Idle, Local!Idle, Pulled!IdlePull, Local!IdlePull, Pulled!central, Local!central,
      Pulled!local, Local!local
  <1>2. new \in PullOf(B) /\ new.at = "sent"
    <2>1. new.etag \in Etags(B)
      BY DEF PolicyInv, PolicyTypes, InForce, Etags
    <2> QED
      BY <2>1 DEF PullOf
  <1> HIDE DEF new
  <1>3. /\ pull' \in [Pulls -> PullOf(B)] /\ pull'[p] = new
        /\ \A q \in Pulls \ {p} : pull'[q] = pull[q]
    BY <1>1, <1>2 DEF PolicyInv, PolicyTypes
  <1>4. PolicyTypes(B, T)'
    BY <1>1, <1>3 DEF PolicyInv, PolicyTypes
  <1>5. NoOverlaps'
    BY <1>1, <1>3 DEF PolicyInv, NoOverlaps
  <1>6. NothingOlder(B)'
    BY <1>1, <1>2, <1>3 DEF PolicyInv, NothingOlder
  <1> QED
    BY <1>1, <1>4, <1>5, <1>6, PolicyStays DEF PolicyStepIsSafe, PolicyInv

LEMMA PolicyAnswered ==
  ASSUME NEW B, NEW T, PolicyInv(B, T), NEW p \in Pulls,
         Pulled!CollectorAnswers(p) \/ Local!CollectorAnswers(p)
  PROVE  PolicyStepIsSafe(B, T)
  <1> DEFINE old == pull[p]
             new == IF served.etag = old.etag THEN [old EXCEPT !.at = "unchanged"]
                    ELSE [old EXCEPT !.at = "body", !.body = served, !.rev = edits]
  <1>1. /\ old.at = "sent" /\ pull' = [pull EXCEPT ![p] = new]
        /\ UNCHANGED <<served, edits, file, fileEdits, loaded, badText, reload, active>>
    BY DEF Pulled!CollectorAnswers, Local!CollectorAnswers, Pulled!central, Local!central,
      Pulled!local, Local!local
  <1>2. old \in PullOf(B) /\ served \in B /\ edits \in Nat
    BY DEF PolicyInv, PolicyTypes
  <1> HIDE DEF old
  <1>3. /\ new \in PullOf(B) /\ new.at \in {"unchanged", "body"}
        /\ new.at = "body" => new.body = served /\ new.rev = edits
    BY <1>2 DEF PullOf
  <1> HIDE DEF new
  <1>4. /\ pull' \in [Pulls -> PullOf(B)] /\ pull'[p] = new
        /\ \A q \in Pulls \ {p} : pull'[q] = pull[q]
    BY <1>1, <1>3 DEF PolicyInv, PolicyTypes
  <1>5. PolicyTypes(B, T)'
    BY <1>1, <1>4 DEF PolicyInv, PolicyTypes
  <1>6. NoOverlaps'
    BY <1>1, <1>4 DEF PolicyInv, NoOverlaps, old
  <1>7. NothingOlder(B)'
    <2>1. active # None => active.rev \in 0 .. edits
      BY RevsAreNumbers DEF PolicyInv
    <2> QED
      BY <1>1, <1>2, <1>3, <1>4, <2>1 DEF PolicyInv, NothingOlder
  <1> QED
    BY <1>1, <1>5, <1>6, <1>7, PolicyStays DEF PolicyStepIsSafe, PolicyInv

\* However a pull ends, it is idle again.
LEMMA PullOver ==
  ASSUME NEW B, NEW T, PolicyInv(B, T), NEW p \in Pulls,
         pull' = [pull EXCEPT ![p] = Pulled!IdlePull],
         UNCHANGED <<served, edits, file, fileEdits, loaded, reload>>,
         active' = active \/ (pull[p].at = "body" /\ active' = InForce(pull[p].body, pull[p].rev))
  PROVE  PolicyStepIsSafe(B, T)
  <1>1. Pulled!IdlePull \in PullOf(B) /\ Pulled!IdlePull.at = "idle"
    BY DEF Pulled!IdlePull, PullOf, Etags
  <1>2. /\ pull' \in [Pulls -> PullOf(B)] /\ pull'[p] = Pulled!IdlePull
        /\ \A q \in Pulls \ {p} : pull'[q] = pull[q]
    BY <1>1 DEF PolicyInv, PolicyTypes
  <1>3. NoOverlaps'
    BY <1>1, <1>2 DEF PolicyInv, NoOverlaps
  <1>4. CASE active' = active
    <2>1. PolicyTypes(B, T)'
      BY <1>2, <1>4 DEF PolicyInv, PolicyTypes
    <2>2. NothingOlder(B)'
      BY <1>1, <1>2, <1>4 DEF PolicyInv, NothingOlder
    <2> QED
      BY <1>3, <1>4, <2>1, <2>2, PolicyStays DEF PolicyStepIsSafe, PolicyInv
  <1>5. CASE pull[p].at = "body" /\ active' = InForce(pull[p].body, pull[p].rev)
    <2>1. /\ pull[p].body \in B /\ pull[p].rev <= edits /\ pull[p].rev \in Nat
          /\ active # None => active.rev <= pull[p].rev
      BY <1>5 DEF PolicyInv, NothingOlder, PolicyTypes, PullOf
    <2>2. PolicyTypes(B, T)'
      <3>1. pull[p].rev \in 0 .. edits'
        BY <2>1 DEF PolicyInv, PolicyTypes
      <3>2. \E b \in B, n \in 0 .. edits' : active' = InForce(b, n)
        BY <1>5, <2>1, <3>1
      <3> QED
        BY <1>2, <3>2 DEF PolicyInv, PolicyTypes
    \* No other pull is under way.
    <2>3. NothingOlder(B)'
      BY <1>1, <1>2, <1>5 DEF PolicyInv, NothingOlder, NoOverlaps
    <2>4. active'.rev = pull[p].rev
      BY <1>5 DEF InForce
    <2>5. loaded # None => loaded.rev \in 0 .. fileEdits
      BY RevsAreNumbers DEF PolicyInv
    <2>6. Pulled!InOrderStep /\ Local!InOrderStep
      BY <2>1, <2>4, <2>5 DEF Pulled!InOrderStep, Local!InOrderStep, PolicyInv, PolicyTypes
    <2> QED
      BY <1>3, <2>2, <2>3, <2>6 DEF PolicyStepIsSafe, PolicyInv
  <1> QED
    BY <1>4, <1>5

LEMMA PullEnds ==
  ASSUME NEW B, NEW T, PolicyInv(B, T), NEW p \in Pulls, NEW reason,
         \/ Pulled!Unchanged304(p) \/ Pulled!SameRejected(p) \/ Pulled!Reject(p)
         \/ Pulled!Apply(p) \/ Pulled!PullFails(p, reason)
         \/ Local!Unchanged304(p) \/ Local!SameRejected(p) \/ Local!Reject(p)
         \/ Local!Apply(p) \/ Local!PullFails(p, reason)
  PROVE  PolicyStepIsSafe(B, T)
  <1>1. /\ pull' = [pull EXCEPT ![p] = Pulled!IdlePull]
        /\ UNCHANGED <<served, edits, file, fileEdits, loaded, reload>>
    BY DEF Pulled!Unchanged304, Pulled!SameRejected, Pulled!Reject, Pulled!Apply,
      Pulled!PullFails, Local!Unchanged304, Local!SameRejected, Local!Reject, Local!Apply,
      Local!PullFails, Pulled!Ends, Local!Ends, Pulled!central, Local!central, Pulled!local,
      Local!local, Pulled!IdlePull, Local!IdlePull
  <1>2. \/ active' = active
        \/ pull[p].at = "body" /\ active' = InForce(pull[p].body, pull[p].rev)
    BY DEF Pulled!Unchanged304, Pulled!SameRejected, Pulled!Reject, Pulled!Apply,
      Pulled!PullFails, Local!Unchanged304, Local!SameRejected, Local!Reject, Local!Apply,
      Local!PullFails, Pulled!Policy, Local!Policy, InForce
  <1> QED
    BY <1>1, <1>2, PullOver

\* A step that changes one reload, and what is loaded only from what it read.
LEMMA ReloadMoves ==
  ASSUME NEW B, NEW T, PolicyInv(B, T), NEW p \in Pulls, NEW new \in ReloadOf(T),
         reload' = [reload EXCEPT ![p] = new],
         new.at # "idle" => \A q \in Pulls \ {p} : reload[q].at = "idle",
         new.at = "read" => new.rev = fileEdits,
         UNCHANGED <<served, edits, active, pull, file, fileEdits>>,
         \/ loaded' = loaded
         \/ /\ reload[p].at = "read" /\ reload[p].text \in T /\ new.at = "idle"
            /\ loaded' = [text |-> reload[p].text, rev |-> reload[p].rev]
  PROVE  PolicyStepIsSafe(B, T)
  <1>1. /\ reload' \in [Pulls -> ReloadOf(T)] /\ reload'[p] = new
        /\ \A q \in Pulls \ {p} : reload'[q] = reload[q]
    BY DEF PolicyInv, PolicyTypes
  <1>2. NoOverlaps'
    BY <1>1 DEF PolicyInv, NoOverlaps
  <1>3. /\ active # None => active.rev \in 0 .. edits
        /\ loaded # None => loaded.rev \in 0 .. fileEdits
        /\ edits \in Nat /\ fileEdits \in Nat
    BY RevsAreNumbers DEF PolicyInv, PolicyTypes
  <1>4. CASE loaded' = loaded
    <2>1. PolicyTypes(B, T)'
      BY <1>1, <1>4 DEF PolicyInv, PolicyTypes
    <2>2. NothingOlder(B)'
      BY <1>1, <1>3, <1>4 DEF PolicyInv, NothingOlder
    <2> QED
      BY <1>2, <1>4, <2>1, <2>2, PolicyStays DEF PolicyStepIsSafe, PolicyInv
  <1>5. CASE /\ reload[p].at = "read" /\ reload[p].text \in T /\ new.at = "idle"
             /\ loaded' = [text |-> reload[p].text, rev |-> reload[p].rev]
    <2>1. /\ reload[p].rev <= fileEdits /\ reload[p].rev \in Nat
          /\ loaded # None => loaded.rev <= reload[p].rev
      BY <1>5 DEF PolicyInv, NothingOlder, PolicyTypes, ReloadOf
    <2>2. PolicyTypes(B, T)'
      <3>1. reload[p].rev \in 0 .. fileEdits'
        BY <1>3, <2>1
      <3>2. \E t \in T, n \in 0 .. fileEdits' : loaded' = [text |-> t, rev |-> n]
        BY <1>5, <3>1
      <3> QED
        BY <1>1, <3>2 DEF PolicyInv, PolicyTypes
    <2>3. NothingOlder(B)'
      BY <1>1, <1>5 DEF PolicyInv, NothingOlder, NoOverlaps
    <2>4. loaded'.rev = reload[p].rev
      BY <1>5
    <2>5. Pulled!InOrderStep /\ Local!InOrderStep
      BY <1>3, <2>1, <2>4 DEF Pulled!InOrderStep, Local!InOrderStep
    <2> QED
      BY <1>2, <2>2, <2>3, <2>5 DEF PolicyStepIsSafe, PolicyInv
  <1> QED
    BY <1>4, <1>5

LEMMA PolicyReload ==
  ASSUME NEW B, NEW T, PolicyInv(B, T), NEW p \in Pulls,
         \/ Pulled!StartReload(p) \/ Pulled!ReloadStep(p)
         \/ Local!StartReload(p) \/ Local!ReloadStep(p)
  PROVE  PolicyStepIsSafe(B, T)
  <1> DEFINE old == reload[p]
  <1>0. old \in ReloadOf(T) /\ file \in T \cup {None} /\ fileEdits \in Nat
    BY DEF PolicyInv, PolicyTypes
  <1>1. CASE Pulled!StartReload(p) \/ Local!StartReload(p)
    <2> DEFINE new == [old EXCEPT !.at = "reading"]
    <2>1. /\ \A q \in Pulls : reload[q].at = "idle"
          /\ reload' = [reload EXCEPT ![p] = new]
          /\ UNCHANGED <<served, edits, active, pull, file, fileEdits, loaded>>
      BY <1>1 DEF Pulled!StartReload, Local!StartReload, Pulled!NoReloadRunning,
        Local!NoReloadRunning, Pulled!central, Local!central, Pulled!puller, Local!puller
    <2> HIDE DEF old
    <2>2. new \in ReloadOf(T) /\ new.at = "reading"
      BY <1>0 DEF ReloadOf
    <2> HIDE DEF new
    <2> QED
      BY <2>1, <2>2, ReloadMoves
  <1>2. CASE Pulled!ReadFile(p) \/ Local!ReadFile(p)
    <2> DEFINE new == [at |-> "read", text |-> file, rev |-> fileEdits]
    <2>1. /\ old.at = "reading" /\ reload' = [reload EXCEPT ![p] = new]
          /\ UNCHANGED <<served, edits, active, pull, file, fileEdits, loaded>>
      BY <1>2 DEF Pulled!ReadFile, Local!ReadFile, Pulled!central, Local!central,
        Pulled!puller, Local!puller
    <2>2. \A q \in Pulls \ {p} : reload[q].at = "idle"
      BY <2>1 DEF PolicyInv, NoOverlaps
    <2>3. new \in ReloadOf(T) /\ new.at = "read" /\ new.rev = fileEdits
      BY <1>0 DEF ReloadOf
    <2> HIDE DEF new
    <2> QED
      BY <2>1, <2>2, <2>3, ReloadMoves
  <1>3. CASE Pulled!JudgeFile(p) \/ Local!JudgeFile(p)
    <2> DEFINE new == Pulled!IdleReload
    <2>1. /\ old.at = "read" /\ reload' = [reload EXCEPT ![p] = new]
          /\ UNCHANGED <<served, edits, active, pull, file, fileEdits>>
      BY <1>3 DEF Pulled!JudgeFile, Local!JudgeFile, Pulled!central, Local!central,
        Pulled!puller, Local!puller, Pulled!IdleReload, Local!IdleReload
    <2>2. new \in ReloadOf(T) /\ new.at = "idle"
      BY DEF ReloadOf, Pulled!IdleReload
    <2>3. \/ loaded' = loaded
          \/ old.text \in T /\ loaded' = [text |-> old.text, rev |-> old.rev]
      <3>1. \/ loaded' = loaded
            \/ old.text # None /\ loaded' = [text |-> old.text, rev |-> old.rev]
        BY <1>3 DEF Pulled!JudgeFile, Local!JudgeFile
      <3> QED
        BY <1>0, <3>1 DEF ReloadOf
    <2> HIDE DEF new
    <2> QED
      BY <2>1, <2>2, <2>3, ReloadMoves
  <1> QED
    BY <1>1, <1>2, <1>3 DEF Pulled!ReloadStep, Local!ReloadStep

LEMMA PolicyEdits ==
  ASSUME NEW B, NEW T, PolicyInv(B, T),
         \/ IsPulled(B, T) /\ (Pulled!EditPolicy \/ Pulled!EditFile)
         \/ IsLocal(B, T) /\ (Local!EditPolicy \/ Local!EditFile)
  PROVE  PolicyStepIsSafe(B, T)
  <1>1. /\ served' \in B /\ edits' \in {edits, edits + 1}
        /\ file' \in T \cup {None} /\ fileEdits' \in {fileEdits, fileEdits + 1}
        /\ UNCHANGED <<active, pull, loaded, reload>>
    BY DEF PolicyInv, PolicyTypes, IsPulled, IsLocal, Pulled!EditPolicy, Pulled!EditFile,
      Local!EditPolicy, Local!EditFile, Pulled!puller, Local!puller, Pulled!local,
      Local!local, Pulled!central, Local!central
  <1>2. edits \in Nat /\ fileEdits \in Nat
    BY DEF PolicyInv, PolicyTypes
  <1>3. 0 .. edits \subseteq 0 .. edits' /\ 0 .. fileEdits \subseteq 0 .. fileEdits'
    BY <1>1, <1>2
  <1>4. PolicyTypes(B, T)'
    <2>1. active' = None \/ \E b \in B, n \in 0 .. edits' : active' = InForce(b, n)
      BY <1>1, <1>3 DEF PolicyInv, PolicyTypes
    <2>2. loaded' = None \/ \E t \in T, n \in 0 .. fileEdits' : loaded' = [text |-> t, rev |-> n]
      BY <1>1, <1>3 DEF PolicyInv, PolicyTypes
    <2> QED
      BY <1>1, <1>2, <2>1, <2>2 DEF PolicyInv, PolicyTypes
  <1>5. NoOverlaps'
    BY <1>1 DEF PolicyInv, NoOverlaps
  <1>6. NothingOlder(B)'
    <2>1. \A p \in Pulls : pull[p].rev \in Nat /\ reload[p].rev \in Nat
      BY DEF PolicyInv, PolicyTypes, PullOf, ReloadOf
    <2> QED
      BY <1>1, <1>2, <2>1 DEF PolicyInv, NothingOlder
  <1> QED
    BY <1>1, <1>4, <1>5, <1>6, PolicyStays DEF PolicyStepIsSafe, PolicyInv

\* A step of a call, or no step, leaves the policies alone.
LEMMA PoliciesAlone ==
  ASSUME NEW B, NEW T, PolicyInv(B, T),
         UNCHANGED <<served, edits, active, pull, file, fileEdits, loaded, reload>>
  PROVE  PolicyStepIsSafe(B, T)
  <1>1. PolicyTypes(B, T)' /\ NoOverlaps' /\ NothingOlder(B)'
    BY DEF PolicyInv, PolicyTypes, NoOverlaps, NothingOlder
  <1> QED
    BY <1>1, PolicyStays DEF PolicyStepIsSafe, PolicyInv

LEMMA PolicyCallsStep ==
  ASSUME NEW c,
         \/ Pulled!Authorise(c) \/ Pulled!Route(c) \/ Pulled!SendTelemetry(c)
         \/ Local!Authorise(c) \/ Local!Route(c) \/ Local!SendTelemetry(c)
  PROVE  UNCHANGED <<served, edits, active, pull, file, fileEdits, loaded, reload>>
  BY DEF Pulled!Authorise, Pulled!Route, Pulled!SendTelemetry, Local!Authorise, Local!Route,
    Local!SendTelemetry, Pulled!central, Local!central, Pulled!puller, Local!puller,
    Pulled!local, Local!local

LEMMA PulledStep ==
  ASSUME PolicyInv(Bundles, {}), Pulled!Next
  PROVE  PolicyStepIsSafe(Bundles, {})
  <1>1. ASSUME NEW p \in Pulls, Pulled!StartPull(p) \/ Pulled!PullStep(p)
                                  \/ Pulled!StartReload(p) \/ Pulled!ReloadStep(p)
        PROVE  PolicyStepIsSafe(Bundles, {})
    BY <1>1, PolicyStartPull, PolicyAnswered, PullEnds, PolicyReload DEF Pulled!PullStep
  <1>2. ASSUME NEW p \in Pulls, NEW reason \in {"http", "network"}, Pulled!PullFails(p, reason)
        PROVE  PolicyStepIsSafe(Bundles, {})
    BY <1>2, PullEnds
  <1>3. ASSUME NEW c \in PolicyCalls,
               Pulled!Authorise(c) \/ Pulled!Route(c) \/ Pulled!SendTelemetry(c)
        PROVE  PolicyStepIsSafe(Bundles, {})
    <2>1. UNCHANGED <<served, edits, active, pull, file, fileEdits, loaded, reload>>
      BY <1>3, PolicyCallsStep
    <2> QED
      BY <2>1, PoliciesAlone
  <1>4. ASSUME Pulled!EditPolicy \/ Pulled!EditFile
        PROVE  PolicyStepIsSafe(Bundles, {})
    BY <1>4, PolicyEdits DEF IsPulled
  <1> QED
    BY <1>1, <1>2, <1>3, <1>4 DEF Pulled!Next

LEMMA LocalStep ==
  ASSUME PolicyInv(LocalBundles, Texts), Local!Next
  PROVE  PolicyStepIsSafe(LocalBundles, Texts)
  <1>1. ASSUME NEW p \in Pulls, Local!StartPull(p) \/ Local!PullStep(p)
                                  \/ Local!StartReload(p) \/ Local!ReloadStep(p)
        PROVE  PolicyStepIsSafe(LocalBundles, Texts)
    BY <1>1, PolicyStartPull, PolicyAnswered, PullEnds, PolicyReload DEF Local!PullStep
  <1>2. ASSUME NEW p \in Pulls, NEW reason \in {"http", "network"}, Local!PullFails(p, reason)
        PROVE  PolicyStepIsSafe(LocalBundles, Texts)
    BY <1>2, PullEnds
  <1>3. ASSUME NEW c \in PolicyCalls,
               Local!Authorise(c) \/ Local!Route(c) \/ Local!SendTelemetry(c)
        PROVE  PolicyStepIsSafe(LocalBundles, Texts)
    <2>1. UNCHANGED <<served, edits, active, pull, file, fileEdits, loaded, reload>>
      BY <1>3, PolicyCallsStep
    <2> QED
      BY <2>1, PoliciesAlone
  <1>4. ASSUME Local!EditPolicy \/ Local!EditFile
        PROVE  PolicyStepIsSafe(LocalBundles, Texts)
    BY <1>4, PolicyEdits DEF IsLocal
  <1> QED
    BY <1>1, <1>2, <1>3, <1>4 DEF Local!Next

LEMMA PulledInitially == Pulled!Init => PolicyInv(Bundles, {})
  <1> SUFFICES ASSUME Pulled!Init  PROVE PolicyInv(Bundles, {})
    OBVIOUS
  <1>1. /\ served \in Bundles /\ edits = 0 /\ fileEdits = 0 /\ active = None
        /\ file = None /\ loaded = None
        /\ pull = [p \in Pulls |-> Pulled!IdlePull] /\ reload = [p \in Pulls |-> Pulled!IdleReload]
    BY DEF Pulled!Init
  <1> QED
    BY <1>1 DEF PolicyInv, PolicyTypes, NoOverlaps, NothingOlder, PullOf, ReloadOf, Etags,
      Pulled!IdlePull, Pulled!IdleReload

LEMMA LocalInitially == Local!Init => PolicyInv(LocalBundles, Texts)
  <1> SUFFICES ASSUME Local!Init  PROVE PolicyInv(LocalBundles, Texts)
    OBVIOUS
  <1>1. /\ served \in LocalBundles /\ edits = 0 /\ fileEdits = 0 /\ active = None
        /\ file \in Texts /\ loaded = [text |-> file, rev |-> 0]
        /\ pull = [p \in Pulls |-> Local!IdlePull] /\ reload = [p \in Pulls |-> Local!IdleReload]
    BY DEF Local!Init
  <1>2. \E t \in Texts, n \in 0 .. fileEdits : loaded = [text |-> t, rev |-> n]
    BY <1>1
  <1> QED
    BY <1>1, <1>2 DEF PolicyInv, PolicyTypes, NoOverlaps, NothingOlder, PullOf, ReloadOf, Etags,
      Local!IdlePull, Local!IdleReload


-----------------------------------------------------------------------------
\* EventSinks.

Sinks == INSTANCE EventSinks WITH MaxRequests <- Reports,
                                  Outcomes <- {"refused", "budget", "called"},
                                  Platforms <- {"node", "workers"}

ASSUME SinksAssumption ==
  /\ Reports \in Nat /\ MaxLines \in Nat
  /\ LogQueue \in Nat /\ LogBatch \in Nat \ {0} /\ LogSlots \in Nat
  /\ SpanQueue \in Nat /\ SpanBatch \in Nat \ {0}

ToLines == IF "lines" \in sinks THEN events ELSE {}
ToLogs == IF "logs" \in sinks THEN events ELSE {}

LinesKept ==
  /\ lines \in Seq(ToLines) /\ Distinct(lines) /\ Len(lines) <= MaxLines
  /\ Parts(ToLines, Elements(lines), {}, written, lineDrops)

LogsKept == Sound(logQueue, logFlights, logDelivered, logDropped, ToLogs, LogSlots)
SpansKept == Sound(spanQueue, spanFlights, spanDelivered, spanDropped, spans, Reports + 1)

SinkTypes ==
  /\ request \in [1 .. Reports -> {"new", "open", "answered", "closed", "turned_away"}]
  /\ scheduled \in BOOLEAN /\ waitingForDrain \in BOOLEAN
  /\ logTimer \in BOOLEAN /\ spanTimer \in BOOLEAN
  /\ phase \in {"serving", "draining", "telemetry", "logs", "exited", "killed"}
  /\ late \subseteq {"http", "logs"}
  /\ drainer.at \in {"idle", "top", "awaiting", "racing", "done"}

\* Only a request that was answered has left an event or a span.
Told ==
  /\ events \subseteq 1 .. Reports /\ spans \subseteq 1 .. Reports
  /\ \A r \in events \cup spans : request[r] \in {"answered", "closed"}

Silent == logQueue = << >> /\ logFlights = {}

\* Once the server is drained nothing is reported, so what drain() found empty
\* stays empty.
Ending ==
  /\ phase \in {"telemetry", "logs", "exited"} /\ "http" \notin late =>
       \A r \in 1 .. Reports : request[r] \notin {"open", "answered"}
  /\ phase = "logs" /\ "http" \notin late /\ drainer.at = "done" => Silent
  /\ phase = "exited" => lines = << >> /\ (late = {} => Silent)

SinksInv == LinesKept /\ LogsKept /\ SpansKept /\ SinkTypes /\ Told /\ Ending

LEMMA SinkBounds ==
  /\ Reports \in Nat /\ Reports + 1 \in Nat /\ MaxLines \in Nat
  /\ LogQueue \in Nat /\ LogBatch \in Nat \ {0} /\ LogSlots \in Nat
  /\ SpanQueue \in Nat /\ SpanBatch \in Nat \ {0}
  BY SinksAssumption

-----------------------------------------------------------------------------
\* What the two exporters do is what the lemmas above are about.

LEMMA TheSets ==
  /\ \A s : Sinks!Range(s) = Elements(s)
  /\ \A s : Sinks!Logs!Range(s) = Elements(s)
  /\ \A s : Sinks!Spans!Range(s) = Elements(s)
  BY DEF Sinks!Range, Sinks!Logs!Range, Sinks!Spans!Range, Elements

LEMMA LeastOfTwo ==
  ASSUME NEW x, NEW y
  PROVE  /\ Sinks!Logs!Least(x, y) = IF x <= y THEN x ELSE y
         /\ Sinks!Spans!Least(x, y) = IF x <= y THEN x ELSE y
  BY DEF Sinks!Logs!Least, Sinks!Spans!Least

LEMMA LogBatches ==
  ASSUME NEW S, NEW s \in Seq(S), Distinct(s)
  PROVE  Sinks!Logs!BatchesOf(s) = Batches(LogBatch, s)
  <1> DEFINE end(i) == Sinks!Logs!Least((i + 1) * LogBatch, Len(s))
  <1>1. Len(s) \in Nat /\ LogBatch \in Nat \ {0}
    BY ElementsOf, SinkBounds
  <1>2. ASSUME NEW i \in Starts(LogBatch, s)
        PROVE  Sinks!Logs!Range(SubSeq(s, i * LogBatch + 1, end(i))) = BatchAt(LogBatch, s, i)
    <2>1. i \in Nat /\ (i + 1) * LogBatch \in Int
      BY <1>1 DEF Starts
    <2>2. end(i) = IF (i + 1) * LogBatch <= Len(s) THEN (i + 1) * LogBatch ELSE Len(s)
      BY <1>1, <2>1, LeastOfTwo
    <2> HIDE DEF end
    <2>3. Elements(SubSeq(s, i * LogBatch + 1, end(i))) = BatchAt(LogBatch, s, i)
      BY <1>1, <2>2, BatchIs
    <2> QED
      BY <2>3, TheSets
  <1>3. Sinks!Logs!BatchesOf(s) =
          {Sinks!Logs!Range(SubSeq(s, i * LogBatch + 1, end(i))) : i \in Starts(LogBatch, s)}
    BY DEF Sinks!Logs!BatchesOf, Starts
  <1> QED
    BY <1>2, <1>3 DEF Batches

LEMMA SpanBatches ==
  ASSUME NEW S, NEW s \in Seq(S), Distinct(s)
  PROVE  Sinks!Spans!BatchesOf(s) = Batches(SpanBatch, s)
  <1> DEFINE end(i) == Sinks!Spans!Least((i + 1) * SpanBatch, Len(s))
  <1>1. Len(s) \in Nat /\ SpanBatch \in Nat \ {0}
    BY ElementsOf, SinkBounds
  <1>2. ASSUME NEW i \in Starts(SpanBatch, s)
        PROVE  Sinks!Spans!Range(SubSeq(s, i * SpanBatch + 1, end(i))) = BatchAt(SpanBatch, s, i)
    <2>1. i \in Nat /\ (i + 1) * SpanBatch \in Int
      BY <1>1 DEF Starts
    <2> DEFINE last == (i + 1) * SpanBatch
    <2>a. last \in Int /\ Len(s) \in Int /\ end(i) = Sinks!Spans!Least(last, Len(s))
      BY <1>1, <2>1
    <2> HIDE DEF last
    <2>b. Sinks!Spans!Least(last, Len(s)) = IF last <= Len(s) THEN last ELSE Len(s)
      BY <2>a, LeastOfTwo
    <2>2. end(i) = IF last <= Len(s) THEN last ELSE Len(s)
      BY <2>a, <2>b
    <2> HIDE DEF end
    <2>3. Elements(SubSeq(s, i * SpanBatch + 1, end(i))) = BatchAt(SpanBatch, s, i)
      BY <1>1, <2>2, BatchIs DEF last
    <2> QED
      BY <2>3, TheSets
  <1>3. Sinks!Spans!BatchesOf(s) =
          {Sinks!Spans!Range(SubSeq(s, i * SpanBatch + 1, end(i))) : i \in Starts(SpanBatch, s)}
    BY DEF Sinks!Spans!BatchesOf, Starts
  <1> QED
    BY <1>2, <1>3 DEF Batches

\* A flush of the queue q, whose records the exporter accounts for.
LEMMA LogsFlush ==
  ASSUME NEW q, NEW drop, NEW all, Sinks!Logs!FlushOf(q),
         Sound(q, logFlights, logDelivered, drop, all, LogSlots)
  PROVE  /\ Sound(logQueue', logFlights', logDelivered, drop, all, LogSlots)
         /\ logTimer' \in BOOLEAN
         /\ q = << >> => logQueue' = << >> /\ logFlights' = logFlights
  <1> DEFINE t == Sinks!Logs!Taken(q)
             room == LogBatch * (LogSlots - Cardinality(logFlights))
  <1>1. /\ q \in Seq(all) /\ Distinct(q) /\ IsFiniteSet(logFlights)
        /\ Cardinality(logFlights) <= LogSlots
    BY DEF Sound
  <1>2. Len(q) \in Nat /\ Cardinality(logFlights) \in Nat
    BY <1>1, ElementsOf, FS_CardinalityType
  <1>3. room \in Nat
    <2>1. LogSlots - Cardinality(logFlights) \in Nat
      BY <1>1, <1>2, SinkBounds
    <2> QED
      BY <2>1, SinkBounds
  <1>4. t = Sinks!Logs!Least(Len(q), room)
    BY DEF Sinks!Logs!Taken, Sinks!Logs!Cardinality, Cardinality
  <1> HIDE DEF t, room
  <1>5. t \in 0 .. Len(q) /\ t <= room
    BY <1>2, <1>3, <1>4, LeastOfTwo
  <1>6. /\ logFlights' = logFlights \cup Sinks!Logs!BatchesOf(SubSeq(q, 1, t))
        /\ logQueue' = SubSeq(q, t + 1, Len(q)) /\ logTimer' = FALSE
    BY DEF Sinks!Logs!FlushOf, t
  <1>7. SubSeq(q, 1, t) \in Seq(all) /\ Distinct(SubSeq(q, 1, t)) /\ Len(SubSeq(q, 1, t)) = t
    BY <1>1, <1>5, CutInTwo
  <1>8. logFlights' = logFlights \cup Batches(LogBatch, SubSeq(q, 1, t))
    BY <1>6, <1>7, LogBatches
  <1>9. Sound(logQueue', logFlights', logDelivered, drop, all, LogSlots)
    BY <1>5, <1>6, <1>8, SinkBounds, SoundFlush DEF room
  <1>10. ASSUME q = << >>  PROVE logQueue' = << >> /\ logFlights' = logFlights
    <2>1. Len(q) = 0 /\ t = 0
      BY <1>1, <1>5, <1>10, ElementsOf
    <2>2. logQueue' \in Seq(all) /\ Len(logQueue') = 0
      BY <1>1, <1>5, <1>6, <2>1, CutInTwo
    <2>3. Starts(LogBatch, SubSeq(q, 1, t)) = {}
      <3>1. Len(SubSeq(q, 1, t)) = 0
        BY <1>7, <2>1
      <3>2. ASSUME NEW i \in 0 .. 0  PROVE ~(i * LogBatch < 0)
        BY SinkBounds
      <3> QED
        BY <3>1, <3>2 DEF Starts
    <2>4. Batches(LogBatch, SubSeq(q, 1, t)) = {}
      BY <2>3 DEF Batches
    <2> QED
      BY <1>8, <2>2, <2>4, ElementsOf
  <1> QED
    BY <1>6, <1>9, <1>10

LEMMA SpansFlush ==
  ASSUME NEW q, NEW drop, NEW all, Sinks!Spans!FlushOf(q),
         Sound(q, spanFlights, spanDelivered, drop, all, Reports + 1)
  PROVE  /\ Sound(spanQueue', spanFlights', spanDelivered, drop, all, Reports + 1)
         /\ spanTimer' \in BOOLEAN
  <1> DEFINE t == Sinks!Spans!Taken(q)
             K == Reports + 1
             room == SpanBatch * (K - Cardinality(spanFlights))
  <1>1. /\ q \in Seq(all) /\ Distinct(q) /\ IsFiniteSet(spanFlights)
        /\ Cardinality(spanFlights) <= K
    BY DEF Sound
  <1>2. Len(q) \in Nat /\ Cardinality(spanFlights) \in Nat
    BY <1>1, ElementsOf, FS_CardinalityType
  <1>3. room \in Nat
    <2>1. K - Cardinality(spanFlights) \in Nat
      BY <1>1, <1>2, SinkBounds
    <2> QED
      BY <2>1, SinkBounds
  <1>4. t = Sinks!Spans!Least(Len(q), room)
    BY DEF Sinks!Spans!Taken, Sinks!Spans!Cardinality, Cardinality
  <1>a. K \in Nat /\ Sound(q, spanFlights, spanDelivered, drop, all, K)
    BY SinkBounds
  <1> HIDE DEF t, room, K
  <1>b. Sinks!Spans!Least(Len(q), room) = IF Len(q) <= room THEN Len(q) ELSE room
    <2>1. Len(q) \in Int /\ room \in Int
      BY <1>2, <1>3
    <2> QED
      BY <2>1, LeastOfTwo
  <1>5. t \in 0 .. Len(q) /\ t <= room
    BY <1>2, <1>3, <1>4, <1>b
  <1>6. /\ spanFlights' = spanFlights \cup Sinks!Spans!BatchesOf(SubSeq(q, 1, t))
        /\ spanQueue' = SubSeq(q, t + 1, Len(q)) /\ spanTimer' = FALSE
    BY DEF Sinks!Spans!FlushOf, t
  <1>7. SubSeq(q, 1, t) \in Seq(all) /\ Distinct(SubSeq(q, 1, t)) /\ Len(SubSeq(q, 1, t)) = t
    BY <1>1, <1>5, CutInTwo
  <1>8. spanFlights' = spanFlights \cup Batches(SpanBatch, SubSeq(q, 1, t))
    BY <1>6, <1>7, SpanBatches
  <1>9. Sound(spanQueue', spanFlights', spanDelivered, drop, all, K)
    BY <1>a, <1>5, <1>6, <1>8, SinkBounds, SoundFlush DEF room
  <1> QED
    BY <1>6, <1>9 DEF K

\* The end of a batch, sent or refused.
LEMMA LogsSend ==
  ASSUME LogsKept, NEW batch, NEW ok \in BOOLEAN, Sinks!Logs!SendEnds(batch, ok),
         logTimer \in BOOLEAN
  PROVE  /\ Sound(logQueue', logFlights', logDelivered', logDropped', ToLogs, LogSlots)
         /\ logTimer' \in BOOLEAN /\ logFlights # {}
  <1>1. /\ batch \in logFlights /\ logFlights' = logFlights \ {batch} /\ logQueue' = logQueue
        /\ IF ok THEN logDelivered' = logDelivered \cup batch /\ logDropped' = logDropped
                 ELSE logDropped' = logDropped \cup batch /\ logDelivered' = logDelivered
        /\ logTimer' = (logTimer \/ logQueue # << >>)
    BY DEF Sinks!Logs!SendEnds
  <1>2. LogSlots \in Nat
    BY SinkBounds
  <1>3. /\ Sound(logQueue, logFlights \ {batch}, logDelivered \cup batch, logDropped, ToLogs, LogSlots)
        /\ Sound(logQueue, logFlights \ {batch}, logDelivered, logDropped \cup batch, ToLogs, LogSlots)
    BY <1>1, <1>2, SoundSent DEF LogsKept
  <1>4. CASE ok
    BY <1>1, <1>3, <1>4
  <1>5. CASE ~ok
    BY <1>1, <1>3, <1>5
  <1> QED
    BY <1>4, <1>5

LEMMA SpansSend ==
  ASSUME SpansKept, NEW batch, NEW ok \in BOOLEAN, Sinks!Spans!SendEnds(batch, ok),
         spanTimer \in BOOLEAN
  PROVE  /\ Sound(spanQueue', spanFlights', spanDelivered', spanDropped', spans, Reports + 1)
         /\ spanTimer' \in BOOLEAN
  <1>1. /\ batch \in spanFlights /\ spanFlights' = spanFlights \ {batch} /\ spanQueue' = spanQueue
        /\ IF ok THEN spanDelivered' = spanDelivered \cup batch /\ spanDropped' = spanDropped
                 ELSE spanDropped' = spanDropped \cup batch /\ spanDelivered' = spanDelivered
        /\ spanTimer' = (spanTimer \/ spanQueue # << >>)
    BY DEF Sinks!Spans!SendEnds
  <1>2. Reports + 1 \in Nat
    BY SinkBounds
  <1>3. /\ Sound(spanQueue, spanFlights \ {batch}, spanDelivered \cup batch, spanDropped, spans,
                 Reports + 1)
        /\ Sound(spanQueue, spanFlights \ {batch}, spanDelivered, spanDropped \cup batch, spans,
                 Reports + 1)
    BY <1>1, <1>2, SoundSent DEF SpansKept
  <1>4. CASE ok
    BY <1>1, <1>3, <1>4
  <1>5. CASE ~ok
    BY <1>1, <1>3, <1>5
  <1> QED
    BY <1>4, <1>5

\* A record that is new to an exporter.
LEMMA LogsEnqueue ==
  ASSUME NEW all, Sound(logQueue, logFlights, logDelivered, logDropped, all, LogSlots),
         NEW e, e \notin all, NEW atOnce \in BOOLEAN, Sinks!Logs!Enqueue(e, atOnce)
  PROVE  /\ Sound(logQueue', logFlights', logDelivered', logDropped', all \cup {e}, LogSlots)
         /\ logTimer' \in BOOLEAN
  <1> DEFINE longer == Append(logQueue, e)
             q == Shorter(longer, LogQueue)
             drop == logDropped \cup (Elements(longer) \ Elements(q))
  <1>1. /\ logDropped' = logDropped \cup (Sinks!Logs!Range(longer) \ Sinks!Logs!Range(q))
        /\ logDelivered' = logDelivered
        /\ IF atOnce \/ Len(q) >= LogBatch THEN Sinks!Logs!FlushOf(q)
           ELSE logQueue' = q /\ logTimer' = TRUE /\ logFlights' = logFlights
    BY DEF Sinks!Logs!Enqueue, Shorter
  <1>2. Sound(q, logFlights, logDelivered, drop, all \cup {e}, LogSlots)
    BY SinkBounds, SoundEnqueue
  <1> HIDE DEF longer, q
  <1>3. logDropped' = drop
    BY <1>1, TheSets
  <1> HIDE DEF drop
  <1>4. CASE Sinks!Logs!FlushOf(q)
    BY <1>1, <1>2, <1>3, <1>4, LogsFlush
  <1>5. CASE logQueue' = q /\ logTimer' = TRUE /\ logFlights' = logFlights
    BY <1>1, <1>2, <1>3, <1>5
  <1> QED
    BY <1>1, <1>4, <1>5

LEMMA SpansEnqueue ==
  ASSUME NEW all, Sound(spanQueue, spanFlights, spanDelivered, spanDropped, all, Reports + 1),
         NEW e, e \notin all, NEW atOnce \in BOOLEAN, Sinks!Spans!Enqueue(e, atOnce)
  PROVE  /\ Sound(spanQueue', spanFlights', spanDelivered', spanDropped', all \cup {e}, Reports + 1)
         /\ spanTimer' \in BOOLEAN
  <1> DEFINE longer == Append(spanQueue, e)
             q == Shorter(longer, SpanQueue)
             drop == spanDropped \cup (Elements(longer) \ Elements(q))
  <1>1. /\ spanDropped' = spanDropped \cup (Sinks!Spans!Range(longer) \ Sinks!Spans!Range(q))
        /\ spanDelivered' = spanDelivered
        /\ IF atOnce \/ Len(q) >= SpanBatch THEN Sinks!Spans!FlushOf(q)
           ELSE spanQueue' = q /\ spanTimer' = TRUE /\ spanFlights' = spanFlights
    BY DEF Sinks!Spans!Enqueue, Shorter
  <1>2. Sound(q, spanFlights, spanDelivered, drop, all \cup {e}, Reports + 1)
    BY SinkBounds, SoundEnqueue
  <1> HIDE DEF longer, q
  <1>3. spanDropped' = drop
    BY <1>1, TheSets
  <1> HIDE DEF drop
  <1>4. CASE Sinks!Spans!FlushOf(q)
    BY <1>1, <1>2, <1>3, <1>4, SpansFlush
  <1>5. CASE spanQueue' = q /\ spanTimer' = TRUE /\ spanFlights' = spanFlights
    BY <1>1, <1>2, <1>3, <1>5
  <1> QED
    BY <1>1, <1>4, <1>5

\* A line that is new to the writer.
LEMMA LineEnqueue ==
  ASSUME NEW all, lines \in Seq(all), Distinct(lines), Len(lines) <= MaxLines,
         Parts(all, Elements(lines), {}, written, lineDrops), NEW e, e \notin all,
         scheduled \in BOOLEAN, waitingForDrain \in BOOLEAN, Sinks!WriteLine(e)
  PROVE  /\ lines' \in Seq(all \cup {e}) /\ Distinct(lines') /\ Len(lines') <= MaxLines
         /\ Parts(all \cup {e}, Elements(lines'), {}, written', lineDrops')
         /\ scheduled' \in BOOLEAN /\ waitingForDrain' \in BOOLEAN
  <1> DEFINE longer == Append(lines, e)
             q == Shorter(longer, MaxLines)
  <1>1. /\ lines' = q /\ written' = written /\ waitingForDrain' = waitingForDrain
        /\ lineDrops' = lineDrops \cup (Sinks!Range(longer) \ Sinks!Range(q))
        /\ scheduled' = (scheduled \/ ~waitingForDrain)
    BY DEF Sinks!WriteLine, Sinks!Schedule, Shorter
  <1>2. /\ q \in Seq(all \cup {e}) /\ Distinct(q) /\ Len(q) <= MaxLines
        /\ Elements(longer) = Elements(lines) \cup {e}
        /\ Elements(q) \subseteq Elements(lines) \cup {e}
    BY SinkBounds, RoomIsMade
  <1> HIDE DEF longer, q
  <1>3. lineDrops' = lineDrops \cup (Elements(longer) \ Elements(q))
    BY <1>1, TheSets
  <1>4. Parts(all \cup {e}, Elements(q), {}, written, lineDrops')
    BY <1>2, <1>3 DEF Parts
  <1>5. scheduled' \in BOOLEAN /\ waitingForDrain' \in BOOLEAN
    BY <1>1
  <1> QED
    BY <1>1, <1>2, <1>4, <1>5

\* All the lines are written at once, or counted.
LEMMA LinesFlush ==
  ASSUME LinesKept, waitingForDrain \in BOOLEAN, NEW force \in BOOLEAN, NEW result,
         Sinks!FlushSecurityEvents(force, result)
  PROVE  /\ lines' \in Seq(ToLines) /\ Distinct(lines') /\ Len(lines') <= MaxLines
         /\ Parts(ToLines, Elements(lines'), {}, written', lineDrops')
         /\ waitingForDrain' \in BOOLEAN /\ (force => lines' = << >>)
  <1>1. CASE (waitingForDrain /\ ~force) \/ lines = << >>
    <2>1. UNCHANGED <<lines, waitingForDrain, written, lineDrops>>
      BY <1>1 DEF Sinks!FlushSecurityEvents
    <2> QED
      BY <1>1, <2>1 DEF LinesKept
  <1>2. CASE ~((waitingForDrain /\ ~force) \/ lines = << >>)
    <2>1. /\ lines' = << >> /\ waitingForDrain' = (waitingForDrain \/ result = "full")
          /\ \/ lineDrops' = lineDrops \cup Elements(lines) /\ written' = written
             \/ written' = written \cup Elements(lines) /\ lineDrops' = lineDrops
      BY <1>2, TheSets DEF Sinks!FlushSecurityEvents
    <2>2. << >> \in Seq(ToLines) /\ Len(<< >>) = 0 /\ DOMAIN << >> = {}
      BY EmptySeq
    <2>3. Elements(<< >>) = {} /\ Distinct(<< >>)
      BY <2>2 DEF Elements, Distinct
    <2>4. Parts(ToLines, {}, {}, written', lineDrops')
      BY <2>1 DEF LinesKept, Parts
    <2>5. waitingForDrain' \in BOOLEAN
      BY <2>1
    <2> QED
      BY <2>1, <2>2, <2>3, <2>4, <2>5, SinkBounds
  <1> QED
    BY <1>1, <1>2

-----------------------------------------------------------------------------
\* The steps of EventSinks.

LineSame == UNCHANGED <<lines, scheduled, waitingForDrain, written, lineDrops>>
LogSame == UNCHANGED <<logQueue, logTimer, logFlights, logDelivered, logDropped>>
SpanSame == UNCHANGED <<spanQueue, spanTimer, spanFlights, spanDelivered, spanDropped>>

\* What a step that reports nothing leaves as it is.
LEMMA SinksSame ==
  ASSUME SinksInv, UNCHANGED <<sinks, events, spans>>
  PROVE  /\ ToLines' = ToLines /\ ToLogs' = ToLogs
         /\ LineSame => LinesKept'
         /\ LogSame => LogsKept'
         /\ SpanSame => SpansKept'
  <1>1. ToLines' = ToLines /\ ToLogs' = ToLogs
    BY DEF ToLines, ToLogs
  <1>2. ASSUME LineSame  PROVE LinesKept'
    BY <1>1, <1>2 DEF SinksInv, LinesKept, LineSame
  <1>3. ASSUME LogSame  PROVE LogsKept'
    BY <1>1, <1>3 DEF SinksInv, LogsKept, LogSame
  <1>4. ASSUME SpanSame  PROVE SpansKept'
    BY <1>4 DEF SinksInv, SpansKept, SpanSame
  <1> QED
    BY <1>1, <1>2, <1>3, <1>4

LEMMA ArriveStep ==
  ASSUME SinksInv, NEW r \in 1 .. Reports, Sinks!Arrive(r)
  PROVE  SinksInv'
  <1>1. /\ phase \notin {"exited", "killed"} /\ request[r] = "new"
        /\ request' = [request EXCEPT ![r] = IF phase = "serving" THEN "open" ELSE "turned_away"]
        /\ UNCHANGED <<sinks, events, spans, phase, late, drainer>>
        /\ LineSame /\ LogSame /\ SpanSame
    BY DEF Sinks!Arrive, Sinks!Alive, Sinks!config, Sinks!lineVars, Sinks!logVars, Sinks!spanVars,
           Sinks!shutdownVars, LineSame, LogSame, SpanSame
  <1>2. LinesKept' /\ LogsKept' /\ SpansKept'
    BY <1>1, SinksSame
  <1>3. SinkTypes'
    BY <1>1 DEF SinksInv, SinkTypes, LineSame, LogSame, SpanSame
  <1>4. Told'
    BY <1>1 DEF SinksInv, SinkTypes, Told
  <1>5. Ending'
    <2>1. Silent' <=> Silent
      BY <1>1 DEF Silent, LogSame
    <2>2. request \in [1 .. Reports -> {"new", "open", "answered", "closed", "turned_away"}]
      BY DEF SinksInv, SinkTypes
    <2>3. Ending
      BY DEF SinksInv
    <2> QED
      BY <1>1, <2>1, <2>2, <2>3 DEF Ending
  <1> QED
    BY <1>2, <1>3, <1>4, <1>5 DEF SinksInv

LEMMA CloseStep ==
  ASSUME SinksInv, NEW r \in 1 .. Reports, Sinks!Close(r)
  PROVE  SinksInv'
  <1>1. /\ phase \notin {"exited", "killed"} /\ request[r] = "answered"
        /\ request' = [request EXCEPT ![r] = "closed"]
        /\ UNCHANGED <<sinks, events, spans, phase, late, drainer>>
        /\ LineSame /\ LogSame /\ SpanSame
    BY DEF Sinks!Close, Sinks!Alive, Sinks!config, Sinks!lineVars, Sinks!logVars, Sinks!spanVars,
           Sinks!shutdownVars, LineSame, LogSame, SpanSame
  <1>2. LinesKept' /\ LogsKept' /\ SpansKept'
    BY <1>1, SinksSame
  <1>3. SinkTypes'
    BY <1>1 DEF SinksInv, SinkTypes, LineSame, LogSame, SpanSame
  <1>4. Told'
    BY <1>1 DEF SinksInv, SinkTypes, Told
  <1>5. Ending'
    <2>1. Silent' <=> Silent
      BY <1>1 DEF Silent, LogSame
    <2>2. request \in [1 .. Reports -> {"new", "open", "answered", "closed", "turned_away"}]
      BY DEF SinksInv, SinkTypes
    <2>3. Ending
      BY DEF SinksInv
    <2> QED
      BY <1>1, <2>1, <2>2, <2>3 DEF Ending
  <1> QED
    BY <1>2, <1>3, <1>4, <1>5 DEF SinksInv

\* An answer may report, and once the server is drained there is none.
LEMMA AnswerStep ==
  ASSUME SinksInv, NEW r \in 1 .. Reports, NEW outcome, Sinks!Answer(r, outcome)
  PROVE  SinksInv'
  <1>1. /\ phase \notin {"exited", "killed"} /\ request[r] = "open"
        /\ request' = [request EXCEPT ![r] = "answered"]
        /\ UNCHANGED <<sinks, platform, phase, late, drainer>>
    BY DEF Sinks!Answer, Sinks!Alive, Sinks!config, Sinks!shutdownVars
  <1>2. r \notin events /\ r \notin spans
    BY <1>1 DEF SinksInv, Told
  <1>3. SinkTypes /\ Told /\ Ending /\ LinesKept /\ LogsKept /\ SpansKept
    BY DEF SinksInv
  <1>4. \/ events' = events \cup {r} /\ Sinks!Report(r)
        \/ events' = events /\ LineSame /\ LogSame
    BY DEF Sinks!Answer, Sinks!lineVars, Sinks!logVars, LineSame, LogSame
  <1>5. \/ Sinks!EmitSpan(r)
        \/ spans' = spans /\ SpanSame
    BY DEF Sinks!Answer, Sinks!spanVars, SpanSame
  <1>6. /\ LogsKept' /\ logTimer' \in BOOLEAN
        /\ events' \subseteq events \cup {r}
    <2>1. CASE events' = events \cup {r} /\ Sinks!Report(r) /\ "logs" \in sinks
      <3>1. Sinks!Logs!Enqueue(r, platform = "workers")
        BY <2>1 DEF Sinks!Report
      <3>2. ToLogs = events /\ ToLogs' = events \cup {r}
        BY <1>1, <2>1 DEF ToLogs
      <3>3. (platform = "workers") \in BOOLEAN
        OBVIOUS
      <3>4. Sound(logQueue, logFlights, logDelivered, logDropped, events, LogSlots)
        BY <1>3, <3>2 DEF LogsKept
      <3>5. /\ Sound(logQueue', logFlights', logDelivered', logDropped', events \cup {r}, LogSlots)
            /\ logTimer' \in BOOLEAN
        BY <1>2, <3>1, <3>3, <3>4, LogsEnqueue
      <3> QED
        BY <2>1, <3>2, <3>5 DEF LogsKept
    <2>2. CASE events' = events \cup {r} /\ Sinks!Report(r) /\ "logs" \notin sinks
      <3>1. LogSame
        BY <2>2 DEF Sinks!Report, Sinks!logVars, LogSame
      <3>2. ToLogs' = ToLogs
        BY <1>1, <2>2 DEF ToLogs
      <3> QED
        BY <1>3, <2>2, <3>1, <3>2 DEF LogsKept, LogSame, SinkTypes
    <2>3. CASE events' = events /\ LineSame /\ LogSame
      <3>1. ToLogs' = ToLogs
        BY <1>1, <2>3 DEF ToLogs
      <3> QED
        BY <1>3, <2>3, <3>1 DEF LogsKept, LogSame, SinkTypes
    <2> QED
      BY <1>4, <2>1, <2>2, <2>3
  <1>7. LinesKept' /\ scheduled' \in BOOLEAN /\ waitingForDrain' \in BOOLEAN
    <2>1. CASE events' = events \cup {r} /\ Sinks!Report(r) /\ "lines" \in sinks
      <3>1. Sinks!WriteLine(r)
        BY <2>1 DEF Sinks!Report
      <3>2. ToLines = events /\ ToLines' = events \cup {r}
        BY <1>1, <2>1 DEF ToLines
      <3>3. /\ lines \in Seq(events) /\ Distinct(lines) /\ Len(lines) <= MaxLines
            /\ Parts(events, Elements(lines), {}, written, lineDrops)
            /\ scheduled \in BOOLEAN /\ waitingForDrain \in BOOLEAN
        BY <1>3, <3>2 DEF LinesKept, SinkTypes
      <3>4. /\ lines' \in Seq(events \cup {r}) /\ Distinct(lines') /\ Len(lines') <= MaxLines
            /\ Parts(events \cup {r}, Elements(lines'), {}, written', lineDrops')
            /\ scheduled' \in BOOLEAN /\ waitingForDrain' \in BOOLEAN
        BY <1>2, <3>1, <3>3, LineEnqueue
      <3> QED
        BY <3>2, <3>4 DEF LinesKept
    <2>2. CASE events' = events \cup {r} /\ Sinks!Report(r) /\ "lines" \notin sinks
      <3>1. LineSame
        BY <2>2 DEF Sinks!Report, Sinks!lineVars, LineSame
      <3>2. ToLines' = ToLines
        BY <1>1, <2>2 DEF ToLines
      <3> QED
        BY <1>3, <3>1, <3>2 DEF LinesKept, LineSame, SinkTypes
    <2>3. CASE events' = events /\ LineSame /\ LogSame
      <3>1. ToLines' = ToLines
        BY <1>1, <2>3 DEF ToLines
      <3> QED
        BY <1>3, <2>3, <3>1 DEF LinesKept, LineSame, SinkTypes
    <2> QED
      BY <1>4, <2>1, <2>2, <2>3
  <1>8. SpansKept' /\ spanTimer' \in BOOLEAN /\ spans' \subseteq spans \cup {r}
    <2>1. CASE Sinks!EmitSpan(r) /\ "spans" \in sinks
      <3>1. Sinks!Spans!Enqueue(r, platform = "workers") /\ spans' = spans \cup {r}
        BY <2>1 DEF Sinks!EmitSpan
      <3>2. (platform = "workers") \in BOOLEAN
        OBVIOUS
      <3>3. Sound(spanQueue, spanFlights, spanDelivered, spanDropped, spans, Reports + 1)
        BY <1>3 DEF SpansKept
      <3>4. /\ Sound(spanQueue', spanFlights', spanDelivered', spanDropped', spans \cup {r}, Reports + 1)
            /\ spanTimer' \in BOOLEAN
        BY <1>2, <3>1, <3>2, <3>3, SpansEnqueue
      <3> QED
        BY <3>1, <3>4 DEF SpansKept
    <2>2. CASE spans' = spans /\ SpanSame
      BY <1>3, <2>2 DEF SpansKept, SpanSame, SinkTypes
    <2>3. CASE Sinks!EmitSpan(r) /\ "spans" \notin sinks
      <3>1. spans' = spans /\ SpanSame
        BY <2>3 DEF Sinks!EmitSpan, Sinks!spanVars, SpanSame
      <3> QED
        BY <2>2, <3>1
    <2> QED
      BY <1>5, <2>1, <2>2, <2>3
  <1>9. SinkTypes'
    BY <1>1, <1>3, <1>6, <1>7, <1>8 DEF SinkTypes
  <1>10. Told'
    BY <1>1, <1>3, <1>6, <1>8 DEF Told, SinkTypes
  <1>11. Ending'
    BY <1>1, <1>3 DEF Ending
  <1> QED
    BY <1>6, <1>7, <1>8, <1>9, <1>10, <1>11 DEF SinksInv

\* The line writer.
LEMMA ImmediateStep ==
  ASSUME SinksInv, NEW result, Sinks!Immediate(result)
  PROVE  SinksInv'
  <1>1. /\ phase \notin {"exited", "killed"} /\ scheduled' = FALSE
        /\ Sinks!FlushSecurityEvents(FALSE, result)
        /\ UNCHANGED <<sinks, request, events, spans, phase, late, drainer>>
        /\ LogSame /\ SpanSame
    BY DEF Sinks!Immediate, Sinks!Alive, Sinks!config, Sinks!requestVars, Sinks!logVars,
           Sinks!spanVars, Sinks!shutdownVars, LogSame, SpanSame
  <1>2. SinkTypes /\ Told /\ Ending /\ LinesKept
    BY DEF SinksInv
  <1>3. LogsKept' /\ SpansKept' /\ ToLines' = ToLines
    BY <1>1, SinksSame
  <1>4. /\ lines' \in Seq(ToLines) /\ Distinct(lines') /\ Len(lines') <= MaxLines
        /\ Parts(ToLines, Elements(lines'), {}, written', lineDrops')
        /\ waitingForDrain' \in BOOLEAN
    BY <1>1, <1>2, LinesFlush DEF SinkTypes
  <1>5. LinesKept'
    BY <1>3, <1>4 DEF LinesKept
  <1>6. SinkTypes'
    BY <1>1, <1>2, <1>4 DEF SinkTypes, LogSame, SpanSame
  <1>7. Told' /\ Ending'
    BY <1>1, <1>2 DEF Told, Ending, Silent, LogSame
  <1> QED
    BY <1>3, <1>5, <1>6, <1>7 DEF SinksInv

LEMMA StreamDrainsStep ==
  ASSUME SinksInv, Sinks!StreamDrains
  PROVE  SinksInv'
  <1>1. /\ waitingForDrain' = FALSE /\ scheduled' = TRUE
        /\ UNCHANGED <<lines, written, lineDrops>>
        /\ UNCHANGED <<sinks, request, events, spans, phase, late, drainer>>
        /\ LogSame /\ SpanSame
    BY DEF Sinks!StreamDrains, Sinks!config, Sinks!requestVars, Sinks!logVars,
           Sinks!spanVars, Sinks!shutdownVars, LogSame, SpanSame
  <1>2. SinkTypes /\ Told /\ Ending /\ LinesKept
    BY DEF SinksInv
  <1>3. LogsKept' /\ SpansKept' /\ ToLines' = ToLines
    BY <1>1, SinksSame
  <1>4. LinesKept'
    BY <1>1, <1>2, <1>3 DEF LinesKept
  <1>5. SinkTypes'
    BY <1>1, <1>2 DEF SinkTypes, LogSame, SpanSame
  <1>6. Told' /\ Ending'
    BY <1>1, <1>2 DEF Told, Ending, Silent, LogSame
  <1> QED
    BY <1>3, <1>4, <1>5, <1>6 DEF SinksInv

\* The exporters.
LEMMA LogTimerStep ==
  ASSUME SinksInv, Sinks!LogTimer
  PROVE  SinksInv'
  <1>1. /\ Sinks!Logs!FlushOf(logQueue) /\ logDelivered' = logDelivered /\ logDropped' = logDropped
        /\ UNCHANGED <<sinks, request, events, spans, phase, late, drainer>>
        /\ LineSame /\ SpanSame
    BY DEF Sinks!LogTimer, Sinks!Logs!TimerFires, Sinks!Logs!Flush, Sinks!config,
           Sinks!requestVars, Sinks!lineVars, Sinks!spanVars, Sinks!shutdownVars, LineSame, SpanSame
  <1>2. SinkTypes /\ Told /\ Ending /\ LogsKept
    BY DEF SinksInv
  <1>3. LinesKept' /\ SpansKept' /\ ToLogs' = ToLogs
    BY <1>1, SinksSame
  <1>4. /\ Sound(logQueue', logFlights', logDelivered, logDropped, ToLogs, LogSlots)
        /\ logTimer' \in BOOLEAN
        /\ logQueue = << >> => logQueue' = << >> /\ logFlights' = logFlights
    BY <1>1, <1>2, LogsFlush DEF LogsKept
  <1>5. LogsKept'
    BY <1>1, <1>3, <1>4 DEF LogsKept
  <1>6. SinkTypes'
    BY <1>1, <1>2, <1>4 DEF SinkTypes, LineSame, SpanSame
  <1>7. Silent => Silent'
    BY <1>4 DEF Silent
  <1>8. Told' /\ Ending'
    BY <1>1, <1>2, <1>7 DEF Told, Ending, LineSame
  <1> QED
    BY <1>3, <1>5, <1>6, <1>8 DEF SinksInv

LEMMA LogSentStep ==
  ASSUME SinksInv, NEW batch, NEW ok \in BOOLEAN, Sinks!LogSent(batch, ok)
  PROVE  SinksInv'
  <1>1. /\ Sinks!Logs!SendEnds(batch, ok) /\ phase \notin {"exited", "killed"}
        /\ UNCHANGED <<sinks, request, events, spans, phase, late, drainer>>
        /\ LineSame /\ SpanSame
    BY DEF Sinks!LogSent, Sinks!Alive, Sinks!config, Sinks!requestVars, Sinks!lineVars,
           Sinks!spanVars, Sinks!shutdownVars, LineSame, SpanSame
  <1>2. SinkTypes /\ Told /\ Ending /\ LogsKept
    BY DEF SinksInv
  <1>3. LinesKept' /\ SpansKept' /\ ToLogs' = ToLogs
    BY <1>1, SinksSame
  <1>4. /\ Sound(logQueue', logFlights', logDelivered', logDropped', ToLogs, LogSlots)
        /\ logTimer' \in BOOLEAN /\ logFlights # {}
    <2>1. logTimer \in BOOLEAN
      BY <1>2 DEF SinkTypes
    <2> QED
      BY <1>1, <1>2, <2>1, LogsSend
  <1>5. LogsKept'
    BY <1>3, <1>4 DEF LogsKept
  <1>6. SinkTypes'
    BY <1>1, <1>2, <1>4 DEF SinkTypes, LineSame, SpanSame
  <1>7. Told' /\ Ending'
    BY <1>1, <1>2, <1>4 DEF Told, Ending, Silent
  <1> QED
    BY <1>3, <1>5, <1>6, <1>7 DEF SinksInv

LEMMA SpanTimerStep ==
  ASSUME SinksInv, Sinks!SpanTimer
  PROVE  SinksInv'
  <1>1. /\ Sinks!Spans!FlushOf(spanQueue)
        /\ spanDelivered' = spanDelivered /\ spanDropped' = spanDropped
        /\ UNCHANGED <<sinks, request, events, spans, phase, late, drainer>>
        /\ LineSame /\ LogSame
    BY DEF Sinks!SpanTimer, Sinks!Spans!TimerFires, Sinks!Spans!Flush, Sinks!config,
           Sinks!requestVars, Sinks!lineVars, Sinks!logVars, Sinks!shutdownVars, LineSame, LogSame
  <1>2. SinkTypes /\ Told /\ Ending /\ SpansKept
    BY DEF SinksInv
  <1>3. LinesKept' /\ LogsKept'
    BY <1>1, SinksSame
  <1>4. /\ Sound(spanQueue', spanFlights', spanDelivered, spanDropped, spans, Reports + 1)
        /\ spanTimer' \in BOOLEAN
    BY <1>1, <1>2, SpansFlush DEF SpansKept
  <1>5. SpansKept'
    BY <1>1, <1>4 DEF SpansKept
  <1>6. SinkTypes'
    BY <1>1, <1>2, <1>4 DEF SinkTypes, LineSame, LogSame
  <1>7. Told' /\ Ending'
    BY <1>1, <1>2 DEF Told, Ending, Silent, LineSame, LogSame
  <1> QED
    BY <1>3, <1>5, <1>6, <1>7 DEF SinksInv

LEMMA SpanSentStep ==
  ASSUME SinksInv, NEW batch, NEW ok \in BOOLEAN, Sinks!SpanSent(batch, ok)
  PROVE  SinksInv'
  <1>1. /\ Sinks!Spans!SendEnds(batch, ok)
        /\ UNCHANGED <<sinks, request, events, spans, phase, late, drainer>>
        /\ LineSame /\ LogSame
    BY DEF Sinks!SpanSent, Sinks!config, Sinks!requestVars, Sinks!lineVars,
           Sinks!logVars, Sinks!shutdownVars, LineSame, LogSame
  <1>2. SinkTypes /\ Told /\ Ending /\ SpansKept
    BY DEF SinksInv
  <1>3. LinesKept' /\ LogsKept'
    BY <1>1, SinksSame
  <1>4. /\ Sound(spanQueue', spanFlights', spanDelivered', spanDropped', spans, Reports + 1)
        /\ spanTimer' \in BOOLEAN
    <2>1. spanTimer \in BOOLEAN
      BY <1>2 DEF SinkTypes
    <2> QED
      BY <1>1, <1>2, <2>1, SpansSend
  <1>5. SpansKept'
    BY <1>1, <1>4 DEF SpansKept
  <1>6. SinkTypes'
    BY <1>1, <1>2, <1>4 DEF SinkTypes, LineSame, LogSame
  <1>7. Told' /\ Ending'
    BY <1>1, <1>2 DEF Told, Ending, Silent, LineSame, LogSame
  <1> QED
    BY <1>3, <1>5, <1>6, <1>7 DEF SinksInv

\* The shutdown.
LEMMA SinksStill ==
  ASSUME SinksInv, UNCHANGED <<sinks, request, events, spans>>, LineSame, LogSame, SpanSame,
         phase' \in {"serving", "draining", "telemetry", "logs", "exited", "killed"},
         late' \subseteq {"http", "logs"},
         drainer'.at \in {"idle", "top", "awaiting", "racing", "done"}
  PROVE  LinesKept' /\ LogsKept' /\ SpansKept' /\ SinkTypes' /\ Told'
  <1>1. LinesKept' /\ LogsKept' /\ SpansKept'
    BY SinksSame
  <1>2. SinkTypes' /\ Told'
    BY DEF SinksInv, SinkTypes, Told, LineSame, LogSame, SpanSame
  <1> QED
    BY <1>1, <1>2

LEMMA SignalStep ==
  ASSUME SinksInv, Sinks!Signal \/ Sinks!Kill
  PROVE  SinksInv'
  <1>1. /\ UNCHANGED <<sinks, request, events, spans, late, drainer>>
        /\ LineSame /\ LogSame /\ SpanSame
        /\ phase' \in {"draining", "killed"}
    BY DEF Sinks!Signal, Sinks!Kill, Sinks!config, Sinks!requestVars, Sinks!lineVars,
           Sinks!logVars, Sinks!spanVars, LineSame, LogSame, SpanSame
  <1>2. late \subseteq {"http", "logs"} /\ drainer.at \in {"idle", "top", "awaiting", "racing", "done"}
    BY DEF SinksInv, SinkTypes
  <1>3. LinesKept' /\ LogsKept' /\ SpansKept' /\ SinkTypes' /\ Told'
    BY <1>1, <1>2, SinksStill
  <1>4. Ending'
    BY <1>1 DEF Ending
  <1> QED
    BY <1>3, <1>4 DEF SinksInv

LEMMA DrainedStep ==
  ASSUME SinksInv, Sinks!Drained \/ Sinks!DrainDeadline
  PROVE  SinksInv'
  <1>1. /\ UNCHANGED <<sinks, request, events, spans, drainer>>
        /\ LineSame /\ LogSame /\ SpanSame
        /\ phase' = "telemetry"
        /\ \/ late' = late /\ \A r \in 1 .. Reports : request[r] \notin {"open", "answered"}
           \/ late' = late \cup {"http"}
    BY DEF Sinks!Drained, Sinks!DrainDeadline, Sinks!config, Sinks!requestVars, Sinks!lineVars,
           Sinks!logVars, Sinks!spanVars, Sinks!Requests, LineSame, LogSame, SpanSame
  <1>2. late \subseteq {"http", "logs"} /\ drainer.at \in {"idle", "top", "awaiting", "racing", "done"}
    BY DEF SinksInv, SinkTypes
  <1>3. LinesKept' /\ LogsKept' /\ SpansKept' /\ SinkTypes' /\ Told'
    BY <1>1, <1>2, SinksStill
  <1>4. Ending'
    BY <1>1 DEF Ending
  <1> QED
    BY <1>3, <1>4 DEF SinksInv

LEMMA TelemetryFlushedStep ==
  ASSUME SinksInv, Sinks!TelemetryFlushed
  PROVE  SinksInv'
  <1>1. /\ UNCHANGED <<sinks, request, events, spans, late>>
        /\ LineSame /\ LogSame /\ SpanSame
        /\ phase = "telemetry" /\ phase' = "logs"
        /\ drainer' = [[at |-> "idle", of |-> {}] EXCEPT !.at = "top"]
    BY DEF Sinks!TelemetryFlushed, Sinks!NotDraining, Sinks!config, Sinks!requestVars,
           Sinks!lineVars, Sinks!logVars, Sinks!spanVars, LineSame, LogSame, SpanSame
  <1>2. drainer'.at = "top" /\ late' \subseteq {"http", "logs"}
    BY <1>1 DEF SinksInv, SinkTypes
  <1>3. LinesKept' /\ LogsKept' /\ SpansKept' /\ SinkTypes' /\ Told'
    BY <1>1, <1>2, SinksStill
  <1>4. Ending'
    <2>1. Ending
      BY DEF SinksInv
    <2> QED
      BY <1>1, <1>2, <2>1 DEF Ending
  <1> QED
    BY <1>3, <1>4 DEF SinksInv

LEMMA DrainLoopStep ==
  ASSUME SinksInv, Sinks!DrainLoop
  PROVE  SinksInv'
  <1>1. /\ UNCHANGED <<sinks, request, events, spans, phase, late>>
        /\ LineSame /\ SpanSame
        /\ phase = "logs"
    BY DEF Sinks!DrainLoop, Sinks!config, Sinks!requestVars, Sinks!lineVars, Sinks!spanVars,
           LineSame, SpanSame
  <1>2. SinkTypes /\ Told /\ Ending /\ LogsKept
    BY DEF SinksInv
  <1>3. CASE logQueue = << >> /\ logFlights = {}
    <2>1. drainer' = [at |-> "done", of |-> {}] /\ LogSame
      BY <1>3 DEF Sinks!DrainLoop, Sinks!logVars, LogSame
    <2>2. drainer'.at = "done"
      BY <2>1
    <2>3. /\ phase' \in {"serving", "draining", "telemetry", "logs", "exited", "killed"}
          /\ late' \subseteq {"http", "logs"}
      BY <1>1, <1>2 DEF SinkTypes
    <2>4. LinesKept' /\ LogsKept' /\ SpansKept' /\ SinkTypes' /\ Told'
      BY <1>1, <2>1, <2>2, <2>3, SinksStill
    <2>5. Ending'
      BY <1>1, <1>2, <1>3, <2>1 DEF Ending, Silent, LogSame
    <2> QED
      BY <2>4, <2>5 DEF SinksInv
  <1>4. CASE ~(logQueue = << >> /\ logFlights = {})
    <2>1. /\ Sinks!Logs!FlushOf(logQueue) /\ logDelivered' = logDelivered
          /\ logDropped' = logDropped
          /\ drainer' = [at |-> "awaiting", of |-> logFlights' \ logFlights]
      BY <1>4 DEF Sinks!DrainLoop, Sinks!Logs!Flush
    <2>2. LinesKept' /\ SpansKept' /\ ToLogs' = ToLogs
      BY <1>1, SinksSame
    <2>3. /\ Sound(logQueue', logFlights', logDelivered, logDropped, ToLogs, LogSlots)
          /\ logTimer' \in BOOLEAN
      BY <1>2, <2>1, LogsFlush DEF LogsKept
    <2>4. LogsKept'
      BY <2>1, <2>2, <2>3 DEF LogsKept
    <2>5. drainer'.at = "awaiting"
      BY <2>1
    <2>6. SinkTypes'
      BY <1>1, <1>2, <2>3, <2>5 DEF SinkTypes, LineSame, SpanSame
    <2>7. Told' /\ Ending'
      BY <1>1, <1>2, <2>5 DEF Told, Ending
    <2> QED
      BY <2>2, <2>4, <2>6, <2>7 DEF SinksInv
  <1> QED
    BY <1>3, <1>4

LEMMA DrainAwaitsStep ==
  ASSUME SinksInv, Sinks!DrainAwaits
  PROVE  SinksInv'
  <1>1. /\ UNCHANGED <<sinks, request, events, spans, phase, late>>
        /\ LineSame /\ LogSame /\ SpanSame
        /\ phase = "logs"
        /\ \/ drainer' = [at |-> "top", of |-> {}]
           \/ drainer' = [at |-> "racing", of |-> logFlights]
    BY DEF Sinks!DrainAwaits, Sinks!config, Sinks!requestVars, Sinks!lineVars, Sinks!logVars,
           Sinks!spanVars, LineSame, LogSame, SpanSame
  <1>2. drainer'.at \in {"top", "racing"} /\ late' \subseteq {"http", "logs"}
    BY <1>1 DEF SinksInv, SinkTypes
  <1>3. LinesKept' /\ LogsKept' /\ SpansKept' /\ SinkTypes' /\ Told'
    BY <1>1, <1>2, SinksStill
  <1>4. Ending'
    <2>1. Ending
      BY DEF SinksInv
    <2> QED
      BY <1>1, <1>2, <2>1 DEF Ending
  <1> QED
    BY <1>3, <1>4 DEF SinksInv

LEMMA ExitStep ==
  ASSUME SinksInv, NEW result, Sinks!Exit(result)
  PROVE  SinksInv'
  <1>1. /\ UNCHANGED <<sinks, request, events, spans, scheduled, drainer>>
        /\ LogSame /\ SpanSame
        /\ phase = "logs" /\ phase' = "exited"
        /\ late' = IF drainer.at = "done" THEN late ELSE late \cup {"logs"}
        /\ Sinks!FlushSecurityEvents(TRUE, result)
    BY DEF Sinks!Exit, Sinks!config, Sinks!requestVars, Sinks!logVars, Sinks!spanVars,
           LogSame, SpanSame
  <1>2. SinkTypes /\ Told /\ Ending /\ LinesKept
    BY DEF SinksInv
  <1>3. LogsKept' /\ SpansKept' /\ ToLines' = ToLines
    BY <1>1, SinksSame
  <1>4. /\ lines' \in Seq(ToLines) /\ Distinct(lines') /\ Len(lines') <= MaxLines
        /\ Parts(ToLines, Elements(lines'), {}, written', lineDrops')
        /\ waitingForDrain' \in BOOLEAN /\ lines' = << >>
    <2>1. waitingForDrain \in BOOLEAN
      BY <1>2 DEF SinkTypes
    <2> QED
      BY <1>1, <1>2, <2>1, LinesFlush
  <1>5. LinesKept'
    BY <1>3, <1>4 DEF LinesKept
  <1>6. SinkTypes'
    BY <1>1, <1>2, <1>4 DEF SinkTypes, LogSame, SpanSame
  <1>7. Told'
    BY <1>1, <1>2 DEF Told
  <1>8. Silent' <=> Silent
    BY <1>1 DEF Silent, LogSame
  <1>9. late' = {} => late = {} /\ drainer.at = "done"
    BY <1>1
  <1>10. Ending'
    BY <1>1, <1>2, <1>4, <1>8, <1>9 DEF Ending
  <1> QED
    BY <1>3, <1>5, <1>6, <1>7, <1>10 DEF SinksInv

LEMMA SinksStutter ==
  ASSUME SinksInv,
         UNCHANGED <<sinks, request, events, spans, lines, scheduled, waitingForDrain, written,
                     lineDrops, logQueue, logTimer, logFlights, logDelivered, logDropped,
                     spanQueue, spanTimer, spanFlights, spanDelivered, spanDropped, phase,
                     late, drainer>>
  PROVE  SinksInv'
  <1>1. LineSame /\ LogSame /\ SpanSame
    BY DEF LineSame, LogSame, SpanSame
  <1>2. SinkTypes /\ Ending
    BY DEF SinksInv
  <1>3. LinesKept' /\ LogsKept' /\ SpansKept' /\ SinkTypes' /\ Told'
    BY <1>1, <1>2, SinksStill DEF SinkTypes
  <1>4. Ending'
    BY <1>2 DEF Ending, Silent
  <1> QED
    BY <1>3, <1>4 DEF SinksInv

LEMMA SinksStep ==
  ASSUME SinksInv, Sinks!Next
  PROVE  SinksInv'
  <1>1. CASE \E r \in Sinks!Requests :
               Sinks!Arrive(r) \/ Sinks!Close(r) \/ \E o \in {"refused", "budget", "called"} :
                  Sinks!Answer(r, o)
    BY <1>1, ArriveStep, CloseStep, AnswerStep DEF Sinks!Requests
  <1>2. CASE \E result \in Sinks!WriteResults : Sinks!Immediate(result) \/ Sinks!Exit(result)
    BY <1>2, ImmediateStep, ExitStep
  <1>3. CASE Sinks!StreamDrains \/ Sinks!LogTimer \/ Sinks!SpanTimer
    BY <1>3, StreamDrainsStep, LogTimerStep, SpanTimerStep
  <1>4. CASE \E batch \in logFlights, ok \in BOOLEAN : Sinks!LogSent(batch, ok)
    BY <1>4, LogSentStep
  <1>5. CASE \E batch \in spanFlights, ok \in BOOLEAN : Sinks!SpanSent(batch, ok)
    BY <1>5, SpanSentStep
  <1>6. CASE Sinks!Signal \/ Sinks!Kill \/ Sinks!Drained \/ Sinks!DrainDeadline
    BY <1>6, SignalStep, DrainedStep
  <1>7. CASE Sinks!TelemetryFlushed \/ Sinks!DrainLoop \/ Sinks!DrainAwaits
    BY <1>7, TelemetryFlushedStep, DrainLoopStep, DrainAwaitsStep
  <1>8. CASE Sinks!Quiet
    BY <1>8, SinksStutter DEF Sinks!Quiet, Sinks!vars, Sinks!config, Sinks!requestVars,
       Sinks!lineVars, Sinks!logVars, Sinks!spanVars, Sinks!shutdownVars
  <1> QED
    BY <1>1, <1>2, <1>3, <1>4, <1>5, <1>6, <1>7, <1>8 DEF Sinks!Next

-----------------------------------------------------------------------------
LEMMA SinksInitially ==
  ASSUME Sinks!Init
  PROVE  SinksInv
  <1>1. /\ request = [r \in 1 .. Reports |-> "new"] /\ events = {} /\ spans = {}
        /\ lines = << >> /\ scheduled = FALSE /\ waitingForDrain = FALSE
        /\ written = {} /\ lineDrops = {}
        /\ logQueue = << >> /\ logTimer = FALSE /\ logFlights = {}
        /\ logDelivered = {} /\ logDropped = {}
        /\ spanQueue = << >> /\ spanTimer = FALSE /\ spanFlights = {}
        /\ spanDelivered = {} /\ spanDropped = {}
        /\ phase = "serving" /\ late = {} /\ drainer = [at |-> "idle", of |-> {}]
    BY DEF Sinks!Init, Sinks!Requests, Sinks!Logs!ExporterInit, Sinks!Spans!ExporterInit,
           Sinks!NotDraining
  <1>2. \A S : << >> \in Seq(S) /\ Len(<< >>) = 0 /\ DOMAIN << >> = {}
    BY EmptySeq
  <1>3. Elements(<< >>) = {} /\ Distinct(<< >>)
    BY <1>2 DEF Elements, Distinct
  <1>4. ToLines = {} /\ ToLogs = {}
    BY <1>1 DEF ToLines, ToLogs
  <1>5. LinesKept
    BY <1>1, <1>2, <1>3, <1>4, SinkBounds DEF LinesKept, Parts
  <1>6. \A K \in Nat : Sound(<< >>, {}, {}, {}, {}, K)
    BY <1>2, <1>3, FS_EmptySet DEF Sound, Apart, Parts
  <1>7. LogsKept /\ SpansKept
    BY <1>1, <1>4, <1>6, SinkBounds DEF LogsKept, SpansKept
  <1>8. SinkTypes
    BY <1>1 DEF SinkTypes
  <1>9. Told /\ Ending
    BY <1>1 DEF Told, Ending
  <1> QED
    BY <1>5, <1>7, <1>8, <1>9 DEF SinksInv

\* A record of parts that do not overlap is in exactly one of them.
LEMMA OneOfFour ==
  ASSUME NEW all, NEW a, NEW b, NEW c, NEW d, Parts(all, a, b, c, d), NEW e \in all
  PROVE  Sinks!InExactlyOne(e, <<a, b, c, d>>)
  <1> DEFINE places == <<a, b, c, d>>
             found == {i \in DOMAIN places : e \in places[i]}
  <1>1. /\ DOMAIN places = 1 .. 4
        /\ places[1] = a /\ places[2] = b /\ places[3] = c /\ places[4] = d
    OBVIOUS
  <1> HIDE DEF places
  <1>2. 1 .. 4 = {1, 2, 3, 4}
    OBVIOUS
  <1>3. \E i \in {1, 2, 3, 4} : found = {i}
    <2>1. CASE e \in a
      <3>1. found = {1}
        BY <1>1, <1>2, <2>1 DEF Parts
      <3> QED
        BY <3>1
    <2>2. CASE e \in b
      <3>1. found = {2}
        BY <1>1, <1>2, <2>2 DEF Parts
      <3> QED
        BY <3>1
    <2>3. CASE e \in c
      <3>1. found = {3}
        BY <1>1, <1>2, <2>3 DEF Parts
      <3> QED
        BY <3>1
    <2>4. CASE e \in d
      <3>1. found = {4}
        BY <1>1, <1>2, <2>4 DEF Parts
      <3> QED
        BY <3>1
    <2> QED
      BY <2>1, <2>2, <2>3, <2>4 DEF Parts
  <1>4. Cardinality(found) = 1
    BY <1>3, FS_Singleton
  <1> QED
    BY <1>4 DEF Sinks!InExactlyOne, Sinks!Cardinality, Cardinality, places

LEMMA OneOfThree ==
  ASSUME NEW all, NEW a, NEW c, NEW d, Parts(all, a, {}, c, d), NEW e \in all
  PROVE  Sinks!InExactlyOne(e, <<a, c, d>>)
  <1> DEFINE places == <<a, c, d>>
             found == {i \in DOMAIN places : e \in places[i]}
  <1>1. /\ DOMAIN places = 1 .. 3
        /\ places[1] = a /\ places[2] = c /\ places[3] = d
    OBVIOUS
  <1> HIDE DEF places
  <1>2. 1 .. 3 = {1, 2, 3}
    OBVIOUS
  <1>3. \E i \in {1, 2, 3} : found = {i}
    <2>1. CASE e \in a
      <3>1. found = {1}
        BY <1>1, <1>2, <2>1 DEF Parts
      <3> QED
        BY <3>1
    <2>2. CASE e \in c
      <3>1. found = {2}
        BY <1>1, <1>2, <2>2 DEF Parts
      <3> QED
        BY <3>1
    <2>3. CASE e \in d
      <3>1. found = {3}
        BY <1>1, <1>2, <2>3 DEF Parts
      <3> QED
        BY <3>1
    <2> QED
      BY <2>1, <2>2, <2>3 DEF Parts
  <1>4. Cardinality(found) = 1
    BY <1>3, FS_Singleton
  <1> QED
    BY <1>4 DEF Sinks!InExactlyOne, Sinks!Cardinality, Cardinality, places

LEMMA SinksAreSafe ==
  ASSUME SinksInv
  PROVE  /\ Sinks!TypeOK
         /\ Sinks!EachRecordIsSomewhere /\ Sinks!SendsAreBounded
         /\ Sinks!GracefulExitKeepsEvents
  <1>1. /\ SinkTypes /\ Told /\ Ending
        /\ Len(lines) <= MaxLines /\ Parts(ToLines, Elements(lines), {}, written, lineDrops)
        /\ Parts(ToLogs, Elements(logQueue), UNION logFlights, logDelivered, logDropped)
        /\ Parts(spans, Elements(spanQueue), UNION spanFlights, spanDelivered, spanDropped)
        /\ Cardinality(logFlights) <= LogSlots
    BY DEF SinksInv, LinesKept, LogsKept, SpansKept, Sound
  <1>2. /\ Sinks!Logs!Queued = Elements(logQueue) /\ Sinks!Logs!InFlight = UNION logFlights
        /\ Sinks!Spans!Queued = Elements(spanQueue) /\ Sinks!Spans!InFlight = UNION spanFlights
    BY TheSets DEF Sinks!Logs!Queued, Sinks!Logs!InFlight, Sinks!Spans!Queued,
       Sinks!Spans!InFlight
  <1>3. ToLines \subseteq events /\ ToLogs \subseteq events
    BY DEF ToLines, ToLogs
  <1>4. Sinks!TypeOK
    <2>1. Elements(lines) \cup written \cup lineDrops \subseteq events
      BY <1>1, <1>3 DEF Parts
    <2>2. /\ Sinks!Logs!Queued \cup Sinks!Logs!InFlight \cup logDelivered \cup logDropped
               \subseteq events
          /\ Sinks!Spans!Queued \cup Sinks!Spans!InFlight \cup spanDelivered \cup spanDropped
               \subseteq spans
      BY <1>1, <1>2, <1>3 DEF Parts
    <2> QED
      BY <1>1, <2>1, <2>2, TheSets DEF Sinks!TypeOK, Sinks!Requests, SinkTypes, Told
  <1>5. Sinks!EachRecordIsSomewhere
    <2>1. ASSUME "lines" \in sinks, NEW e \in events
          PROVE  Sinks!InExactlyOne(e, <<Sinks!Range(lines), written, lineDrops>>)
      <3>1. e \in ToLines /\ Sinks!Range(lines) = Elements(lines)
        BY <2>1, TheSets DEF ToLines
      <3>2. Sinks!InExactlyOne(e, <<Elements(lines), written, lineDrops>>)
        BY <1>1, <3>1, OneOfThree
      <3> QED
        BY <3>1, <3>2
    <2>2. ASSUME "logs" \in sinks, NEW e \in events
          PROVE  Sinks!InExactlyOne(e, <<Sinks!Logs!Queued, Sinks!Logs!InFlight,
                                         logDelivered, logDropped>>)
      <3>1. e \in ToLogs
        BY <2>2 DEF ToLogs
      <3>2. Sinks!InExactlyOne(e, <<Elements(logQueue), UNION logFlights, logDelivered, logDropped>>)
        BY <1>1, <3>1, OneOfFour
      <3> QED
        BY <1>2, <3>2
    <2>3. ASSUME NEW e \in spans
          PROVE  Sinks!InExactlyOne(e, <<Sinks!Spans!Queued, Sinks!Spans!InFlight,
                                         spanDelivered, spanDropped>>)
      <3>1. Sinks!InExactlyOne(e, <<Elements(spanQueue), UNION spanFlights, spanDelivered, spanDropped>>)
        BY <1>1, OneOfFour
      <3> QED
        BY <1>2, <3>1
    <2> QED
      BY <2>1, <2>2, <2>3 DEF Sinks!EachRecordIsSomewhere
  <1>6. Sinks!SendsAreBounded
    BY <1>1 DEF Sinks!SendsAreBounded, Sinks!Cardinality, Cardinality
  <1>7. Sinks!GracefulExitKeepsEvents
    BY <1>1 DEF Sinks!GracefulExitKeepsEvents, Ending, Silent
  <1> QED
    BY <1>4, <1>5, <1>6, <1>7

-----------------------------------------------------------------------------
\* AwsCredentials.

Aws == INSTANCE AwsCredentials WITH HostSources <- Hosts, Ttl <- CredentialTtl,
                                    Life <- CredentialLife, MaxEntries <- MaxCredentials

\* A credential outlives its place in the cache, and no role is named like a source.
ASSUME AwsAssumption ==
  /\ CredentialTtl \in Nat /\ CredentialLife \in Nat /\ CredentialTtl <= CredentialLife
  /\ MaxCredentials \in Nat \ {0}
  /\ (Roles \cup {SourceRole}) \cap Aws!Services = {}

AwsRoles == Roles \cup {HostRole, SourceRole, None}

Names == Aws!Ambient \cup {"direct", "sts"}

Creds == [as : Names, by : Names, role : AwsRoles]

\* The host's own identity, and what it minted, needs the operator's consent.
Trusted(cred) ==
  /\ cred.as \in Aws!Ambient => config.ambient
  /\ cred.by \in Aws!Ambient => config.ambient

\* What is cached is trusted, is live as long as it is kept, and carries the
\* role it is kept under.
Cached ==
  {e \in [key : Aws!Services \cup Roles \cup {SourceRole}, cred : Creds, keep : Nat, left : Nat] :
     /\ Trusted(e.cred) /\ e.keep <= e.left
     /\ e.key \notin Aws!Services => e.cred.role = e.key}

Resolution ==
  [pc : {"idle", "source", "sts", "assuming", "ambient", "fetching", "done"},
   auth : {"assumedRole", "serviceRole", None}, role : Roles \cup {None}, at : 0 .. 7,
   stage : {"source", "target", None}, key : Creds \cup {None}, out : Creds \cup {None},
   live : BOOLEAN]

\* The role that is asked for is the only one that is answered; no resolution
\* without a role goes on but for the host's own identity.
Asked(r) == r.role # None \/ r.auth = "serviceRole"

Proper(r) ==
  /\ r \in Resolution /\ r.live
  /\ r.pc \notin {"idle", "done"} => Asked(r)
  /\ r.pc \in {"sts", "assuming"} =>
       /\ r.stage \in {"source", "target"}
       /\ r.stage = "target" => r.role # None
  /\ r.pc \in {"ambient", "fetching"} => config.ambient /\ r.at \in 1 .. 7
  /\ r.key # None => Trusted(r.key)
  /\ r.out # None => /\ Trusted(r.out)
                     /\ IF r.role # None THEN r.out.role = r.role ELSE r.auth = "serviceRole"

Stored(s) == s \in Seq(Cached) /\ Len(s) <= MaxCredentials

AwsConfig ==
  config \in [ambient : BOOLEAN, direct : BOOLEAN, source : BOOLEAN, labelled : BOOLEAN,
              host : Hosts]

AwsInv ==
  /\ AwsConfig /\ Stored(store)
  /\ caller \in [Callers -> Resolution]
  /\ \A c \in Callers : Proper(caller[c])

LEMMA AwsBounds ==
  /\ CredentialTtl \in Nat /\ CredentialLife \in Nat /\ CredentialTtl <= CredentialLife
  /\ MaxCredentials \in Nat \ {0}
  /\ \A r \in Roles \cup {SourceRole} : r \notin Aws!Services
  BY AwsAssumption

LEMMA AmbientIs ==
  /\ Aws!Ambient = {"env", "shared", "config", "irsa", "pod", "ecs", "imds"}
  /\ DOMAIN Aws!AmbientSources = 1 .. 7 /\ Len(Aws!AmbientSources) = 7
  /\ \A i \in 1 .. 7 : Aws!AmbientSources[i] \in Aws!Ambient
  <1>1. Aws!AmbientSources = <<"env", "shared", "config", "irsa", "pod", "ecs", "imds">>
    BY DEF Aws!AmbientSources
  <1>2. DOMAIN Aws!AmbientSources = 1 .. 7 /\ Len(Aws!AmbientSources) = 7
    BY <1>1
  <1>3. \A i \in 1 .. 7 :
          Aws!AmbientSources[i] = CASE i = 1 -> "env" [] i = 2 -> "shared" [] i = 3 -> "config"
             [] i = 4 -> "irsa" [] i = 5 -> "pod" [] i = 6 -> "ecs" [] OTHER -> "imds"
    BY <1>1
  <1>4. Aws!Ambient = {Aws!AmbientSources[i] : i \in 1 .. 7}
    BY <1>2 DEF Aws!Ambient
  <1> HIDE DEF Aws!AmbientSources, Aws!Ambient
  <1>5. Aws!Ambient = {"env", "shared", "config", "irsa", "pod", "ecs", "imds"}
    <2>1. \A i \in 1 .. 7 : Aws!AmbientSources[i] \in {"env", "shared", "config", "irsa", "pod", "ecs", "imds"}
      BY <1>3
    <2>2. /\ Aws!AmbientSources[1] = "env" /\ Aws!AmbientSources[2] = "shared"
          /\ Aws!AmbientSources[3] = "config" /\ Aws!AmbientSources[4] = "irsa"
          /\ Aws!AmbientSources[5] = "pod" /\ Aws!AmbientSources[6] = "ecs"
          /\ Aws!AmbientSources[7] = "imds"
      BY <1>3
    <2>3. /\ 1 \in 1 .. 7 /\ 2 \in 1 .. 7 /\ 3 \in 1 .. 7 /\ 4 \in 1 .. 7 /\ 5 \in 1 .. 7
          /\ 6 \in 1 .. 7 /\ 7 \in 1 .. 7
      OBVIOUS
    <2> QED
      BY <1>4, <2>1, <2>2, <2>3
  <1>6. \A i \in 1 .. 7 : Aws!AmbientSources[i] \in Aws!Ambient
    BY <1>4
  <1> QED
    BY <1>2, <1>5, <1>6

-----------------------------------------------------------------------------
\* The cache of credentials.

LEMMA RemovedAt ==
  ASSUME NEW S, NEW s \in Seq(S), NEW i \in DOMAIN s
  PROVE  Aws!RemoveAt(s, i) \in Seq(S) /\ Len(Aws!RemoveAt(s, i)) <= Len(s)
  <1> DEFINE front == SubSeq(s, 1, i - 1)
             back == SubSeq(s, i + 1, Len(s))
             r == Aws!RemoveAt(s, i)
  <1>1. Len(s) \in Nat /\ DOMAIN s = 1 .. Len(s) /\ i \in 1 .. Len(s) /\ \A j \in DOMAIN s : s[j] \in S
    BY LenProperties, ElementOfSeq
  <1>2. front \in Seq(S) /\ Len(front) = i - 1
    BY <1>1, SubSeqProperties
  <1>3. back \in Seq(S) /\ Len(back) = Len(s) - i
    BY <1>1, SubSeqProperties
  <1>4. r = front \o back
    BY DEF Aws!RemoveAt
  <1> HIDE DEF r, front, back
  <1>5. r \in Seq(S) /\ Len(r) = Len(front) + Len(back)
    BY <1>2, <1>3, <1>4, ConcatProperties
  <1>6. Len(r) <= Len(s)
    BY <1>1, <1>2, <1>3, <1>5
  <1> QED
    BY <1>5, <1>6 DEF r

LEMMA GottenStore ==
  ASSUME Stored(store), NEW key
  PROVE  Stored(Aws!AfterGet(key))
  <1>1. CASE Aws!Expired(key) = {}
    BY <1>1 DEF Aws!AfterGet
  <1>2. CASE Aws!Expired(key) # {}
    <2> DEFINE i == CHOOSE j \in Aws!Expired(key) : TRUE
    <2>1. i \in DOMAIN store
      BY <1>2 DEF Aws!Expired
    <2>2. Aws!AfterGet(key) = Aws!RemoveAt(store, i)
      BY <1>2 DEF Aws!AfterGet
    <2> HIDE DEF i
    <2>3. store \in Seq(Cached) /\ Len(store) \in Nat /\ Len(store) <= MaxCredentials
      BY LenProperties DEF Stored
    <2>4. Aws!RemoveAt(store, i) \in Seq(Cached) /\ Len(Aws!RemoveAt(store, i)) <= Len(store)
      BY <2>1, <2>3, RemovedAt
    <2>5. Len(Aws!RemoveAt(store, i)) \in Nat
      BY <2>4, LenProperties
    <2> QED
      BY <2>2, <2>3, <2>4, <2>5, AwsBounds DEF Stored
  <1> QED
    BY <1>1, <1>2

LEMMA SetStore ==
  ASSUME Stored(store), NEW key \in Aws!Services \cup Roles \cup {SourceRole}, NEW cred \in Creds,
         Trusted(cred), key \notin Aws!Services => cred.role = key
  PROVE  Stored(Aws!AfterSet(key, cred))
  <1> DEFINE room == IF Len(store) >= MaxCredentials THEN Tail(store) ELSE store
             entry == [key |-> key, cred |-> cred, keep |-> CredentialTtl,
                       left |-> CredentialLife]
             at == {i \in DOMAIN room : room[i].key = key}
             after == IF at = {} THEN Append(room, entry)
                      ELSE [i \in DOMAIN room |-> IF i \in at THEN entry ELSE room[i]]
  <1>1. Aws!AfterSet(key, cred) = after
    BY DEF Aws!AfterSet, Aws!Kept
  <1>2. entry \in Cached
    BY AwsBounds DEF Cached
  <1>3. store \in Seq(Cached) /\ Len(store) \in Nat /\ Len(store) <= MaxCredentials
    BY LenProperties DEF Stored
  <1>4. room \in Seq(Cached) /\ Len(room) \in Nat /\ Len(room) < MaxCredentials
    <2>1. CASE Len(store) >= MaxCredentials
      <3>1. store # << >>
        BY <1>3, <2>1, AwsBounds
      <3>2. Tail(store) \in Seq(Cached) /\ Len(Tail(store)) = Len(store) - 1
        BY <1>3, <3>1, HeadTailProperties
      <3> QED
        BY <1>3, <2>1, <3>2, AwsBounds
    <2>2. CASE ~(Len(store) >= MaxCredentials)
      BY <1>3, <2>2, AwsBounds
    <2> QED
      BY <2>1, <2>2
  <1> HIDE DEF room, entry
  <1>5. CASE at = {}
    <2>1. Append(room, entry) \in Seq(Cached) /\ Len(Append(room, entry)) = Len(room) + 1
      BY <1>2, <1>4, AppendProperties
    <2> QED
      BY <1>1, <1>4, <1>5, <2>1, AwsBounds DEF Stored
  <1>6. CASE at # {}
    <2> DEFINE other == [i \in DOMAIN room |-> IF i \in at THEN entry ELSE room[i]]
    <2>1. DOMAIN room = 1 .. Len(room) /\ \A i \in DOMAIN room : room[i] \in Cached
      BY <1>4, LenProperties, ElementOfSeq
    <2>2. other \in [1 .. Len(room) -> Cached]
      BY <1>2, <2>1
    <2>3. other \in Seq(Cached) /\ Len(other) = Len(room)
      BY <1>4, <2>2, SeqDef, LenProperties
    <2> QED
      BY <1>1, <1>4, <1>6, <2>3, AwsBounds DEF Stored
  <1> QED
    BY <1>5, <1>6

\* What a lookup finds is live.
LEMMA HitIsCached ==
  ASSUME Stored(store), NEW key, Aws!Hits(key) # {}
  PROVE  /\ Aws!Entry(key) \in Cached /\ Aws!Entry(key).key = key
         /\ Aws!Entry(key).left > 0
  <1> DEFINE i == CHOOSE j \in Aws!Hits(key) : TRUE
  <1>1. i \in DOMAIN store /\ store[i].key = key /\ store[i].keep > 0 /\ Aws!Entry(key) = store[i]
    BY DEF Aws!Hits, Aws!Entry
  <1> HIDE DEF i
  <1>2. store[i] \in Cached
    BY <1>1, ElementOfSeq, LenProperties DEF Stored
  <1>3. store[i].keep \in Nat /\ store[i].left \in Nat /\ store[i].keep <= store[i].left
    BY <1>2 DEF Cached
  <1> QED
    BY <1>1, <1>2, <1>3

-----------------------------------------------------------------------------
\* A resolution goes on: f is what becomes of the callers when c's does.

Turn(c, f) == \E r \in Resolution : Proper(r) /\ f = [caller EXCEPT ![c] = r]

\* A resolution under way: it was asked for properly.
Going(c) == AwsInv /\ c \in Callers /\ Asked(caller[c])

LEMMA GoingCaller ==
  ASSUME NEW c, Going(c)
  PROVE  /\ caller[c] \in Resolution /\ Proper(caller[c])
         /\ config.ambient \in BOOLEAN /\ config.direct \in BOOLEAN
  BY DEF Going, AwsInv, AwsConfig

LEMMA DoneTurn ==
  ASSUME NEW c, Going(c), NEW cred \in Creds \cup {None}, cred # None => Trusted(cred),
         cred # None /\ caller[c].role # None => cred.role = caller[c].role
  PROVE  Turn(c, Aws!Done(c, cred, TRUE))
  <1> DEFINE old == caller[c]
             idle == Aws!Idle
             new == [idle EXCEPT !.pc = "done", !.auth = old.auth, !.role = old.role,
                                 !.out = cred, !.live = TRUE]
  <1>1. Aws!Done(c, cred, TRUE) = [caller EXCEPT ![c] = new]
    BY DEF Aws!Done
  <1>2. old \in Resolution /\ Asked(old)
    BY GoingCaller DEF Going
  <1>3. /\ idle = [pc |-> "idle", auth |-> None, role |-> None, at |-> 0, stage |-> None,
                   key |-> None, out |-> None, live |-> TRUE]
        /\ 0 \in 0 .. 7
    BY DEF Aws!Idle
  <1> HIDE DEF idle
  <1>4. idle \in Resolution /\ idle.key = None
    BY <1>3 DEF Resolution
  <1> HIDE DEF old
  <1>5. /\ new \in Resolution /\ new.pc = "done" /\ new.auth = old.auth /\ new.role = old.role
        /\ new.key = None /\ new.out = cred /\ new.live = TRUE
    BY <1>2, <1>4 DEF Resolution
  <1> HIDE DEF new
  <1>6. Proper(new)
    BY <1>2, <1>5 DEF Proper, Asked, old
  <1> QED
    BY <1>1, <1>5, <1>6 DEF Turn

LEMMA SeekTurn ==
  ASSUME NEW c, Going(c), NEW stage \in {"source", "target"}, NEW key \in Creds \cup {None},
         key # None => Trusted(key), stage = "target" => caller[c].role # None
  PROVE  Turn(c, Aws!SeekRole(c, stage, key))
  <1> DEFINE old == caller[c]
             new == [old EXCEPT !.pc = "sts", !.stage = stage, !.key = key]
  <1>1. old \in Resolution /\ Asked(old) /\ Proper(old) /\ caller \in [Callers -> Resolution]
    BY GoingCaller DEF Going, AwsInv
  <1>2. Aws!SeekRole(c, stage, key) = [caller EXCEPT ![c] = new]
    BY <1>1 DEF Aws!SeekRole
  <1> HIDE DEF old
  <1>3. /\ new \in Resolution /\ new.pc = "sts" /\ new.stage = stage /\ new.key = key
        /\ new.role = old.role /\ new.auth = old.auth /\ new.out = old.out /\ new.live = old.live
    BY <1>1 DEF Resolution
  <1> HIDE DEF new
  <1>4. Proper(new)
    BY <1>1, <1>3 DEF Proper, Asked, old
  <1> QED
    BY <1>2, <1>3, <1>4 DEF Turn

LEMMA SourceTurn ==
  ASSUME NEW c, Going(c), NEW at \in 1 .. 7, config.ambient
  PROVE  Turn(c, [caller EXCEPT ![c].pc = "ambient", ![c].at = at])
  <1> DEFINE old == caller[c]
             new == [old EXCEPT !.pc = "ambient", !.at = at]
  <1>1. old \in Resolution /\ Asked(old) /\ Proper(old) /\ caller \in [Callers -> Resolution]
    BY GoingCaller DEF Going, AwsInv
  <1>2. [caller EXCEPT ![c].pc = "ambient", ![c].at = at] = [caller EXCEPT ![c] = new]
    BY <1>1
  <1>a. at \in 0 .. 7
    OBVIOUS
  <1> HIDE DEF old
  <1>3. /\ new \in Resolution /\ new.pc = "ambient" /\ new.at = at /\ new.key = old.key
        /\ new.role = old.role /\ new.auth = old.auth /\ new.out = old.out /\ new.live = old.live
    BY <1>1, <1>a DEF Resolution
  <1> HIDE DEF new
  <1>4. Proper(new)
    BY <1>1, <1>3 DEF Proper, Asked, old
  <1> QED
    BY <1>2, <1>3, <1>4 DEF Turn

\* A step of a resolution that only moves on, within the same stage.
LEMMA PcTurn ==
  ASSUME NEW c, Going(c), NEW pc \in {"assuming", "fetching"},
         <<caller[c].pc, pc>> \in {<<"sts", "assuming">>, <<"ambient", "fetching">>}
  PROVE  Turn(c, [caller EXCEPT ![c].pc = pc])
  <1> DEFINE old == caller[c]
             new == [old EXCEPT !.pc = pc]
  <1>1. old \in Resolution /\ Asked(old) /\ Proper(old) /\ caller \in [Callers -> Resolution]
    BY GoingCaller DEF Going, AwsInv
  <1>2. [caller EXCEPT ![c].pc = pc] = [caller EXCEPT ![c] = new]
    BY <1>1
  <1>3. <<old.pc, pc>> \in {<<"sts", "assuming">>, <<"ambient", "fetching">>}
    OBVIOUS
  <1> HIDE DEF old
  <1>4. /\ new \in Resolution /\ new.pc = pc /\ new.at = old.at /\ new.key = old.key
        /\ new.stage = old.stage
        /\ new.role = old.role /\ new.auth = old.auth /\ new.out = old.out /\ new.live = old.live
    BY <1>1 DEF Resolution
  <1> HIDE DEF new
  <1>5. Proper(new)
    BY <1>1, <1>3, <1>4 DEF Proper, Asked
  <1> QED
    BY <1>2, <1>4, <1>5 DEF Turn

\* With the keys found so far, the role is assumed, they are handed out, or the
\* host's identity is looked for.
LEMMA KeysTurn ==
  ASSUME NEW c, Going(c), NEW key \in Creds \cup {None}, key # None => Trusted(key)
  PROVE  Turn(c, Aws!WithKeys(c, key))
  <1>1. CASE key # None /\ caller[c].role # None
    <2>1. Aws!WithKeys(c, key) = Aws!SeekRole(c, "target", key)
      BY <1>1 DEF Aws!WithKeys
    <2> QED
      BY <1>1, <2>1, SeekTurn
  <1>2. CASE key # None /\ caller[c].role = None
    <2>1. Aws!WithKeys(c, key) = Aws!Done(c, key, TRUE)
      BY <1>2 DEF Aws!WithKeys
    <2> QED
      BY <1>2, <2>1, DoneTurn
  <1>3. CASE key = None /\ Aws!NeedsConsent(c)
    <2>1. Aws!WithKeys(c, key) = Aws!Done(c, None, TRUE)
      BY <1>3 DEF Aws!WithKeys
    <2> QED
      BY <2>1, DoneTurn
  <1>4. CASE key = None /\ ~Aws!NeedsConsent(c)
    <2>1. Aws!WithKeys(c, key) = [caller EXCEPT ![c].pc = "ambient", ![c].at = 1]
      BY <1>4 DEF Aws!WithKeys
    <2>2. config.ambient
      BY <1>4 DEF Aws!NeedsConsent
    <2>3. 1 \in 1 .. 7
      OBVIOUS
    <2> QED
      BY <2>1, <2>2, <2>3, SourceTurn
  <1> QED
    BY <1>1, <1>2, <1>3, <1>4

LEMMA DirectIsTrusted ==
  ASSUME AwsInv
  PROVE  /\ Aws!DirectKeys \in Creds /\ Trusted(Aws!DirectKeys)
         /\ Aws!Direct \in Creds \cup {None} /\ (Aws!Direct # None => Trusted(Aws!Direct))
  <1>1. Aws!DirectKeys = [as |-> "direct", by |-> "direct", role |-> None]
    BY DEF Aws!DirectKeys, Aws!Cred
  <1>2. Aws!DirectKeys \in Creds /\ Trusted(Aws!DirectKeys)
    <2>1. "direct" \notin Aws!Ambient
      BY AmbientIs
    <2>2. Aws!DirectKeys \in Creds
      BY <1>1 DEF Creds, AwsRoles, Names
    <2>3. Aws!DirectKeys.as = "direct" /\ Aws!DirectKeys.by = "direct"
      BY <1>1
    <2> QED
      BY <2>1, <2>2, <2>3 DEF Trusted
  <1> QED
    BY <1>2 DEF Aws!Direct

\* After an AssumeRole result, or its absence.
LEMMA StsTurn ==
  ASSUME NEW c, Going(c), NEW cred \in Creds \cup {None}, cred # None => Trusted(cred),
         caller[c].stage \in {"source", "target"},
         cred # None /\ caller[c].stage = "target" => cred.role = caller[c].role
  PROVE  Turn(c, Aws!AfterSts(c, cred, TRUE))
  <1>1. CASE caller[c].stage = "target"
    BY <1>1, DoneTurn DEF Aws!AfterSts
  <1>2. CASE caller[c].stage = "source"
    <2> DEFINE key == IF cred # None THEN cred ELSE Aws!Direct
    <2>1. key \in Creds \cup {None} /\ (key # None => Trusted(key))
      BY DirectIsTrusted DEF Going
    <2>2. Aws!AfterSts(c, cred, TRUE) = Aws!WithKeys(c, key)
      BY <1>2 DEF Aws!AfterSts
    <2> HIDE DEF key
    <2> QED
      BY <2>1, <2>2, KeysTurn
  <1> QED
    BY <1>1, <1>2

LEMMA FoundTurn ==
  ASSUME NEW c, Going(c), NEW cred \in Creds \cup {None}, cred # None => Trusted(cred)
  PROVE  Turn(c, Aws!Found(c, cred, TRUE))
  <1>1. CASE caller[c].role = None \/ (cred # None /\ cred.role = caller[c].role)
    BY <1>1, DoneTurn DEF Aws!Found
  <1>2. CASE ~(caller[c].role = None \/ (cred # None /\ cred.role = caller[c].role))
    BY <1>2, SeekTurn DEF Aws!Found
  <1> QED
    BY <1>1, <1>2

LEMMA NextTurn ==
  ASSUME NEW c, Going(c), caller[c].pc \in {"ambient", "fetching"}
  PROVE  Turn(c, Aws!NextSource(c))
  <1>1. config.ambient /\ caller[c].at \in 1 .. 7
    BY GoingCaller DEF Proper
  <1>2. caller \in [Callers -> Resolution] /\ caller[c] \in Resolution
    BY DEF Going, AwsInv
  <1>3. CASE caller[c].at < 7
    <2> DEFINE at == caller[c].at + 1
    <2>1. at \in 1 .. 7
      BY <1>1, <1>3
    <2>2. Aws!NextSource(c) = [caller EXCEPT ![c].pc = "ambient", ![c].at = @ + 1]
      BY <1>3, AmbientIs DEF Aws!NextSource
    <2>3. Aws!NextSource(c) = [caller EXCEPT ![c].pc = "ambient", ![c].at = at]
      BY <1>2, <2>2 DEF Resolution
    <2> HIDE DEF at
    <2> QED
      BY <1>1, <2>1, <2>3, SourceTurn
  <1>4. CASE ~(caller[c].at < 7)
    <2>1. Aws!NextSource(c) = Aws!Found(c, None, TRUE)
      BY <1>4, AmbientIs DEF Aws!NextSource
    <2> QED
      BY <2>1, FoundTurn
  <1> QED
    BY <1>3, <1>4


-----------------------------------------------------------------------------
\* The steps of AwsCredentials.

LEMMA AwsGoesOn ==
  ASSUME AwsInv, NEW c \in Callers, Turn(c, caller'), Stored(store'), config' = config
  PROVE  AwsInv'
  <1>1. Cached' = Cached
    BY DEF Cached, Trusted
  <1>2. Stored(store)'
    BY <1>1 DEF Stored
  <1>3. PICK r \in Resolution : Proper(r) /\ caller' = [caller EXCEPT ![c] = r]
    BY DEF Turn
  <1>4. caller \in [Callers -> Resolution] /\ \A d \in Callers : Proper(caller[d])
    BY DEF AwsInv
  <1>5. caller' \in [Callers -> Resolution] /\ \A d \in Callers : Proper(caller'[d])
    BY <1>3, <1>4
  <1>6. ASSUME NEW d \in Callers  PROVE Proper(caller[d])'
    BY <1>5 DEF Proper, Trusted
  <1>7. AwsConfig'
    BY DEF AwsInv, AwsConfig
  <1> QED
    BY <1>2, <1>5, <1>6, <1>7 DEF AwsInv

LEMMA Underway ==
  ASSUME AwsInv, NEW c \in Callers, caller[c].pc \notin {"idle", "done"}
  PROVE  Going(c) /\ caller[c] \in Resolution /\ Proper(caller[c]) /\ Stored(store)
  BY DEF AwsInv, Going, Proper

LEMMA AskStep ==
  ASSUME AwsInv, NEW c \in Callers, Aws!Ask(c)
  PROVE  AwsInv'
  <1>1. PICK auth \in {"assumedRole", "serviceRole"}, role \in Roles \cup {None} :
          LET asked == [Aws!Idle EXCEPT !.auth = auth, !.role = role] IN
          /\ caller' = [caller EXCEPT ![c] =
                IF \/ auth = "assumedRole" /\ role = None
                   \/ auth = "serviceRole" /\ ~config.ambient
                THEN [asked EXCEPT !.pc = "done"] ELSE [asked EXCEPT !.pc = "source"]]
    BY DEF Aws!Ask
  <1> DEFINE idle == Aws!Idle
             asked == [idle EXCEPT !.auth = auth, !.role = role]
             done == [asked EXCEPT !.pc = "done"]
             source == [asked EXCEPT !.pc = "source"]
             refused == \/ auth = "assumedRole" /\ role = None
                        \/ auth = "serviceRole" /\ ~config.ambient
  <1>2. caller' = [caller EXCEPT ![c] = IF refused THEN done ELSE source]
    BY <1>1
  <1>3. /\ idle = [pc |-> "idle", auth |-> None, role |-> None, at |-> 0, stage |-> None,
                   key |-> None, out |-> None, live |-> TRUE]
        /\ 0 \in 0 .. 7
    BY DEF Aws!Idle
  <1> HIDE DEF idle
  <1>4. idle \in Resolution /\ idle.key = None /\ idle.out = None /\ idle.live = TRUE
    BY <1>3 DEF Resolution
  <1>5. /\ asked \in Resolution /\ asked.key = None /\ asked.out = None /\ asked.live = TRUE
        /\ asked.auth = auth /\ asked.role = role
    BY <1>4 DEF Resolution
  <1> HIDE DEF asked
  <1>6. /\ done \in Resolution /\ done.key = None /\ done.out = None /\ done.live = TRUE
        /\ done.auth = auth /\ done.role = role /\ done.pc = "done"
    BY <1>5 DEF Resolution
  <1>7. /\ source \in Resolution /\ source.key = None /\ source.out = None /\ source.live = TRUE
        /\ source.auth = auth /\ source.role = role /\ source.pc = "source"
    BY <1>5 DEF Resolution
  <1> HIDE DEF done, source
  <1>8. Proper(done)
    BY <1>6 DEF Proper
  <1>9. ~refused => Proper(source)
    BY <1>7 DEF Proper, Asked
  <1>10. Turn(c, caller')
    <2>1. CASE refused
      BY <1>2, <1>6, <1>8, <2>1 DEF Turn
    <2>2. CASE ~refused
      BY <1>2, <1>7, <1>9, <2>2 DEF Turn
    <2> QED
      BY <2>1, <2>2
  <1>11. Stored(store') /\ config' = config
    BY DEF Aws!Ask, AwsInv
  <1> QED
    BY <1>10, <1>11, AwsGoesOn

LEMMA SourceStepStep ==
  ASSUME AwsInv, NEW c \in Callers, Aws!SourceStep(c)
  PROVE  AwsInv'
  <1>1. Going(c) /\ Stored(store)
    BY Underway DEF Aws!SourceStep
  <1>2. Turn(c, caller')
    <2>1. CASE config.source /\ config.direct
      <3>1. caller' = Aws!SeekRole(c, "source", Aws!DirectKeys)
        BY <2>1 DEF Aws!SourceStep
      <3>2. Turn(c, Aws!SeekRole(c, "source", Aws!DirectKeys))
        BY <1>1, DirectIsTrusted, SeekTurn
      <3> QED
        BY <3>1, <3>2
    <2>2. CASE ~(config.source /\ config.direct)
      <3>1. caller' = Aws!WithKeys(c, Aws!Direct)
        BY <2>2 DEF Aws!SourceStep
      <3>2. Turn(c, Aws!WithKeys(c, Aws!Direct))
        BY <1>1, DirectIsTrusted, KeysTurn
      <3> QED
        BY <3>1, <3>2
    <2> QED
      BY <2>1, <2>2
  <1>3. Stored(store') /\ config' = config
    BY <1>1 DEF Aws!SourceStep
  <1> QED
    BY <1>2, <1>3, AwsGoesOn

\* Who assumes a role, and under which name its credentials are kept.
LEMMA StsRole ==
  ASSUME AwsInv, NEW c \in Callers, caller[c].pc \in {"sts", "assuming"}
  PROVE  /\ Going(c) /\ Stored(store)
         /\ caller[c].stage \in {"source", "target"}
         /\ Aws!StsKey(c) \in Roles \cup {SourceRole} /\ Aws!StsKey(c) \notin Aws!Services
         /\ caller[c].stage = "target" => Aws!StsKey(c) = caller[c].role
         /\ caller[c].key # None => caller[c].key \in Creds /\ Trusted(caller[c].key)
  <1>1. Going(c) /\ caller[c] \in Resolution /\ Proper(caller[c]) /\ Stored(store)
    BY Underway
  <1>2. /\ caller[c].stage \in {"source", "target"}
        /\ caller[c].stage = "target" => caller[c].role # None
        /\ caller[c].key # None => Trusted(caller[c].key)
    BY <1>1 DEF Proper
  <1>3. caller[c].role \in Roles \cup {None} /\ caller[c].key \in Creds \cup {None}
    BY <1>1 DEF Resolution
  <1>4. Aws!StsKey(c) \in Roles \cup {SourceRole}
    BY <1>2, <1>3 DEF Aws!StsKey
  <1>5. caller[c].stage = "target" => Aws!StsKey(c) = caller[c].role
    BY DEF Aws!StsKey
  <1> QED
    BY <1>1, <1>2, <1>3, <1>4, <1>5, AwsBounds

LEMMA StsLookStep ==
  ASSUME AwsInv, NEW c \in Callers, Aws!StsLook(c)
  PROVE  AwsInv'
  <1> DEFINE key == Aws!StsKey(c)
             hit == Aws!Entry(key)
  <1>1. /\ caller[c].pc = "sts" /\ store' = Aws!AfterGet(key) /\ config' = config
        /\ caller' = IF Aws!Hits(key) # {} THEN Aws!AfterSts(c, hit.cred, hit.left > 0)
                     ELSE [caller EXCEPT ![c].pc = "assuming"]
    BY DEF Aws!StsLook
  <1>2. /\ Going(c) /\ Stored(store)
        /\ caller[c].stage \in {"source", "target"} /\ key \notin Aws!Services
        /\ caller[c].stage = "target" => key = caller[c].role
    BY <1>1, StsRole
  <1> HIDE DEF key
  <1>3. Stored(store')
    BY <1>1, <1>2, GottenStore
  <1>4. Turn(c, caller')
    <2>1. CASE Aws!Hits(key) # {}
      <3>1. hit \in Cached /\ hit.key = key /\ hit.left > 0
        BY <1>2, <2>1, HitIsCached
      <3> HIDE DEF hit
      <3>2. hit.cred \in Creds /\ Trusted(hit.cred) /\ hit.cred.role = key
        BY <1>2, <3>1 DEF Cached
      <3>3. Turn(c, Aws!AfterSts(c, hit.cred, TRUE))
        BY <1>2, <3>2, StsTurn
      <3>4. (hit.left > 0) = TRUE
        BY <3>1
      <3>5. caller' = Aws!AfterSts(c, hit.cred, hit.left > 0)
        BY <1>1, <2>1
      <3> QED
        BY <3>3, <3>4, <3>5
    <2>2. CASE Aws!Hits(key) = {}
      <3>1. caller' = [caller EXCEPT ![c].pc = "assuming"]
        BY <1>1, <2>2
      <3>2. Turn(c, [caller EXCEPT ![c].pc = "assuming"])
        BY <1>1, <1>2, PcTurn
      <3> QED
        BY <3>1, <3>2
    <2> QED
      BY <2>1, <2>2
  <1> QED
    BY <1>1, <1>3, <1>4, AwsGoesOn

LEMMA StsAnswerStep ==
  ASSUME AwsInv, NEW c \in Callers, Aws!StsAnswer(c)
  PROVE  AwsInv'
  <1> DEFINE key == Aws!StsKey(c)
             keys0 == caller[c].key
             cred == Aws!Cred("sts", keys0.as, key)
  <1>1. /\ caller[c].pc = "assuming" /\ caller[c].key # None /\ config' = config
        /\ store' = Aws!AfterSet(key, cred) /\ caller' = Aws!AfterSts(c, cred, TRUE)
    BY DEF Aws!StsAnswer, Aws!StsKey
  <1>2. /\ Going(c) /\ Stored(store)
        /\ caller[c].stage \in {"source", "target"}
        /\ key \in Roles \cup {SourceRole} /\ key \notin Aws!Services
        /\ caller[c].stage = "target" => key = caller[c].role
        /\ keys0 \in Creds /\ Trusted(keys0)
    BY <1>1, StsRole
  <1>3. cred = [as |-> "sts", by |-> keys0.as, role |-> key]
    BY DEF Aws!Cred
  <1> HIDE DEF key, keys0, cred
  <1>4. keys0.as \in Names /\ (keys0.as \in Aws!Ambient => config.ambient)
    BY <1>2 DEF Creds, Trusted
  <1>5. cred \in Creds /\ cred.as = "sts" /\ cred.by = keys0.as /\ cred.role = key
    BY <1>2, <1>3, <1>4 DEF Creds, Names, AwsRoles
  <1>6. Trusted(cred)
    <2>1. "sts" \notin Aws!Ambient
      BY AmbientIs
    <2> QED
      BY <1>4, <1>5, <2>1 DEF Trusted
  <1>7. Stored(store')
    BY <1>1, <1>2, <1>5, <1>6, SetStore
  <1>8. Turn(c, caller')
    <2>1. Turn(c, Aws!AfterSts(c, cred, TRUE))
      BY <1>2, <1>5, <1>6, StsTurn
    <2> QED
      BY <1>1, <2>1
  <1> QED
    BY <1>1, <1>7, <1>8, AwsGoesOn

LEMMA StsRefuseStep ==
  ASSUME AwsInv, NEW c \in Callers, Aws!StsRefuse(c)
  PROVE  AwsInv'
  <1>1. caller[c].pc = "assuming" /\ UNCHANGED <<store, config>>
        /\ caller' = Aws!AfterSts(c, None, TRUE)
    BY DEF Aws!StsRefuse
  <1>2. Going(c) /\ Stored(store) /\ caller[c].stage \in {"source", "target"}
    BY <1>1, StsRole
  <1>3. Turn(c, Aws!AfterSts(c, None, TRUE))
    BY <1>2, StsTurn
  <1>4. Turn(c, caller')
    BY <1>1, <1>3
  <1> QED
    BY <1>1, <1>2, <1>4, AwsGoesOn

-----------------------------------------------------------------------------
\* The host's own identity.

LEMMA SourceIs ==
  ASSUME AwsInv, NEW c \in Callers, caller[c].pc \in {"ambient", "fetching"}
  PROVE  /\ Going(c) /\ Stored(store) /\ config.ambient
         /\ Aws!Source(c) \in Aws!Ambient /\ Aws!Source(c) \in Names
  <1>1. Going(c) /\ caller[c] \in Resolution /\ Proper(caller[c]) /\ Stored(store)
    BY Underway
  <1>2. config.ambient /\ caller[c].at \in 1 .. 7
    BY <1>1 DEF Proper
  <1>3. Aws!Source(c) \in Aws!Ambient
    BY <1>2, AmbientIs DEF Aws!Source
  <1> QED
    BY <1>1, <1>2, <1>3 DEF Names

LEMMA HostCred ==
  ASSUME config.ambient, NEW s \in Names, NEW role \in AwsRoles
  PROVE  /\ Aws!Cred(s, s, role) \in Creds /\ Trusted(Aws!Cred(s, s, role))
         /\ Aws!Cred(s, s, role).role = role
  <1>1. Aws!Cred(s, s, role) = [as |-> s, by |-> s, role |-> role]
    BY DEF Aws!Cred
  <1> QED
    BY <1>1 DEF Creds, Trusted

LEMMA StaticCred ==
  ASSUME config.ambient, NEW s \in Names
  PROVE  Aws!StaticKeys(s) \in Creds /\ Trusted(Aws!StaticKeys(s))
  <1>1. CASE config.labelled
    BY <1>1, HostCred DEF Aws!StaticKeys, AwsRoles
  <1>2. CASE ~config.labelled
    BY <1>2, HostCred DEF Aws!StaticKeys, AwsRoles
  <1> QED
    BY <1>1, <1>2

LEMMA AmbientLookStep ==
  ASSUME AwsInv, NEW c \in Callers, Aws!AmbientLook(c)
  PROVE  AwsInv'
  <1> DEFINE s == Aws!Source(c)
             hit == Aws!Entry(s)
             offered == s \in Aws!Services \cap config.host
             unread == (s \in Aws!Files /\ fileCache[s] = "unread") \/ (offered /\ Aws!Hits(s) = {})
             static == (s \in Aws!Files /\ fileCache[s] = "cred") \/ (s = "env" /\ s \in config.host)
             hot == offered /\ Aws!Hits(s) # {}
  <1>1. /\ caller[c].pc = "ambient" /\ config' = config
        /\ store' = IF offered THEN Aws!AfterGet(s) ELSE store
        /\ caller' = CASE unread -> [caller EXCEPT ![c].pc = "fetching"]
                       [] static -> Aws!Found(c, Aws!StaticKeys(s), TRUE)
                       [] hot -> Aws!Found(c, hit.cred, hit.left > 0)
                       [] OTHER -> Aws!NextSource(c)
    BY DEF Aws!AmbientLook
  <1>2. Going(c) /\ Stored(store) /\ config.ambient /\ s \in Names
    BY <1>1, SourceIs
  <1>3. /\ unread => ~static /\ ~hot
        /\ static => ~hot
    BY DEF Aws!Files, Aws!Services
  <1> HIDE DEF s
  <1>4. Stored(store')
    BY <1>1, <1>2, GottenStore
  <1>5. Turn(c, caller')
    <2>1. CASE unread
      <3>1. caller' = [caller EXCEPT ![c].pc = "fetching"]
        BY <1>1, <1>3, <2>1
      <3>2. Turn(c, [caller EXCEPT ![c].pc = "fetching"])
        BY <1>1, <1>2, PcTurn
      <3> QED
        BY <3>1, <3>2
    <2>2. CASE static
      <3>1. caller' = Aws!Found(c, Aws!StaticKeys(s), TRUE)
        BY <1>1, <1>3, <2>2
      <3>2. Turn(c, Aws!Found(c, Aws!StaticKeys(s), TRUE))
        BY <1>2, StaticCred, FoundTurn
      <3> QED
        BY <3>1, <3>2
    <2>3. CASE hot
      <3>1. hit \in Cached /\ hit.left > 0
        BY <1>2, <2>3, HitIsCached
      <3>2. caller' = Aws!Found(c, hit.cred, hit.left > 0)
        BY <1>1, <1>3, <2>3
      <3> HIDE DEF hit
      <3>3. hit.cred \in Creds /\ Trusted(hit.cred)
        BY <3>1 DEF Cached
      <3>4. Turn(c, Aws!Found(c, hit.cred, TRUE))
        BY <1>2, <3>3, FoundTurn
      <3>5. (hit.left > 0) = TRUE
        BY <3>1
      <3> QED
        BY <3>2, <3>4, <3>5
    <2>4. CASE ~unread /\ ~static /\ ~hot
      <3>1. caller' = Aws!NextSource(c)
        BY <1>1, <2>4
      <3>2. Turn(c, Aws!NextSource(c))
        BY <1>1, <1>2, NextTurn
      <3> QED
        BY <3>1, <3>2
    <2> QED
      BY <2>1, <2>2, <2>3, <2>4
  <1> QED
    BY <1>1, <1>4, <1>5, AwsGoesOn

LEMMA ReadFileStep ==
  ASSUME AwsInv, NEW c \in Callers, Aws!ReadFile(c)
  PROVE  AwsInv'
  <1> DEFINE s == Aws!Source(c)
  <1>1. /\ caller[c].pc = "fetching" /\ UNCHANGED <<config, store>>
        /\ caller' = IF s \in config.host THEN Aws!Found(c, Aws!StaticKeys(s), TRUE)
                     ELSE Aws!NextSource(c)
    BY DEF Aws!ReadFile
  <1>2. Going(c) /\ Stored(store) /\ config.ambient /\ s \in Names
    BY <1>1, SourceIs
  <1> HIDE DEF s
  <1>3. Turn(c, caller')
    <2>1. Turn(c, Aws!Found(c, Aws!StaticKeys(s), TRUE))
      BY <1>2, StaticCred, FoundTurn
    <2>2. Turn(c, Aws!NextSource(c))
      BY <1>1, <1>2, NextTurn
    <2> QED
      BY <1>1, <2>1, <2>2
  <1> QED
    BY <1>1, <1>2, <1>3, AwsGoesOn

LEMMA FetchAmbientStep ==
  ASSUME AwsInv, NEW c \in Callers, Aws!FetchAmbient(c)
  PROVE  AwsInv'
  <1> DEFINE s == Aws!Source(c)
             cred == Aws!Cred(s, s, HostRole)
  <1>1. /\ caller[c].pc = "fetching" /\ s \in Aws!Services /\ config' = config
        /\ store' = Aws!AfterSet(s, cred) /\ caller' = Aws!Found(c, cred, TRUE)
    BY DEF Aws!FetchAmbient
  <1>2. Going(c) /\ Stored(store) /\ config.ambient /\ s \in Names
    BY <1>1, SourceIs
  <1> HIDE DEF s
  <1>3. cred \in Creds /\ Trusted(cred)
    BY <1>2, HostCred DEF AwsRoles
  <1> HIDE DEF cred
  <1>4. Stored(store')
    BY <1>1, <1>2, <1>3, SetStore
  <1>5. Turn(c, Aws!Found(c, cred, TRUE))
    BY <1>2, <1>3, FoundTurn
  <1>6. Turn(c, caller')
    BY <1>1, <1>5
  <1> QED
    BY <1>1, <1>4, <1>6, AwsGoesOn

LEMMA FetchFailsStep ==
  ASSUME AwsInv, NEW c \in Callers, Aws!FetchFails(c)
  PROVE  AwsInv'
  <1>1. /\ caller[c].pc = "fetching" /\ UNCHANGED <<config, store>>
        /\ caller' = Aws!NextSource(c)
    BY DEF Aws!FetchFails
  <1>2. Going(c) /\ Stored(store)
    BY <1>1, SourceIs
  <1>3. Turn(c, Aws!NextSource(c))
    BY <1>1, <1>2, NextTurn
  <1>4. Turn(c, caller')
    BY <1>1, <1>3
  <1> QED
    BY <1>1, <1>2, <1>4, AwsGoesOn

\* What is kept ages no faster than it is forgotten.
LEMMA AwsTick ==
  ASSUME AwsInv, Aws!Tick
  PROVE  AwsInv'
  <1> DEFINE aged(e) == [e EXCEPT !.keep = Aws!Less(@), !.left = Aws!Less(@)]
  <1>1. store' = [i \in DOMAIN store |-> aged(store[i])] /\ UNCHANGED <<config, caller>>
    BY DEF Aws!Tick
  <1>2. store \in Seq(Cached) /\ Len(store) \in Nat /\ Len(store) <= MaxCredentials
    BY LenProperties DEF AwsInv, Stored
  <1>3. DOMAIN store = 1 .. Len(store) /\ \A i \in DOMAIN store : store[i] \in Cached
    BY <1>2, LenProperties, ElementOfSeq
  <1>4. ASSUME NEW e \in Cached  PROVE aged(e) \in Cached
    <2> DEFINE new == aged(e)
    <2>1. e.keep \in Nat /\ e.left \in Nat /\ e.keep <= e.left
      BY DEF Cached
    <2>2. Aws!Less(e.keep) \in Nat /\ Aws!Less(e.left) \in Nat /\ Aws!Less(e.keep) <= Aws!Less(e.left)
      BY <2>1 DEF Aws!Less
    <2>3. /\ e \in [key : Aws!Services \cup Roles \cup {SourceRole}, cred : Creds,
                    keep : Nat, left : Nat]
          /\ Trusted(e.cred) /\ (e.key \notin Aws!Services => e.cred.role = e.key)
      BY DEF Cached
    <2>4. /\ new \in [key : Aws!Services \cup Roles \cup {SourceRole}, cred : Creds,
                      keep : Nat, left : Nat]
          /\ new.key = e.key /\ new.cred = e.cred
          /\ new.keep = Aws!Less(e.keep) /\ new.left = Aws!Less(e.left)
      BY <2>2, <2>3
    <2> HIDE DEF new
    <2>5. new \in Cached
      BY <2>2, <2>3, <2>4 DEF Cached
    <2> QED
      BY <2>5 DEF new
  <1> HIDE DEF aged
  <1>5. store' \in [1 .. Len(store) -> Cached]
    BY <1>1, <1>3, <1>4
  <1>6. store' \in Seq(Cached) /\ Len(store') = Len(store)
    BY <1>2, <1>5, SeqDef, LenProperties
  <1>7. Cached' = Cached
    BY <1>1 DEF Cached, Trusted
  <1>8. Stored(store)'
    BY <1>2, <1>6, <1>7 DEF Stored
  <1>9. ASSUME NEW d \in Callers  PROVE Proper(caller[d])'
    <2>1. Proper(caller[d])
      BY DEF AwsInv
    <2> QED
      BY <1>1, <2>1 DEF Proper, Trusted
  <1> QED
    BY <1>1, <1>8, <1>9 DEF AwsInv, AwsConfig

LEMMA AwsStep ==
  ASSUME AwsInv, Aws!Next
  PROVE  AwsInv'
  BY AskStep, SourceStepStep, StsLookStep, StsAnswerStep, StsRefuseStep, AmbientLookStep,
     ReadFileStep, FetchAmbientStep, FetchFailsStep, AwsTick DEF Aws!Next

LEMMA AwsStutter ==
  ASSUME AwsInv, UNCHANGED <<config, fileCache, store, caller>>
  PROVE  AwsInv'
  <1>1. Cached' = Cached
    BY DEF Cached, Trusted
  <1>2. Stored(store)'
    BY <1>1 DEF AwsInv, Stored
  <1>3. ASSUME NEW d \in Callers  PROVE Proper(caller[d])'
    <2>1. Proper(caller[d])
      BY DEF AwsInv
    <2> QED
      BY <2>1 DEF Proper, Trusted
  <1> QED
    BY <1>2, <1>3 DEF AwsInv, AwsConfig

LEMMA AwsInitially ==
  ASSUME Aws!Init
  PROVE  AwsInv
  <1> DEFINE idle == Aws!Idle
  <1>1. /\ idle = [pc |-> "idle", auth |-> None, role |-> None, at |-> 0, stage |-> None,
                   key |-> None, out |-> None, live |-> TRUE]
        /\ 0 \in 0 .. 7
    BY DEF Aws!Idle
  <1>2. caller = [c \in Callers |-> idle] /\ store = << >>
    BY DEF Aws!Init
  <1> HIDE DEF idle
  <1>3. /\ idle \in Resolution /\ idle.key = None /\ idle.out = None /\ idle.live = TRUE
        /\ idle.pc = "idle"
    BY <1>1 DEF Resolution
  <1>4. Proper(idle)
    BY <1>3 DEF Proper
  <1>5. Stored(store)
    BY <1>2, AwsBounds, EmptySeq DEF Stored
  <1>6. AwsConfig
    BY DEF Aws!Init, AwsConfig
  <1> QED
    BY <1>2, <1>3, <1>4, <1>5, <1>6 DEF AwsInv

LEMMA AwsIsSafe ==
  ASSUME AwsInv
  PROVE  /\ Aws!TypeOK
         /\ Aws!AmbientNeedsConsent /\ Aws!RoleIsTheOneAsked /\ Aws!CredentialsAreLive
  <1>1. \A c \in Callers : caller[c] \in Resolution /\ Proper(caller[c])
    BY DEF AwsInv
  <1>2. Aws!TypeOK
    <2>1. ASSUME NEW c \in Callers
          PROVE  /\ caller[c].pc \in {"idle", "source", "sts", "assuming", "ambient",
                                      "fetching", "done"}
                 /\ caller[c].pc = "sts" => caller[c].stage \in {"source", "target"}
                 /\ caller[c].pc \in {"ambient", "fetching"} => caller[c].at \in 1 .. 7
      BY <1>1 DEF Proper, Resolution
    <2> QED
      BY <2>1, AmbientIs DEF Aws!TypeOK, AwsInv, Stored
  <1>3. Aws!AmbientNeedsConsent
    BY <1>1 DEF Proper, Trusted, Aws!AmbientNeedsConsent
  <1>4. Aws!RoleIsTheOneAsked
    BY <1>1 DEF Proper, Aws!RoleIsTheOneAsked
  <1>5. Aws!CredentialsAreLive
    BY <1>1 DEF Proper, Aws!CredentialsAreLive
  <1> QED
    BY <1>2, <1>3, <1>4, <1>5
=============================================================================
