---------------------- MODULE TelemetryPipelineProofs ----------------------
(***************************************************************************)
(* The asyncio sender and the collector, for every number of flush tasks,  *)
(* events, requests and failures: the counters add up, nothing is lost     *)
(* uncounted end to end, and the collector's figures are sound.            *)
(*                                                                         *)
(* A step of the sender is a chain of method calls between two awaits.     *)
(* Good says what holds after each link of the chain, of the sender so far *)
(* and of the events the running task still has in its hands; the          *)
(* invariant is Good of every task between two steps.                      *)
(***************************************************************************)
EXTENDS TelemetryPipeline, FiniteSetTheorems

-----------------------------------------------------------------------------
\* Sequences and the sets of their elements.

\* The elements of a concatenation are those of its parts.
LEMMA ElementsConcat ==
    ASSUME NEW S, NEW a \in Seq(S), NEW b \in Seq(S)
    PROVE  Elements(a \o b) = Elements(a) \cup Elements(b)
  <1>1. Len(a) \in Nat /\ Len(b) \in Nat /\ Len(a \o b) = Len(a) + Len(b)
    OBVIOUS
  <1>2. \A i \in 1 .. Len(a) : (a \o b)[i] = a[i] /\ i \in 1 .. Len(a \o b)
    BY <1>1
  <1>3. \A i \in 1 .. Len(b) : (a \o b)[Len(a) + i] = b[i] /\ Len(a) + i \in 1 .. Len(a \o b)
    BY <1>1
  <1>4. \A i \in 1 .. Len(a \o b) :
            \/ i \in 1 .. Len(a) /\ (a \o b)[i] = a[i]
            \/ i - Len(a) \in 1 .. Len(b) /\ (a \o b)[i] = b[i - Len(a)]
    BY <1>1
  <1> HIDE <1>1
  <1>5. ASSUME NEW e \in Elements(a \o b)
        PROVE  e \in Elements(a) \cup Elements(b)
    BY <1>4 DEF Elements
  <1>6. ASSUME NEW e \in Elements(a)
        PROVE  e \in Elements(a \o b)
    BY <1>2 DEF Elements
  <1>7. ASSUME NEW e \in Elements(b)
        PROVE  e \in Elements(a \o b)
    BY <1>3 DEF Elements
  <1> QED
    BY <1>5, <1>6, <1>7

\* A concatenation repeats nothing when its parts do not and are apart.
LEMMA OnceApart ==
    ASSUME NEW S, NEW a \in Seq(S), NEW b \in Seq(S)
    PROVE  Once(a \o b) <=> /\ Once(a) /\ Once(b)
                            /\ Elements(a) \cap Elements(b) = {}
  <1>1. Len(a) \in Nat /\ Len(b) \in Nat /\ Len(a \o b) = Len(a) + Len(b)
    OBVIOUS
  <1>2. \A i \in 1 .. Len(a) : (a \o b)[i] = a[i] /\ i \in 1 .. Len(a \o b)
    BY <1>1
  <1>3. \A i \in 1 .. Len(b) : (a \o b)[Len(a) + i] = b[i] /\ Len(a) + i \in 1 .. Len(a \o b)
    BY <1>1
  <1>4. \A i \in 1 .. Len(a \o b) :
            \/ i \in 1 .. Len(a) /\ (a \o b)[i] = a[i]
            \/ i - Len(a) \in 1 .. Len(b) /\ (a \o b)[i] = b[i - Len(a)]
    BY <1>1
  <1>5. ASSUME Once(a \o b)
        PROVE  Once(a) /\ Once(b) /\ Elements(a) \cap Elements(b) = {}
    <2>1. Once(a)
      BY <1>2, <1>5 DEF Once
    <2>2. Once(b)
      <3> SUFFICES ASSUME NEW i \in 1 .. Len(b), NEW j \in 1 .. Len(b), b[i] = b[j]
                   PROVE  i = j
        BY DEF Once
      <3>1. Len(a) + i = Len(a) + j
        BY <1>3, <1>5 DEF Once
      <3> QED
        BY <1>1, <3>1
    <2>3. ASSUME NEW e \in Elements(a) \cap Elements(b)
          PROVE  FALSE
      <3>1. PICK i \in 1 .. Len(a), j \in 1 .. Len(b) : e = a[i] /\ e = b[j]
        BY DEF Elements
      <3>2. i = Len(a) + j
        BY <1>2, <1>3, <1>5, <3>1 DEF Once
      <3> QED
        BY <1>1, <3>2
    <2> QED
      BY <2>1, <2>2, <2>3
  <1>6. ASSUME Once(a), Once(b), Elements(a) \cap Elements(b) = {}
        PROVE  Once(a \o b)
    <2> SUFFICES ASSUME NEW i \in 1 .. Len(a \o b), NEW j \in 1 .. Len(a \o b),
                        (a \o b)[i] = (a \o b)[j]
                 PROVE  i = j
      BY DEF Once
    <2>1. CASE i \in 1 .. Len(a) /\ j \in 1 .. Len(a)
      BY <1>2, <1>6, <2>1 DEF Once
    <2>2. CASE i \notin 1 .. Len(a) /\ j \notin 1 .. Len(a)
      <3>1. i - Len(a) \in 1 .. Len(b) /\ j - Len(a) \in 1 .. Len(b)
            /\ b[i - Len(a)] = b[j - Len(a)]
        BY <1>4, <2>2
      <3>2. i - Len(a) = j - Len(a)
        BY <1>6, <3>1 DEF Once
      <3> QED
        BY <1>1, <3>2
    <2>3. CASE i \in 1 .. Len(a) /\ j \notin 1 .. Len(a)
      <3>1. j - Len(a) \in 1 .. Len(b) /\ a[i] = b[j - Len(a)]
        BY <1>2, <1>4, <2>3
      <3> QED
        BY <1>6, <2>3, <3>1 DEF Elements
    <2>4. CASE i \notin 1 .. Len(a) /\ j \in 1 .. Len(a)
      <3>1. i - Len(a) \in 1 .. Len(b) /\ a[j] = b[i - Len(a)]
        BY <1>2, <1>4, <2>4
      <3> QED
        BY <1>6, <2>4, <3>1 DEF Elements
    <2> QED
      BY <2>1, <2>2, <2>3, <2>4
  <1> QED
    BY <1>5, <1>6

\* A sequence has at most as many elements as places, and as many when it
\* repeats nothing.
LEMMA ElementsCount ==
    ASSUME NEW S, NEW q \in Seq(S)
    PROVE  /\ IsFiniteSet(Elements(q)) /\ Elements(q) \subseteq S
           /\ Cardinality(Elements(q)) <= Len(q)
           /\ Once(q) => Cardinality(Elements(q)) = Len(q)
  <1> DEFINE f == [i \in 1 .. Len(q) |-> q[i]]
  <1>1. Len(q) \in Nat /\ IsFiniteSet(1 .. Len(q)) /\ Cardinality(1 .. Len(q)) = Len(q)
    <2>1. Len(q) \in Nat
      OBVIOUS
    <2> QED
      BY <2>1, FS_Interval
  <1>2. f \in Surjection(1 .. Len(q), Elements(q))
    BY DEF Surjection, Elements
  <1>3. IsFiniteSet(Elements(q)) /\ Cardinality(Elements(q)) <= Cardinality(1 .. Len(q))
        /\ (Cardinality(Elements(q)) = Cardinality(1 .. Len(q))
               <=> f \in Injection(1 .. Len(q), Elements(q)))
    BY <1>1, <1>2, FS_Surjection
  <1>4. Elements(q) \subseteq S
    BY DEF Elements
  <1>5. Once(q) => f \in Injection(1 .. Len(q), Elements(q))
    BY DEF Once, Injection, IsInjective, Elements
  <1> QED
    BY <1>1, <1>3, <1>4, <1>5

\* A set that grew by at most the elements of another.
LEMMA GrownBy ==
    ASSUME NEW A, NEW B, NEW F, IsFiniteSet(A), IsFiniteSet(F), B \subseteq A \cup F
    PROVE  IsFiniteSet(B) /\ Cardinality(A) \in Nat /\ Cardinality(F) \in Nat
           /\ Cardinality(B) \in Nat /\ Cardinality(B) <= Cardinality(A) + Cardinality(F)
  <1>1. /\ IsFiniteSet(A \cup F)
        /\ Cardinality(A \cup F) = Cardinality(A) + Cardinality(F) - Cardinality(A \cap F)
    BY FS_Union
  <1>2. IsFiniteSet(A \cap F)
    BY FS_Intersection
  <1>3. Cardinality(A) \in Nat /\ Cardinality(F) \in Nat /\ Cardinality(A \cap F) \in Nat
        /\ Cardinality(A \cup F) \in Nat
    BY <1>1, <1>2, FS_CardinalityType
  <1>4. IsFiniteSet(B) /\ Cardinality(B) <= Cardinality(A \cup F)
    BY <1>1, FS_Subset
  <1>5. Cardinality(B) \in Nat
    BY <1>4, FS_CardinalityType
  <1> QED
    BY <1>1, <1>3, <1>4, <1>5

\* Two finite sets without a common element.
LEMMA Disjoint ==
    ASSUME NEW A, NEW B, IsFiniteSet(A), IsFiniteSet(B), A \cap B = {}
    PROVE  IsFiniteSet(A \cup B) /\ Cardinality(A \cup B) = Cardinality(A) + Cardinality(B)
  <1>1. Cardinality(A \cap B) = 0
    BY FS_EmptySet
  <1>2. /\ IsFiniteSet(A \cup B)
        /\ Cardinality(A \cup B) = Cardinality(A) + Cardinality(B) - Cardinality(A \cap B)
    BY FS_Union
  <1>3. Cardinality(A) \in Nat /\ Cardinality(B) \in Nat
    BY FS_CardinalityType
  <1> QED
    BY <1>1, <1>2, <1>3

-----------------------------------------------------------------------------
\* What the sender's methods do to what it holds and to its figures.

\* Figures a client reports only ever grow.
Grown(s, r) ==
    /\ r.enqueued >= s.enqueued /\ r.seq >= s.seq
    /\ \A d \in DROP_REASONS : r.dropped[d] >= s.dropped[d]

\* Growth is reflexive and transitive.
LEMMA GrownChain ==
    ASSUME NEW s \in Sender, NEW r \in Sender, NEW u \in Sender, Grown(s, r), Grown(r, u)
    PROVE  Grown(s, s) /\ Grown(s, u)
  <1>1. \A v \in Sender : v.enqueued \in Nat /\ v.seq \in Nat
                          /\ \A d \in DROP_REASONS : v.dropped[d] \in Nat
    BY DEF Sender
  <1> QED
    BY <1>1 DEF Grown

\* A sequence cut in two.
LEMMA CutInTwo ==
    ASSUME NEW S, NEW all \in Seq(S), NEW n \in 0 .. Len(all)
    PROVE  /\ SubSeq(all, 1, n) \in Seq(S) /\ Len(SubSeq(all, 1, n)) = n
           /\ SubSeq(all, n + 1, Len(all)) \in Seq(S)
           /\ Len(SubSeq(all, n + 1, Len(all))) = Len(all) - n
           /\ Elements(all) = Elements(SubSeq(all, 1, n))
                                  \cup Elements(SubSeq(all, n + 1, Len(all)))
  <1> DEFINE out  == SubSeq(all, 1, n)
             kept == SubSeq(all, n + 1, Len(all))
  <1>1. Len(all) \in Nat /\ n \in Nat /\ n <= Len(all) /\ 1 \in 1 .. Len(all) + 1
        /\ n \in 1 - 1 .. Len(all) /\ Len(all) \in n .. Len(all)
    OBVIOUS
  <1>2. kept \in Seq(S) /\ out \in Seq(S) /\ Len(out) = n /\ Len(kept) = Len(all) - n
    BY <1>1
  <1>3. out \o kept = all
    <2>1. SubSeq(all, 1, n) \o SubSeq(all, n + 1, Len(all)) = SubSeq(all, 1, Len(all))
      BY <1>1, ConcatAdjacentSubSeq
    <2> QED
      BY <2>1, SubSeqFull
  <1> HIDE DEF out, kept
  <1>4. Elements(out \o kept) = Elements(out) \cup Elements(kept)
    BY <1>2, ElementsConcat
  <1> QED
    BY <1>2, <1>3, <1>4 DEF out, kept

\* _rebuffer: the buffer then holds events of before and the ones put back, and
\* those it evicts are no more than what the counters grew by.
LEMMA RebufferHolds ==
    ASSUME NEW s \in Bounded, NEW S \in SUBSET Nat, s.buffer \in Seq(S), NEW events \in Seq(S)
    PROVE  LET r == Rebuffer(s, events)
           IN  /\ r \in Bounded /\ Grown(s, r)
               /\ r.enqueued = s.enqueued /\ r.seq = s.seq /\ r.closed = s.closed
               /\ r.buffer \in Seq(S)
               /\ Elements(r.buffer) \subseteq Elements(s.buffer) \cup Elements(events)
               /\ \E F : /\ IsFiniteSet(F)
                         /\ Cardinality(F) <= DroppedTotal(r) - DroppedTotal(s)
                         /\ Elements(s.buffer) \cup Elements(events)
                                \subseteq Elements(r.buffer) \cup F
  <1> USE CapacityAssumption
  <1> DEFINE all  == s.buffer \o events
             over == IF Len(all) > Capacity THEN Len(all) - Capacity ELSE 0
             kept == SubSeq(all, over + 1, Len(all))
             out  == SubSeq(all, 1, over)
             r    == Rebuffer(s, events)
  <1>1. s \in Sender /\ s.enqueued \in Nat /\ s.seq \in Nat
        /\ \A d \in DROP_REASONS : s.dropped[d] \in Nat
    BY DEF Bounded, Sender
  <1>2. events \in Seq(Nat)
    BY SeqMonotonic
  <1>3. r \in Bounded /\ r.enqueued = s.enqueued
        /\ Accounted(r) = Accounted(s) + Len(events)
    BY <1>2, RebufferAccounts
  <1>4. r.buffer = kept /\ r.seq = s.seq /\ r.closed = s.closed
        /\ r.dropped = [s.dropped EXCEPT ![EvictReason(s)] = @ + over] /\ r.sent = s.sent
    BY <1>1 DEF Rebuffer, Sender
  <1>5. all \in Seq(S) /\ Len(all) \in Nat /\ over \in Nat /\ over <= Len(all)
        /\ Len(all) = Len(s.buffer) + Len(events)
    OBVIOUS
  <1>6. Elements(all) = Elements(s.buffer) \cup Elements(events)
    BY ElementsConcat
  <1>7. Grown(s, r)
    <2>1. \A d \in DROP_REASONS : r.dropped[d] >= s.dropped[d]
      <3> HIDE DEF over, r
      <3>1. s.dropped \in [DROP_REASONS -> Nat]
        BY <1>1 DEF Sender
      <3> QED
        BY <1>4, <1>5, <3>1
    <2> QED
      BY <1>1, <1>3, <1>4, <2>1 DEF Grown
  <1> HIDE DEF all, over, kept, out
  <1>8. /\ kept \in Seq(S) /\ out \in Seq(S) /\ Len(out) = over /\ Len(kept) = Len(all) - over
        /\ Elements(all) = Elements(out) \cup Elements(kept)
    <2>1. over \in 0 .. Len(all)
      BY <1>5
    <2>2. all \in Seq(S)
      BY <1>5
    <2> QED
      BY <2>1, <2>2, CutInTwo, Zenon DEF kept, out
  <1>11. IsFiniteSet(Elements(out)) /\ Cardinality(Elements(out)) <= over
    BY <1>8, ElementsCount
  <1>12. over = DroppedTotal(r) - DroppedTotal(s)
    <2>1. Len(r.buffer) = Len(s.buffer) + Len(events) - over
      BY <1>4, <1>5, <1>8
    <2>2. r \in Sender
      BY <1>3 DEF Bounded
    <2>5. r.sent = s.sent
      BY <1>4
    <2> HIDE DEF r
    <2>3. DroppedTotal(r) \in Nat /\ DroppedTotal(s) \in Nat /\ s.sent \in Nat
      BY <1>1, <2>2, CountersNat
    <2>4. Len(s.buffer) \in Nat /\ Len(events) \in Nat
      OBVIOUS
    <2>6. Accounted(r) = s.sent + DroppedTotal(r) + (Len(s.buffer) + Len(events) - over)
          /\ Accounted(s) = s.sent + DroppedTotal(s) + Len(s.buffer)
      BY <2>1, <2>5 DEF Accounted
    <2>7. Accounted(r) = Accounted(s) + Len(events)
      BY <1>3
    <2>8. s.sent + DroppedTotal(r) + (Len(s.buffer) + Len(events) - over)
              = s.sent + DroppedTotal(s) + Len(s.buffer) + Len(events)
      BY <2>6, <2>7
    <2>9. PICK B, C, D, E, O \in Nat : /\ B = Len(s.buffer) /\ C = Len(events)
                                       /\ D = DroppedTotal(r) /\ E = DroppedTotal(s) /\ O = over
      BY <1>5, <2>3, <2>4
    <2>10. s.sent + D + (B + C - O) = s.sent + E + B + C
      BY <2>8, <2>9
    <2>11. O = D - E
      BY <2>3, <2>10
    <2> QED
      BY <2>9, <2>11
  <1> HIDE DEF r
  <1>13. \E F : /\ IsFiniteSet(F)
                /\ Cardinality(F) <= DroppedTotal(r) - DroppedTotal(s)
                /\ Elements(s.buffer) \cup Elements(events)
                       \subseteq Elements(r.buffer) \cup F
    <2>1. Elements(s.buffer) \cup Elements(events) \subseteq Elements(r.buffer) \cup Elements(out)
      BY <1>4, <1>6, <1>8
    <2> QED
      BY <1>11, <1>12, <2>1
  <1> QED
    BY <1>3, <1>4, <1>6, <1>7, <1>8, <1>13 DEF r

-----------------------------------------------------------------------------
\* A step of a task, link by link.

\* What task t drained and has not settled yet, in order.
Hand(t) == chunk[t] \o rest[t]

Others(t) == Flushing \ {t}

\* The events in the hands of the tasks of T, whose chunks are c and whose
\* other drained events are r, and how many they are.
HeldIn(c, r, T) == UNION {Elements(c[u]) \cup Elements(r[u]) : u \in T}
CountIn(c, r, T) == Cardinality(UNION {{u} \X (1 .. Len(c[u]) + Len(r[u])) : u \in T})

\* The events that are with somebody else than t and the buffer, and how many
\* of them are in flushes.
Elsewhere(t) == abandoned \cup HeldIn(chunk, rest, Others(t))
OthersCount(t) == CountIn(chunk, rest, Others(t))

\* The events enqueued that are nowhere any more, s being the sender and
\* `events` what task t holds.
Gone(t, s, events) ==
    (1 .. s.enqueued) \ (stored \cup Unstorable \cup Elsewhere(t)
                             \cup Elements(s.buffer) \cup Elements(events))

\* In the middle of a step of t, whose sender is s so far and which has
\* `events` in its hands: the counters add up, no event is in two places, and
\* those that are nowhere are counted as dropped.
Good(t, s, events) ==
    /\ s \in Bounded
    /\ s.buffer \in Seq(1 .. s.enqueued) /\ events \in Seq(1 .. s.enqueued)
    /\ s.enqueued = Accounted(s) + Len(events) + (OthersCount(t) + Cardinality(abandoned))
    /\ Once(s.buffer \o events)
    /\ (Elements(s.buffer) \cup Elements(events)) \cap Elsewhere(t) = {}
    /\ Cardinality(Gone(t, s, events)) <= DroppedTotal(s)

\* What is nowhere is a finite number of events.
LEMMA GoneFinite ==
    ASSUME NEW t, NEW s \in Bounded, NEW events
    PROVE  IsFiniteSet(Gone(t, s, events)) /\ Cardinality(Gone(t, s, events)) \in Nat
  <1>1. s.enqueued \in Nat
    BY DEF Bounded, Sender
  <1>2. IsFiniteSet(1 .. s.enqueued)
    BY <1>1, FS_Interval
  <1>3. Gone(t, s, events) \in SUBSET (1 .. s.enqueued)
    BY DEF Gone
  <1> QED
    BY <1>2, <1>3, FS_Subset, FS_CardinalityType

\* Two senders that differ in their seq, backlog reason or back-off only.
Alike(s, r) ==
    r.buffer = s.buffer /\ r.enqueued = s.enqueued /\ r.sent = s.sent /\ r.dropped = s.dropped

\* Neither changes what is held and counted.
LEMMA GoodAlike ==
    ASSUME NEW t, NEW s, NEW events, Good(t, s, events), NEW r \in Sender, Alike(s, r)
    PROVE  Good(t, r, events)
  <1>1. r \in Bounded
    BY DEF Good, Bounded, Alike
  <1>2. Accounted(r) = Accounted(s) /\ DroppedTotal(r) = DroppedTotal(s)
    BY DEF Accounted, DroppedTotal, Alike
  <1>3. Gone(t, r, events) = Gone(t, s, events)
    BY DEF Gone, Alike
  <1> QED
    BY <1>1, <1>2, <1>3 DEF Good, Alike

\* _rebuffer of the front of what the task holds.
LEMMA GoodRebuffer ==
    ASSUME NEW t, NEW s, NEW a, NEW b, Good(t, s, a \o b),
           a \in Seq(1 .. s.enqueued), b \in Seq(1 .. s.enqueued)
    PROVE  LET r == Rebuffer(s, a)
           IN  Good(t, r, b) /\ Grown(s, r) /\ r.enqueued = s.enqueued
               /\ r.seq = s.seq /\ r.closed = s.closed
  <1> DEFINE r == Rebuffer(s, a)
             N == 1 .. s.enqueued
  <1>1. s \in Bounded /\ s.enqueued \in Nat /\ s.buffer \in Seq(N) /\ N \in SUBSET Nat
    BY DEF Good, Bounded, Sender
  <1>2. a \in Seq(N) /\ b \in Seq(N) /\ a \in Seq(Nat)
    BY <1>1, SeqMonotonic
  <1> HIDE DEF N
  <1>3. /\ r \in Bounded /\ Grown(s, r)
        /\ r.enqueued = s.enqueued /\ r.seq = s.seq /\ r.closed = s.closed
        /\ r.buffer \in Seq(N)
        /\ Elements(r.buffer) \subseteq Elements(s.buffer) \cup Elements(a)
        /\ \E F : /\ IsFiniteSet(F)
                  /\ Cardinality(F) <= DroppedTotal(r) - DroppedTotal(s)
                  /\ Elements(s.buffer) \cup Elements(a) \subseteq Elements(r.buffer) \cup F
    BY <1>1, <1>2, RebufferHolds
  <1>4. Accounted(r) = Accounted(s) + Len(a)
    BY <1>1, <1>2, RebufferAccounts
  <1>5. Elements(a \o b) = Elements(a) \cup Elements(b) /\ Len(a \o b) = Len(a) + Len(b)
    BY <1>2, ElementsConcat
  <1>6. Once(r.buffer \o b)
    <2>1. Once(s.buffer \o (a \o b))
      BY DEF Good
    <2> QED
      BY <1>1, <1>2, <2>1, RebufferOnce
  <1>7. r \in Sender /\ s \in Sender
    BY <1>1, <1>3 DEF Bounded
  <1>8. Cardinality(Gone(t, r, b)) <= DroppedTotal(r)
    <2>1. PICK F : /\ IsFiniteSet(F)
                   /\ Cardinality(F) <= DroppedTotal(r) - DroppedTotal(s)
                   /\ Elements(s.buffer) \cup Elements(a) \subseteq Elements(r.buffer) \cup F
      BY <1>3
    <2> HIDE DEF r
    <2>2. Gone(t, r, b) \subseteq Gone(t, s, a \o b) \cup F
      BY <1>3, <1>5, <2>1 DEF Gone
    <2>3. IsFiniteSet(Gone(t, s, a \o b))
      BY <1>1, GoneFinite
    <2>4. /\ Cardinality(Gone(t, s, a \o b)) \in Nat /\ Cardinality(F) \in Nat
          /\ Cardinality(Gone(t, r, b)) \in Nat
          /\ Cardinality(Gone(t, r, b)) <= Cardinality(Gone(t, s, a \o b)) + Cardinality(F)
      BY <2>1, <2>2, <2>3, GrownBy
    <2>5. Cardinality(Gone(t, s, a \o b)) <= DroppedTotal(s)
      BY DEF Good
    <2>6. DroppedTotal(r) \in Nat /\ DroppedTotal(s) \in Nat
      BY <1>7, CountersNat
    <2> QED
      BY <2>1, <2>4, <2>5, <2>6
  <1> HIDE DEF r
  <1>9. (Elements(r.buffer) \cup Elements(b)) \cap Elsewhere(t) = {}
    BY <1>3, <1>5 DEF Good
  <1>10. r.enqueued = Accounted(r) + Len(b) + (OthersCount(t) + Cardinality(abandoned))
    <2>1. s.enqueued = Accounted(s) + Len(a \o b) + (OthersCount(t) + Cardinality(abandoned))
      BY DEF Good
    <2>2. Accounted(s) + Len(a \o b) = Accounted(r) + Len(b)
      <3>1. Accounted(s) \in Nat /\ Len(a) \in Nat /\ Len(b) \in Nat
        BY <1>2, <1>7, CountersNat
      <3> QED
        BY <1>4, <1>5, <3>1
    <2> QED
      BY <1>3, <2>1, <2>2
  <1>11. Good(t, r, b)
    BY <1>2, <1>3, <1>6, <1>8, <1>9, <1>10 DEF Good, N
  <1> QED
    BY <1>3, <1>11 DEF r

\* A 200: the chunk is settled, what could be stored of it is stored.
LEMMA GoodOk ==
    ASSUME NEW t, NEW s, NEW a, NEW b, Good(t, s, a \o b),
           a \in Seq(1 .. s.enqueued), b \in Seq(1 .. s.enqueued),
           Elements(a) \subseteq stored \cup Unstorable
    PROVE  LET r == HandleOk(s, a, 0)
           IN  Good(t, r, b) /\ Grown(s, r) /\ r.enqueued = s.enqueued
               /\ r.seq = s.seq /\ r.closed = s.closed
  <1> DEFINE r == HandleOk(s, a, 0)
             N == 1 .. s.enqueued
  <1>1. s \in Bounded /\ s \in Sender /\ s.enqueued \in Nat /\ s.seq \in Nat /\ N \in SUBSET Nat
        /\ s.buffer \in Seq(N) /\ \A d \in DROP_REASONS : s.dropped[d] \in Nat
    BY DEF Good, Bounded, Sender
  <1>2. a \in Seq(N) /\ b \in Seq(N) /\ a \in Seq(Nat) /\ Len(a) \in Nat /\ 0 \in 0 .. Len(a)
    BY <1>1, SeqMonotonic
  <1>3. r \in Bounded /\ r.enqueued = s.enqueued /\ Accounted(r) = Accounted(s) + Len(a)
    BY <1>1, <1>2, HandleOkAccounts
  <1>4. /\ r.buffer = s.buffer /\ r.seq = s.seq /\ r.closed = s.closed
        /\ \A d \in DROP_REASONS : r.dropped[d] = s.dropped[d]
    <2>1. r.buffer = s.buffer /\ r.seq = s.seq /\ r.closed = s.closed
          /\ r.dropped = [s.dropped EXCEPT !["server_skipped"] = @ + 0]
      BY <1>1 DEF HandleOk, Sender
    <2>2. s.dropped \in [DROP_REASONS -> Nat]
      BY <1>1 DEF Sender
    <2> QED
      BY <2>1, <2>2
  <1>5. DroppedTotal(r) = DroppedTotal(s)
    BY <1>4 DEF DroppedTotal, DROP_REASONS
  <1>6. Grown(s, r)
    BY <1>1, <1>3, <1>4 DEF Grown
  <1> HIDE DEF N, r
  <1>7. Elements(a \o b) = Elements(a) \cup Elements(b) /\ Len(a \o b) = Len(a) + Len(b)
    BY <1>2, ElementsConcat
  <1>8. Once(r.buffer \o b)
    <2>1. Once(s.buffer \o (a \o b))
      BY DEF Good
    <2> QED
      BY <1>1, <1>2, <1>4, <2>1, OnceWithout
  <1>9. Cardinality(Gone(t, r, b)) <= DroppedTotal(r)
    <2>1. Gone(t, r, b) = Gone(t, s, a \o b)
      BY <1>3, <1>4, <1>7 DEF Gone
    <2> QED
      BY <1>5, <2>1 DEF Good
  <1>10. r.enqueued = Accounted(r) + Len(b) + (OthersCount(t) + Cardinality(abandoned))
    <2>1. s.enqueued = Accounted(s) + Len(a \o b) + (OthersCount(t) + Cardinality(abandoned))
      BY DEF Good
    <2>2. Accounted(s) + Len(a \o b) = Accounted(r) + Len(b)
      <3>1. Accounted(s) \in Nat /\ Len(a) \in Nat /\ Len(b) \in Nat
        BY <1>1, <1>2, CountersNat
      <3> QED
        BY <1>3, <1>7, <3>1
    <2> QED
      BY <1>3, <2>1, <2>2
  <1>11. Good(t, r, b)
    <2>1. (Elements(r.buffer) \cup Elements(b)) \cap Elsewhere(t) = {}
      BY <1>4, <1>7 DEF Good
    <2> QED
      BY <1>1, <1>2, <1>3, <1>4, <1>8, <1>9, <1>10, <2>1 DEF Good, N
  <1> QED
    BY <1>3, <1>4, <1>6, <1>11 DEF r

\* _take_buffered moves the buffer into the task's hands.
LEMMA GoodTaken ==
    ASSUME NEW t, NEW s, Good(t, s, << >>)
    PROVE  LET r == Taken(s)
           IN  Good(t, r, s.buffer) /\ Grown(s, r) /\ r.enqueued = s.enqueued
               /\ r.seq = s.seq /\ r.closed = s.closed
               /\ s.buffer \in Seq(1 .. r.enqueued)
  <1> DEFINE r == Taken(s)
             N == 1 .. s.enqueued
  <1>1. s \in Bounded /\ s \in Sender /\ s.enqueued \in Nat /\ s.seq \in Nat /\ s.buffer \in Seq(N)
        /\ \A d \in DROP_REASONS : s.dropped[d] \in Nat
    BY DEF Good, Bounded, Sender
  <1>2. r \in Bounded /\ r.enqueued = s.enqueued /\ Accounted(r) = Accounted(s) - Len(s.buffer)
    BY <1>1, TakenAccounts
  <1>3. r.buffer = << >> /\ r.seq = s.seq /\ r.closed = s.closed /\ r.dropped = s.dropped
    BY <1>1 DEF Taken, Sender
  <1>4. Grown(s, r) /\ DroppedTotal(r) = DroppedTotal(s)
    BY <1>1, <1>2, <1>3 DEF Grown, DroppedTotal
  <1> HIDE DEF r, N
  <1>5. << >> \in Seq(N) /\ << >> \o s.buffer = s.buffer /\ s.buffer \o << >> = s.buffer
        /\ Elements(<< >>) = {} /\ Len(<< >>) = 0
    BY <1>1 DEF Elements
  <1>6. Cardinality(Gone(t, r, s.buffer)) <= DroppedTotal(r)
    <2>1. Gone(t, r, s.buffer) = Gone(t, s, << >>)
      BY <1>2, <1>3, <1>5 DEF Gone
    <2> QED
      BY <1>4, <2>1 DEF Good
  <1>7. r.enqueued = Accounted(r) + Len(s.buffer) + (OthersCount(t) + Cardinality(abandoned))
    <2>1. s.enqueued = Accounted(s) + 0 + (OthersCount(t) + Cardinality(abandoned))
      BY <1>5 DEF Good
    <2>2. Accounted(s) \in Nat /\ Len(s.buffer) \in Nat
      BY <1>1, CountersNat
    <2>3. Accounted(s) + 0 = Accounted(r) + Len(s.buffer)
      BY <1>2, <2>2
    <2> QED
      BY <1>2, <2>1, <2>3
  <1>8. Once(r.buffer \o s.buffer)
        /\ (Elements(r.buffer) \cup Elements(s.buffer)) \cap Elsewhere(t) = {}
    BY <1>3, <1>5 DEF Good
  <1>9. Good(t, r, s.buffer)
    BY <1>1, <1>2, <1>3, <1>5, <1>6, <1>7, <1>8 DEF Good, N
  <1> QED
    BY <1>1, <1>2, <1>3, <1>4, <1>9 DEF r, N

\* _account_shutdown counts what is left in the buffer.
LEMMA GoodShutdown ==
    ASSUME NEW t, NEW s, Good(t, s, << >>)
    PROVE  LET r == AccountShutdown(s)
           IN  Good(t, r, << >>) /\ Grown(s, r) /\ r.enqueued = s.enqueued /\ r.seq = s.seq
  <1> DEFINE r == AccountShutdown(s)
             u == [s EXCEPT !.dropped["shutdown"] = @ + Len(s.buffer)]
             N == 1 .. s.enqueued
  <1>1. s \in Bounded /\ s \in Sender /\ s.enqueued \in Nat /\ s.seq \in Nat /\ s.buffer \in Seq(N)
        /\ s.dropped \in [DROP_REASONS -> Nat] /\ Len(s.buffer) \in Nat /\ N \in SUBSET Nat
    BY DEF Good, Bounded, Sender
  <1>2. CASE s.closed
    <2>1. r = s
      BY <1>2 DEF AccountShutdown
    <2> QED
      BY <1>1, <2>1 DEF Grown
  <1>3. CASE ~s.closed
    <2>1. "shutdown" \in DROP_REASONS
      BY DEF DROP_REASONS
    <2>2. u \in Sender /\ DroppedTotal(u) = DroppedTotal(s) + Len(s.buffer)
      BY <1>1, <2>1, DroppedBump
    <2>3. r = [u EXCEPT !.closed = TRUE, !.buffer = << >>]
      BY <1>1, <1>3 DEF AccountShutdown, Sender
    <2>4. /\ u.enqueued = s.enqueued /\ u.sent = s.sent /\ u.seq = s.seq
          /\ u.dropped = [s.dropped EXCEPT !["shutdown"] = @ + Len(s.buffer)]
      BY <1>1 DEF Sender
    <2>5. \A d \in DROP_REASONS : u.dropped[d] >= s.dropped[d]
      BY <1>1, <2>4
    <2> HIDE DEF u, r, N
    <2>17. << >> \in Seq(Nat) /\ u \in Sender
      BY <2>2
    <2>18. r \in Sender
      BY <2>3, <2>17 DEF Sender
    <2>6. /\ r \in Sender /\ r.buffer = << >> /\ r.enqueued = s.enqueued /\ r.sent = s.sent
          /\ r.seq = s.seq /\ r.dropped = u.dropped
      BY <2>3, <2>4, <2>17, <2>18 DEF Sender
    <2>7. << >> \in Seq(N) /\ << >> \o << >> = << >> /\ s.buffer \o << >> = s.buffer
          /\ Elements(<< >>) = {} /\ Len(<< >>) = 0 /\ Once(<< >>)
      BY <1>1 DEF Elements, Once
    <2>8. r \in Bounded
      BY <2>6, <2>7, CapacityAssumption DEF Bounded
    <2>9. Grown(s, r)
      BY <1>1, <2>5, <2>6 DEF Grown
    <2>10. DroppedTotal(r) = DroppedTotal(s) + Len(s.buffer)
      BY <2>2, <2>6 DEF DroppedTotal
    <2>11. DroppedTotal(s) \in Nat /\ s.sent \in Nat /\ Accounted(s) \in Nat
      BY <1>1, CountersNat
    <2>12. Accounted(r) = Accounted(s)
      <3>1. Accounted(r) = s.sent + (DroppedTotal(s) + Len(s.buffer)) + 0
        BY <2>6, <2>7, <2>10 DEF Accounted
      <3>2. Accounted(s) = s.sent + DroppedTotal(s) + Len(s.buffer)
        BY DEF Accounted
      <3> QED
        BY <1>1, <2>11, <3>1, <3>2
    <2>13. Cardinality(Gone(t, r, << >>)) <= DroppedTotal(r)
      <3>1. Gone(t, r, << >>) \subseteq Gone(t, s, << >>) \cup Elements(s.buffer)
        BY <2>6, <2>7 DEF Gone
      <3>2. IsFiniteSet(Elements(s.buffer)) /\ Cardinality(Elements(s.buffer)) <= Len(s.buffer)
        BY <1>1, ElementsCount
      <3>3. /\ Cardinality(Gone(t, s, << >>)) \in Nat /\ Cardinality(Elements(s.buffer)) \in Nat
            /\ Cardinality(Gone(t, r, << >>)) \in Nat
            /\ Cardinality(Gone(t, r, << >>))
                  <= Cardinality(Gone(t, s, << >>)) + Cardinality(Elements(s.buffer))
        BY <1>1, <3>1, <3>2, GoneFinite, GrownBy
      <3>4. Cardinality(Gone(t, s, << >>)) <= DroppedTotal(s)
        BY DEF Good
      <3> QED
        BY <1>1, <2>10, <2>11, <3>2, <3>3, <3>4
    <2>14. r.enqueued = Accounted(r) + Len(<< >>) + (OthersCount(t) + Cardinality(abandoned))
      BY <2>6, <2>12 DEF Good
    <2>15. Once(r.buffer \o << >>)
           /\ (Elements(r.buffer) \cup Elements(<< >>)) \cap Elsewhere(t) = {}
      BY <2>6, <2>7
    <2>16. Good(t, r, << >>)
      BY <2>6, <2>7, <2>8, <2>13, <2>14, <2>15 DEF Good, N
    <2> QED
      BY <2>6, <2>9, <2>16 DEF r
  <1> QED
    BY <1>2, <1>3

-----------------------------------------------------------------------------
\* The inductive invariant.

Request ==
    [meta : [seq : 1 .. MaxRequests, enqueued_total : Nat, dropped : [DROP_REASONS -> Nat]],
     events : Seq(1 .. MaxEvents) \ {<< >>},
     status : Statuses]

\* Who is where: a task that awaits a request holds its chunk and one that
\* awaits none holds nothing; close() is called once.
Control ==
    /\ sender.enqueued <= MaxEvents
    /\ waiting \in [Flushing -> 0 .. MaxRequests]
    /\ chunk \in [Flushing -> Seq(1 .. sender.enqueued)]
    /\ rest \in [Flushing -> Seq(1 .. sender.enqueued)]
    /\ \A t \in Flushing : /\ (waiting[t] = 0) = (chunk[t] = << >>)
                           /\ waiting[t] = 0 => rest[t] = << >>
    /\ closing \in BOOLEAN
    /\ ~closing => waiting[Closer] = 0
    /\ net \subseteq Request
    /\ row \in ClientStats
    /\ stored \subseteq 1 .. sender.enqueued /\ abandoned \subseteq 1 .. sender.enqueued
    /\ budget \in 0 .. MaxFailures

\* No event is in two places.
Apart ==
    /\ Once(sender.buffer)
    /\ abandoned \cap Elements(sender.buffer) = {}
    /\ \A t \in Flushing :
          /\ Once(Hand(t))
          /\ Elements(Hand(t)) \cap (Elements(sender.buffer) \cup abandoned) = {}
    /\ \A t, u \in Flushing : t # u => Elements(Hand(t)) \cap Elements(Hand(u)) = {}

\* What is held and what is counted.
Books ==
    /\ sender \in Bounded /\ sender.buffer \in Seq(1 .. sender.enqueued)
    /\ Apart
    /\ Balance
    /\ NothingLostSilently

\* The figures that are under way and the ones the row has: those of a later
\* request are no smaller, and none is beyond the sender's.
RowMeta == [seq            |-> row.last_seq,
            enqueued_total |-> row.sdk_enqueued_total,
            dropped        |-> row.sdk_dropped]
Known == {r.meta : r \in net} \cup {RowMeta}
NoGreater(f, g) ==
    /\ f.enqueued_total <= g.enqueued_total
    /\ \A d \in DROP_REASONS : f.dropped[d] <= g.dropped[d]
Figures ==
    /\ \A f, g \in Known : f.seq <= g.seq => NoGreater(f, g)
    /\ \A f \in Known : f.seq <= sender.seq /\ NoGreater(f, Metadata(sender))

\* The request a task awaits carries its chunk, and one that was answered with
\* a 200 has been stored.
Answers ==
    /\ \A t \in Flushing : waiting[t] <= sender.seq
    /\ \A r \in net :
          /\ r.events \in Seq(1 .. r.meta.enqueued_total)
          /\ r.status = "200" => Storable(r.events) \subseteq stored
          /\ \A t \in Flushing : r.meta.seq = waiting[t] => r.events = chunk[t]

\* The row has heard of everything that is stored.
Collected ==
    /\ stored \subseteq 1 .. row.sdk_enqueued_total
    /\ Cardinality(stored) <= row.received_events

IInv == Control /\ Books /\ Figures /\ Answers /\ Collected

-----------------------------------------------------------------------------
\* From the invariant into a step of a task and back.

\* The events of all flushes are those of t's flush and of the others'.
LEMMA HeldSplit ==
    ASSUME NEW t \in Flushing, NEW c \in [Flushing -> Seq(Nat)], NEW r \in [Flushing -> Seq(Nat)]
    PROVE  HeldIn(c, r, Flushing) = Elements(c[t] \o r[t]) \cup HeldIn(c, r, Others(t))
  <1>1. Elements(c[t] \o r[t]) = Elements(c[t]) \cup Elements(r[t])
    <2>1. c[t] \in Seq(Nat) /\ r[t] \in Seq(Nat)
      OBVIOUS
    <2> QED
      BY <2>1, ElementsConcat
  <1>2. Flushing = Others(t) \cup {t}
    BY DEF Others
  <1> HIDE DEF Flushing
  <1> QED
    BY <1>1, <1>2 DEF HeldIn

\* So are their numbers.
LEMMA CountSplit ==
    ASSUME NEW t \in Flushing, NEW c \in [Flushing -> Seq(Nat)], NEW r \in [Flushing -> Seq(Nat)]
    PROVE  /\ CountIn(c, r, Others(t)) \in Nat
           /\ CountIn(c, r, Flushing) = Len(c[t] \o r[t]) + CountIn(c, r, Others(t))
  <1> DEFINE P(u)   == {u} \X (1 .. Len(c[u]) + Len(r[u]))
             others == UNION {P(u) : u \in Others(t)}
             all    == UNION {P(u) : u \in Flushing}
  <1>1. IsFiniteSet(Flushing) /\ IsFiniteSet(Others(t))
    <2>1. IsFiniteSet(Flushing)
      BY PipelineAssumption, FS_AddElement DEF Flushing
    <2> QED
      BY <2>1, FS_Difference DEF Others
  <1>2. \A u \in Flushing : /\ Len(c[u]) + Len(r[u]) \in Nat
                            /\ Len(c[u] \o r[u]) = Len(c[u]) + Len(r[u])
    BY DEF Flushing
  <1>3. \A u \in Flushing : /\ IsFiniteSet(P(u))
                            /\ Cardinality(P(u)) = Len(c[u]) + Len(r[u])
    <2> SUFFICES ASSUME NEW u \in Flushing
                 PROVE  IsFiniteSet(P(u)) /\ Cardinality(P(u)) = Len(c[u]) + Len(r[u])
      OBVIOUS
    <2>1. PICK n \in Nat : n = Len(c[u]) + Len(r[u])
      BY <1>2
    <2>2. IsFiniteSet(1 .. n) /\ Cardinality(1 .. n) = n
      BY FS_Interval
    <2>3. IsFiniteSet({u}) /\ Cardinality({u}) = 1
      BY FS_Singleton
    <2>4. /\ IsFiniteSet({u} \X (1 .. n))
          /\ Cardinality({u} \X (1 .. n)) = Cardinality({u}) * Cardinality(1 .. n)
      <3> DEFINE U == {u}
                 I == 1 .. n
      <3>1. IsFiniteSet(U) /\ IsFiniteSet(I)
        BY <2>2, <2>3
      <3> HIDE DEF U, I
      <3>2. IsFiniteSet(U \X I) /\ Cardinality(U \X I) = Cardinality(U) * Cardinality(I)
        BY <3>1, FS_Product
      <3> QED
        BY <3>2 DEF U, I
    <2> QED
      BY <2>1, <2>2, <2>3, <2>4
  <1>4. all = P(t) \cup others
    BY DEF Others
  <1>5. P(t) \cap others = {}
    BY DEF Others
  <1>6. IsFiniteSet(others)
    <2>1. IsFiniteSet({P(u) : u \in Others(t)})
      <3> DEFINE f == [u \in Others(t) |-> P(u)]
      <3>1. f \in Surjection(Others(t), {P(u) : u \in Others(t)})
        BY DEF Surjection
      <3> QED
        BY <1>1, <3>1, FS_Surjection
    <2>2. \A T \in {P(u) : u \in Others(t)} : IsFiniteSet(T)
      BY <1>3 DEF Others
    <2> HIDE DEF P
    <2> QED
      BY <2>1, <2>2, FS_UNION
  <1>7. Cardinality(others) \in Nat
    BY <1>6, FS_CardinalityType
  <1> HIDE DEF P, others, all
  <1>8. Cardinality(all) = Cardinality(P(t)) + Cardinality(others)
    BY <1>3, <1>4, <1>5, <1>6, Disjoint
  <1>9. Cardinality(all) = Len(c[t] \o r[t]) + Cardinality(others)
    BY <1>2, <1>3, <1>8
  <1> QED
    BY <1>7, <1>9 DEF P, others, all, CountIn

\* What the invariant says of the hands of a task.
LEMMA HandType ==
    ASSUME Control, NEW t \in Flushing
    PROVE  /\ chunk[t] \in Seq(1 .. sender.enqueued) /\ rest[t] \in Seq(1 .. sender.enqueued)
           /\ Hand(t) \in Seq(1 .. sender.enqueued)
           /\ waiting[t] = 0 => chunk[t] = << >> /\ rest[t] = << >> /\ Hand(t) = << >>
  <1>1. chunk[t] \in Seq(1 .. sender.enqueued) /\ rest[t] \in Seq(1 .. sender.enqueued)
    BY DEF Control
  <1>2. Hand(t) \in Seq(1 .. sender.enqueued)
    BY <1>1 DEF Hand
  <1>3. << >> \o << >> = << >>
    OBVIOUS
  <1> QED
    BY <1>1, <1>2, <1>3 DEF Control, Hand

\* The events in a task's hands are those of its chunk and of the rest.
LEMMA HandElements ==
    ASSUME Control, NEW t \in Flushing
    PROVE  Elements(Hand(t)) = Elements(chunk[t]) \cup Elements(rest[t])
  <1>1. chunk[t] \in Seq(1 .. sender.enqueued) /\ rest[t] \in Seq(1 .. sender.enqueued)
    BY DEF Control
  <1> QED
    BY <1>1, ElementsConcat DEF Hand

\* Cancelled tasks took finitely many events along.
LEMMA AbandonedFinite ==
    ASSUME Control, Books
    PROVE  IsFiniteSet(abandoned) /\ Cardinality(abandoned) \in Nat
  <1>1. sender.enqueued \in Nat
    BY DEF Books, Bounded, Sender
  <1>2. IsFiniteSet(1 .. sender.enqueued)
    BY <1>1, FS_Interval
  <1>3. abandoned \in SUBSET (1 .. sender.enqueued)
    BY DEF Control
  <1> QED
    BY <1>2, <1>3, FS_Subset, FS_CardinalityType

\* The other tasks hold finitely many events.
LEMMA OthersNat ==
    ASSUME Control, Books, NEW t \in Flushing
    PROVE  OthersCount(t) \in Nat
  <1>1. 1 .. sender.enqueued \subseteq Nat
    BY DEF Books, Bounded, Sender
  <1>2. chunk \in [Flushing -> Seq(Nat)] /\ rest \in [Flushing -> Seq(Nat)]
    BY <1>1, SeqMonotonic DEF Control
  <1> QED
    BY <1>2, CountSplit DEF OthersCount

\* Whatever is elsewhere was enqueued.
LEMMA ElsewhereKnown ==
    ASSUME Control, NEW t
    PROVE  Elsewhere(t) \subseteq 1 .. sender.enqueued
  <1>1. ASSUME NEW u \in Flushing
        PROVE  Elements(chunk[u]) \cup Elements(rest[u]) \subseteq 1 .. sender.enqueued
    <2>1. chunk[u] \in Seq(1 .. sender.enqueued) /\ rest[u] \in Seq(1 .. sender.enqueued)
      BY DEF Control
    <2> QED
      BY <2>1, ElementsCount
  <1> QED
    BY <1>1 DEF Elsewhere, HeldIn, Others, Control

\* Between two steps the books are right for every task.
LEMMA GoodAt ==
    ASSUME Control, Books, NEW t \in Flushing
    PROVE  Good(t, sender, Hand(t))
  <1>1. sender \in Bounded /\ sender \in Sender /\ sender.buffer \in Seq(1 .. sender.enqueued)
        /\ 1 .. sender.enqueued \subseteq Nat
    BY DEF Books, Bounded, Sender
  <1>2. Hand(t) \in Seq(1 .. sender.enqueued) /\ Hand(t) \in Seq(Nat) /\ sender.buffer \in Seq(Nat)
    BY <1>1, HandType, SeqMonotonic
  <1>3. chunk \in [Flushing -> Seq(Nat)] /\ rest \in [Flushing -> Seq(Nat)]
    BY <1>1, SeqMonotonic DEF Control
  <1>4. InFlightCount = Len(Hand(t)) + OthersCount(t) /\ OthersCount(t) \in Nat
    <2>1. InFlightCount = CountIn(chunk, rest, Flushing)
      BY DEF InFlightCount, CountIn
    <2> QED
      BY <1>3, <2>1, CountSplit DEF OthersCount, Hand
  <1>5. InFlight = Elements(Hand(t)) \cup HeldIn(chunk, rest, Others(t))
    <2>1. InFlight = HeldIn(chunk, rest, Flushing)
      BY DEF InFlight, HeldIn
    <2> QED
      BY <1>3, <2>1, HeldSplit DEF Hand
  <1>6. Once(sender.buffer \o Hand(t))
    BY <1>2, OnceApart DEF Books, Apart
  <1>7. (Elements(sender.buffer) \cup Elements(Hand(t))) \cap Elsewhere(t) = {}
    <2>1. \A u \in Others(t) : Elements(Hand(u)) = Elements(chunk[u]) \cup Elements(rest[u])
      BY HandElements DEF Others
    <2>2. (Elements(sender.buffer) \cup Elements(Hand(t))) \cap HeldIn(chunk, rest, Others(t)) = {}
      BY <2>1 DEF HeldIn, Books, Apart, Others
    <2> QED
      BY <2>2 DEF Books, Apart, Elsewhere
  <1>8. sender.enqueued
            = Accounted(sender) + Len(Hand(t)) + (OthersCount(t) + Cardinality(abandoned))
    <2>2. PICK D, L, S, H, O, A \in Nat :
             /\ D = DroppedTotal(sender) /\ L = Len(sender.buffer) /\ S = sender.sent
             /\ H = Len(Hand(t)) /\ O = OthersCount(t) /\ A = Cardinality(abandoned)
      <3>1. DroppedTotal(sender) \in Nat /\ Len(sender.buffer) \in Nat /\ sender.sent \in Nat
        BY <1>1, CountersNat
      <3>2. Len(Hand(t)) \in Nat
        BY <1>2
      <3>3. Cardinality(abandoned) \in Nat
        BY AbandonedFinite
      <3> QED
        BY <1>4, <3>1, <3>2, <3>3
    <2>3. sender.enqueued = S + D + L + (H + O) + A
      BY <1>4, <2>2 DEF Books, Balance
    <2>4. Accounted(sender) = S + D + L
      BY <2>2 DEF Accounted
    <2>5. S + D + L + (H + O) + A = S + D + L + H + (O + A)
      <3>1. D \in Nat /\ L \in Nat /\ S \in Nat /\ H \in Nat /\ O \in Nat /\ A \in Nat
        OBVIOUS
      <3> HIDE <2>2
      <3> QED
        BY <3>1
    <2> QED
      BY <2>2, <2>3, <2>4, <2>5
  <1>9. Cardinality(Gone(t, sender, Hand(t))) <= DroppedTotal(sender)
    <2>1. Gone(t, sender, Hand(t))
              = {e \in 1 .. sender.enqueued :
                    e \notin stored \cup HeldBySender \cup abandoned \cup Unstorable}
      BY <1>5 DEF Gone, HeldBySender, Elsewhere
    <2> QED
      BY <2>1 DEF Books, NothingLostSilently
  <1> QED
    BY <1>1, <1>2, <1>6, <1>7, <1>8, <1>9 DEF Good

\* At the end of a step of t the books are right for everybody.
LEMMA BooksAfter ==
    ASSUME Control, Books, NEW t \in Flushing, NEW s, NEW events, Good(t, s, events),
           sender' \in Sender, Alike(s, sender'),
           chunk' \in [Flushing -> Seq(1 .. sender'.enqueued)],
           rest' \in [Flushing -> Seq(1 .. sender'.enqueued)],
           chunk'[t] \o rest'[t] = events,
           \A u \in Others(t) : chunk'[u] = chunk[u] /\ rest'[u] = rest[u],
           stored' = stored, abandoned' = abandoned
    PROVE  Books'
  <1>1. Good(t, sender', events)
    BY GoodAlike
  <1>2. sender' \in Bounded /\ sender'.buffer \in Seq(1 .. sender'.enqueued)
        /\ events \in Seq(1 .. sender'.enqueued)
    BY <1>1 DEF Good
  <1>3. 1 .. sender'.enqueued \subseteq Nat
    BY DEF Sender
  <1>4. chunk' \in [Flushing -> Seq(Nat)] /\ rest' \in [Flushing -> Seq(Nat)]
    BY <1>3, SeqMonotonic
  <1>5. HeldIn(chunk', rest', Others(t)) = HeldIn(chunk, rest, Others(t))
        /\ CountIn(chunk', rest', Others(t)) = OthersCount(t)
    BY DEF HeldIn, CountIn, OthersCount
  <1>6. InFlight' = Elements(events) \cup HeldIn(chunk, rest, Others(t))
    <2>1. InFlight' = HeldIn(chunk', rest', Flushing)
      BY DEF InFlight, HeldIn
    <2> QED
      BY <1>4, <1>5, <2>1, HeldSplit
  <1>7. InFlightCount' = Len(events) + OthersCount(t) /\ OthersCount(t) \in Nat
    <2>1. InFlightCount' = CountIn(chunk', rest', Flushing)
      BY DEF InFlightCount, CountIn
    <2>2. CountIn(chunk', rest', Flushing) = Len(events) + CountIn(chunk', rest', Others(t))
          /\ CountIn(chunk', rest', Others(t)) \in Nat
      BY <1>4, CountSplit
    <2> QED
      BY <1>5, <2>1, <2>2
  <1>8. Balance'
    <2>1. PICK D, L, S, H, O, A \in Nat :
             /\ D = DroppedTotal(sender') /\ L = Len(sender'.buffer) /\ S = sender'.sent
             /\ H = Len(events) /\ O = OthersCount(t) /\ A = Cardinality(abandoned)
      <3>1. DroppedTotal(sender') \in Nat /\ Len(sender'.buffer) \in Nat /\ sender'.sent \in Nat
        BY CountersNat
      <3>2. Len(events) \in Nat
        BY <1>2
      <3>3. Cardinality(abandoned) \in Nat
        BY AbandonedFinite
      <3> QED
        BY <1>7, <3>1, <3>2, <3>3
    <2>2. sender'.enqueued = S + D + L + H + (O + A)
      BY <1>1, <2>1 DEF Good, Accounted
    <2>3. S + D + L + H + (O + A) = S + D + L + (H + O) + A
      <3>1. D \in Nat /\ L \in Nat /\ S \in Nat /\ H \in Nat /\ O \in Nat /\ A \in Nat
        OBVIOUS
      <3> HIDE <2>1
      <3> QED
        BY <3>1
    <2>4. DroppedTotal(sender)' = D /\ Cardinality(abandoned)' = A
      BY <2>1 DEF DroppedTotal
    <2> QED
      BY <1>7, <2>1, <2>2, <2>3, <2>4 DEF Balance
  <1>9. NothingLostSilently'
    <2>1. Gone(t, sender', events)
              = {e \in 1 .. sender.enqueued :
                    e \notin stored \cup HeldBySender \cup abandoned \cup Unstorable}'
      BY <1>6 DEF Gone, HeldBySender, Elsewhere, Elements
    <2>2. Cardinality(Gone(t, sender', events)) <= DroppedTotal(sender)'
      BY <1>1 DEF Good, DroppedTotal
    <2> QED
      BY <2>1, <2>2 DEF NothingLostSilently
  <1>10. Apart'
    <2>1. Hand(t)' = events /\ \A u \in Others(t) : Hand(u)' = Hand(u)
      BY DEF Hand
    <2>2. \A u \in Others(t) : Elements(Hand(u)) \subseteq Elsewhere(t)
      BY HandElements DEF Others, Elsewhere, HeldIn
    <2>3. Once(sender'.buffer) /\ Once(events)
          /\ Elements(sender'.buffer) \cap Elements(events) = {}
      BY <1>1, <1>2, OnceApart DEF Good
    <2>4. (Elements(sender'.buffer) \cup Elements(events)) \cap Elsewhere(t) = {}
      BY <1>1 DEF Good
    <2>5. abandoned \subseteq Elsewhere(t)
      BY DEF Elsewhere
    <2>6. \A u \in Flushing : /\ Once(Hand(u))
                              /\ Elements(Hand(u)) \cap abandoned = {}
      BY DEF Books, Apart
    <2>7. \A u, v \in Flushing : u # v => Elements(Hand(u)) \cap Elements(Hand(v)) = {}
      BY DEF Books, Apart
    <2>8. \A u \in Flushing : u = t \/ u \in Others(t)
      BY DEF Others
    <2>9. Elements(sender.buffer)' = Elements(sender'.buffer)
          /\ \A u \in Flushing : Elements(Hand(u))' = Elements(Hand(u)')
      BY DEF Elements
    <2>10. Once(sender.buffer)' /\ (abandoned \cap Elements(sender.buffer))' = {}
      BY <2>3, <2>4, <2>5, <2>9 DEF Once
    <2>11. ASSUME NEW u \in Flushing
           PROVE  Once(Hand(u)')
                  /\ Elements(Hand(u)') \cap (Elements(sender'.buffer) \cup abandoned) = {}
      <3>1. CASE u = t
        BY <2>1, <2>3, <2>4, <2>5, <3>1
      <3>2. CASE u \in Others(t)
        BY <2>1, <2>2, <2>4, <2>6, <3>2
      <3> QED
        BY <2>8, <3>1, <3>2
    <2>12. ASSUME NEW u \in Flushing, NEW v \in Flushing, u # v
           PROVE  Elements(Hand(u)') \cap Elements(Hand(v)') = {}
      <3>1. CASE u = t
        BY <2>1, <2>2, <2>4, <2>8, <2>12, <3>1
      <3>2. CASE v = t
        BY <2>1, <2>2, <2>4, <2>8, <2>12, <3>2
      <3>3. CASE u # t /\ v # t
        BY <2>1, <2>7, <2>8, <2>12, <3>3
      <3> QED
        BY <3>1, <3>2, <3>3
    <2>13. \A u \in Flushing : Once(Hand(u))' <=> Once(Hand(u)')
      BY DEF Once
    <2> QED
      BY <2>9, <2>10, <2>11, <2>12, <2>13 DEF Apart, Flushing
  <1> QED
    BY <1>2, <1>8, <1>9, <1>10 DEF Books, Bounded, Sender

-----------------------------------------------------------------------------
\* The requests that are out, and the figures on their way.

Meta == [seq : Nat, enqueued_total : Nat, dropped : [DROP_REASONS -> Nat]]

\* Figures are natural numbers.
LEMMA KnownType ==
    ASSUME Control, NEW f \in Known
    PROVE  /\ f.seq \in Nat /\ f.enqueued_total \in Nat
           /\ \A d \in DROP_REASONS : f.dropped[d] \in Nat
  <1>1. CASE f \in {r.meta : r \in net}
    <2>1. PICK r \in net : f = r.meta
      BY <1>1
    <2>2. r.meta \in [seq : 1 .. MaxRequests, enqueued_total : Nat,
                      dropped : [DROP_REASONS -> Nat]]
      BY DEF Control, Request
    <2> QED
      BY <2>1, <2>2
  <1>2. CASE f = RowMeta
    <2>1. row.last_seq \in Nat /\ row.sdk_enqueued_total \in Nat
          /\ row.sdk_dropped \in [DROP_REASONS -> Nat]
      BY DEF Control, ClientStats
    <2> QED
      BY <1>2, <2>1 DEF RowMeta
  <1> QED
    BY <1>1, <1>2 DEF Known

\* A step that lets nothing new be known but the figures of the sender itself,
\* under a number of their own, keeps them in order.
LEMMA FiguresAfter ==
    ASSUME Control, Figures, sender \in Sender, sender' \in Sender, Grown(sender, sender'),
           \A f \in Known' : \/ f \in Known
                             \/ f = Metadata(sender') /\ sender'.seq = sender.seq + 1
    PROVE  Figures'
  <1> DEFINE M == Metadata(sender')
  <1>1. /\ sender.seq \in Nat /\ sender'.seq \in Nat
        /\ sender.enqueued \in Nat /\ sender'.enqueued \in Nat
        /\ \A d \in DROP_REASONS : sender.dropped[d] \in Nat /\ sender'.dropped[d] \in Nat
    BY DEF Sender
  <1>2. /\ M.seq = sender'.seq /\ M.enqueued_total = sender'.enqueued /\ M.dropped = sender'.dropped
    BY DEF Metadata
  <1>3. /\ sender'.seq >= sender.seq /\ sender'.enqueued >= sender.enqueued
        /\ \A d \in DROP_REASONS : sender'.dropped[d] >= sender.dropped[d]
    BY DEF Grown
  <1> HIDE DEF M
  <1>4. ASSUME NEW f \in Known
        PROVE  f.seq <= sender.seq /\ f.seq <= sender'.seq /\ NoGreater(f, M)
    <2>1. f.seq <= sender.seq /\ f.enqueued_total <= sender.enqueued
          /\ \A d \in DROP_REASONS : f.dropped[d] <= sender.dropped[d]
      BY DEF Figures, NoGreater, Metadata
    <2>2. f.seq \in Nat /\ f.enqueued_total \in Nat /\ \A d \in DROP_REASONS : f.dropped[d] \in Nat
      BY KnownType
    <2> QED
      BY <1>1, <1>2, <1>3, <2>1, <2>2 DEF NoGreater
  <1>5. NoGreater(M, M) /\ M.seq <= sender'.seq
    BY <1>1, <1>2 DEF NoGreater
  <1>6. \A f \in Known' : f.seq <= sender'.seq /\ NoGreater(f, M)
    BY <1>4, <1>5 DEF M
  <1>7. ASSUME NEW f \in Known', NEW g \in Known', f.seq <= g.seq
        PROVE  NoGreater(f, g)
    <2>1. CASE f \in Known /\ g \in Known
      BY <1>7, <2>1 DEF Figures
    <2>2. CASE g \notin Known
      <3>1. g = M
        BY <2>2 DEF M
      <3> QED
        BY <1>6, <3>1
    <2>3. CASE f \notin Known /\ g \in Known
      <3>1. f = M /\ sender'.seq = sender.seq + 1
        BY <2>3 DEF M
      <3>2. g.seq <= sender.seq /\ g.seq \in Nat
        BY <1>4, <2>3, KnownType
      <3> QED
        BY <1>1, <1>2, <1>7, <3>1, <3>2
    <2> QED
      BY <2>1, <2>2, <2>3
  <1> QED
    BY <1>6, <1>7 DEF Figures, M, NoGreater, Metadata

\* Requests that were out, each as it was or given up by the task that sent it.
StillOut(out) ==
    \A q \in out :
       /\ q \in Request
       /\ \E r \in net : q.meta = r.meta /\ q.events = r.events /\ q.status \in {r.status, "late"}

\* The end of a step of t: s is the sender but for the number of the request
\* that t now awaits, if `events` is not empty, and out what else is out.
Lands(t, s, events, out) ==
    /\ sender' \in Sender /\ Alike(s, sender')
    /\ chunk' \in [Flushing -> Seq(1 .. sender'.enqueued)]
    /\ rest' \in [Flushing -> Seq(1 .. sender'.enqueued)]
    /\ waiting' \in [Flushing -> 0 .. MaxRequests]
    /\ chunk'[t] \o rest'[t] = events
    /\ \A u \in Others(t) : chunk'[u] = chunk[u] /\ rest'[u] = rest[u] /\ waiting'[u] = waiting[u]
    /\ \/ /\ sender'.seq = s.seq /\ waiting'[t] = 0 /\ chunk'[t] = << >> /\ rest'[t] = << >>
          /\ net' = out
       \/ /\ sender'.seq = s.seq + 1 /\ waiting'[t] = s.seq + 1 /\ chunk'[t] # << >>
          /\ [meta |-> Metadata(sender'), events |-> chunk'[t], status |-> "sent"] \in Request
          /\ net' = out \cup
                {[meta |-> Metadata(sender'), events |-> chunk'[t], status |-> "sent"]}

\* The number of a request changes nothing else.
LEMMA NumberedAlike ==
    ASSUME NEW s \in Sender
    PROVE  Numbered(s) \in Sender /\ Alike(s, Numbered(s)) /\ Numbered(s).seq = s.seq + 1
  <1>1. s.seq + 1 \in Nat
    BY DEF Sender
  <1>2. Numbered(s) \in Sender
    BY <1>1 DEF Numbered, Sender
  <1>3. Alike(s, Numbered(s)) /\ Numbered(s).seq = s.seq + 1
    BY DEF Numbered, Sender, Alike
  <1> QED
    BY <1>2, <1>3

\* A request is sent with the figures of the moment and the front of the events.
LEMMA LaunchLands ==
    ASSUME Control, NEW t \in Flushing, NEW s, NEW events, NEW out,
           Good(t, s, events), events # << >>, s.enqueued = sender.enqueued,
           s.seq = sender.seq, Launch(t, s, events, out)
    PROVE  Lands(t, s, events, out)
  <1> DEFINE N == 1 .. s.enqueued
             w == Numbered(s)
  <1>1. s \in Sender /\ s.seq \in Nat /\ s.enqueued \in Nat /\ events \in Seq(N)
        /\ s.dropped \in [DROP_REASONS -> Nat]
    BY DEF Good, Bounded, Sender
  <1>2. w \in Sender /\ Alike(s, w) /\ w.seq = s.seq + 1
    BY <1>1, NumberedAlike
  <1>3. PICK n \in ChunkSizes(events) :
           /\ sender' = w
           /\ net' = out \cup {[meta |-> Metadata(w), events |-> FirstOf(events, n),
                                status |-> "sent"]}
           /\ waiting' = [waiting EXCEPT ![t] = w.seq]
           /\ chunk' = [chunk EXCEPT ![t] = FirstOf(events, n)]
           /\ rest' = [rest EXCEPT ![t] = AfterFirst(events, n)]
    BY DEF Launch
  <1>4. s.seq < MaxRequests
    BY DEF Launch
  <1> DEFINE first == FirstOf(events, n)
             after == AfterFirst(events, n)
             q     == [meta |-> Metadata(w), events |-> first, status |-> "sent"]
  <1>5. first \in Seq(N) /\ after \in Seq(N) /\ first \o after = events
    BY <1>1, ChunkConcat
  <1>6. first # << >>
    <2>1. n \in Nat /\ 1 <= n /\ n <= Len(events)
      BY <1>1, MaxBatchAssumption DEF ChunkSizes
    <2>2. Len(first) = n
      BY <1>1, <2>1 DEF FirstOf
    <2> QED
      BY <2>1, <2>2
  <1>7. w.enqueued = s.enqueued /\ w.dropped = s.dropped
    BY <1>2 DEF Alike
  <1>8. q \in Request
    <2>1. Metadata(w) \in [seq : 1 .. MaxRequests, enqueued_total : Nat,
                           dropped : [DROP_REASONS -> Nat]]
      BY <1>1, <1>2, <1>4, <1>7, PipelineAssumption DEF Metadata
    <2>2. first \in Seq(1 .. MaxEvents)
      <3>1. N \subseteq 1 .. MaxEvents
        BY <1>1, PipelineAssumption DEF Control
      <3> QED
        BY <1>5, <3>1, SeqMonotonic
    <2> HIDE DEF first
    <2> QED
      BY <1>6, <2>1, <2>2 DEF Request, Statuses
  <1> HIDE DEF w, first, after
  <1>9. chunk'[t] = first /\ rest'[t] = after /\ waiting'[t] = s.seq + 1
        /\ \A u \in Others(t) :
              chunk'[u] = chunk[u] /\ rest'[u] = rest[u] /\ waiting'[u] = waiting[u]
    BY <1>2, <1>3 DEF Control, Others, first, after
  <1>10. waiting' \in [Flushing -> 0 .. MaxRequests]
    <2>1. w.seq \in 0 .. MaxRequests
      BY <1>1, <1>2, <1>4, PipelineAssumption
    <2> QED
      BY <1>3, <2>1 DEF Control
  <1>11. chunk' \in [Flushing -> Seq(N)] /\ rest' \in [Flushing -> Seq(N)]
    BY <1>3, <1>5 DEF Control, first, after
  <1> QED
    BY <1>2, <1>3, <1>5, <1>6, <1>7, <1>8, <1>9, <1>10, <1>11 DEF Lands, q, first

\* A flush ends with nothing in the task's hands.
LEMMA FinishLands ==
    ASSUME Control, NEW t \in Flushing, NEW s, NEW out,
           Good(t, s, << >>), s.enqueued = sender.enqueued, s.seq = sender.seq,
           Finish(t, s, out)
    PROVE  \E r : /\ Good(t, r, << >>) /\ Grown(s, r)
                  /\ r.enqueued = s.enqueued /\ r.seq = s.seq
                  /\ Lands(t, r, << >>, out)
  <1> DEFINE r == IF t = Closer THEN AccountShutdown(s) ELSE s
  <1>1. s \in Sender
    BY DEF Good, Bounded
  <1>2. Good(t, r, << >>) /\ Grown(s, r) /\ r.enqueued = s.enqueued /\ r.seq = s.seq
    <2>1. Grown(s, s)
      BY <1>1 DEF Grown, Sender
    <2> QED
      BY <2>1, GoodShutdown
  <1>3. sender' = r /\ net' = out /\ waiting' = [waiting EXCEPT ![t] = 0]
        /\ chunk' = [chunk EXCEPT ![t] = << >>] /\ rest' = [rest EXCEPT ![t] = << >>]
    BY DEF Finish
  <1> HIDE DEF r
  <1>4. r \in Sender /\ Alike(r, sender')
    BY <1>2, <1>3 DEF Good, Bounded, Alike
  <1>5. /\ chunk'[t] = << >> /\ rest'[t] = << >> /\ waiting'[t] = 0 /\ << >> \o << >> = << >>
        /\ \A u \in Others(t) :
              chunk'[u] = chunk[u] /\ rest'[u] = rest[u] /\ waiting'[u] = waiting[u]
    BY <1>3 DEF Control, Others
  <1>6. /\ waiting' \in [Flushing -> 0 .. MaxRequests]
        /\ chunk' \in [Flushing -> Seq(1 .. sender'.enqueued)]
        /\ rest' \in [Flushing -> Seq(1 .. sender'.enqueued)]
    <2>1. sender'.enqueued = sender.enqueued /\ << >> \in Seq(1 .. sender.enqueued)
          /\ 0 \in 0 .. MaxRequests
      BY <1>2, <1>3, PipelineAssumption
    <2> QED
      BY <1>3, <2>1 DEF Control
  <1>7. Lands(t, r, << >>, out)
    BY <1>2, <1>3, <1>4, <1>5, <1>6 DEF Lands
  <1> QED
    BY <1>2, <1>7

\* The rest of what a step of t does: close() is not called twice.
Aside(t) ==
    /\ closing' \in BOOLEAN /\ (~closing' => t # Closer /\ ~closing)
    /\ budget' \in 0 .. MaxFailures
    /\ row' = row /\ stored' = stored /\ abandoned' = abandoned

\* Whatever a step of a task was made of, it keeps the invariant.
LEMMA AfterStep ==
    ASSUME IInv, NEW t \in Flushing, NEW s, NEW events, NEW out,
           Good(t, s, events), Grown(sender, s), s.enqueued = sender.enqueued,
           s.seq = sender.seq, StillOut(out), Lands(t, s, events, out),
           Aside(t)
    PROVE  IInv'
  <1> USE DEF IInv, Aside
  <1> DEFINE q0 == [meta |-> Metadata(sender'), events |-> chunk'[t], status |-> "sent"]
  <1>1. s \in Sender /\ sender \in Sender /\ sender' \in Sender
        /\ sender'.enqueued = sender.enqueued /\ sender'.dropped = s.dropped
        /\ sender.seq \in Nat /\ sender.enqueued \in Nat
    BY DEF Good, Books, Bounded, Sender, Lands, Alike
  <1>2. \/ /\ sender'.seq = sender.seq /\ waiting'[t] = 0
           /\ chunk'[t] = << >> /\ rest'[t] = << >> /\ net' = out
        \/ /\ sender'.seq = sender.seq + 1 /\ waiting'[t] = sender.seq + 1 /\ chunk'[t] # << >>
           /\ q0 \in Request /\ net' = out \cup {q0}
    BY DEF Lands
  <1>3. Grown(sender, sender')
    BY <1>1, <1>2 DEF Grown
  <1>4. /\ chunk' \in [Flushing -> Seq(1 .. sender'.enqueued)]
        /\ rest' \in [Flushing -> Seq(1 .. sender'.enqueued)]
        /\ waiting' \in [Flushing -> 0 .. MaxRequests]
        /\ chunk'[t] \o rest'[t] = events
        /\ \A u \in Others(t) :
              chunk'[u] = chunk[u] /\ rest'[u] = rest[u] /\ waiting'[u] = waiting[u]
    BY DEF Lands
  <1>5. Books'
    BY <1>1, <1>4, BooksAfter DEF Lands
  <1>6. \A u \in Flushing : u = t \/ u \in Others(t)
    BY DEF Others
  <1>7. net' \subseteq Request
    BY <1>2 DEF StillOut
  <1>8. Control'
    <2>1. \A u \in Flushing : /\ (waiting'[u] = 0) = (chunk'[u] = << >>)
                              /\ waiting'[u] = 0 => rest'[u] = << >>
      <3>1. \A u \in Others(t) : /\ (waiting'[u] = 0) = (chunk'[u] = << >>)
                                 /\ waiting'[u] = 0 => rest'[u] = << >>
        BY <1>4 DEF Control, Others
      <3>2. (waiting'[t] = 0) = (chunk'[t] = << >>) /\ (waiting'[t] = 0 => rest'[t] = << >>)
        BY <1>1, <1>2
      <3> QED
        BY <1>6, <3>1, <3>2
    <2>2. ~closing' => waiting'[Closer] = 0
      BY <1>4, <1>6 DEF Control, Flushing
    <2> QED
      BY <1>1, <1>4, <1>7, <2>1, <2>2 DEF Control, Flushing, Request, ClientStats
  <1>9. \A q \in net' : \/ \E r \in net : /\ q.meta = r.meta /\ q.events = r.events
                                          /\ q.status \in {r.status, "late"}
                        \/ q = q0 /\ sender'.seq = sender.seq + 1 /\ waiting'[t] = sender.seq + 1
    BY <1>2 DEF StillOut
  <1>10. Figures'
    <2>1. ASSUME NEW f \in Known'
          PROVE  f \in Known \/ (f = Metadata(sender') /\ sender'.seq = sender.seq + 1)
      <3>1. CASE f \in {r.meta : r \in net'}
        <4>1. PICK q \in net' : f = q.meta
          BY <3>1
        <4> QED
          BY <1>9, <4>1 DEF Known
      <3>2. CASE f = RowMeta'
        BY <3>2 DEF Known, RowMeta
      <3> QED
        BY <3>1, <3>2 DEF Known
    <2> QED
      BY <1>1, <1>3, <2>1, FiguresAfter
  <1>11. Answers'
    <2>1. \A u \in Flushing : waiting'[u] <= sender'.seq
      <3>1. \A u \in Others(t) : waiting'[u] <= sender'.seq
        <4>1. \A u \in Others(t) : waiting[u] \in Nat /\ waiting[u] <= sender.seq
          BY PipelineAssumption DEF Answers, Control, Others
        <4>2. sender'.seq \in Nat /\ sender.seq <= sender'.seq
          BY <1>1, <1>2
        <4>3. \A u \in Others(t) : waiting'[u] = waiting[u]
          BY <1>4
        <4> HIDE DEF IInv, Aside
        <4> QED
          BY <1>1, <4>1, <4>2, <4>3
      <3>2. waiting'[t] <= sender'.seq
        BY <1>1, <1>2
      <3> QED
        BY <1>6, <3>1, <3>2
    <2>2. ASSUME NEW q \in net'
          PROVE  /\ q.events \in Seq(1 .. q.meta.enqueued_total)
                 /\ q.status = "200" => Storable(q.events) \subseteq stored
                 /\ \A u \in Flushing : q.meta.seq = waiting'[u] => q.events = chunk'[u]
      <3>1. CASE \E r \in net : /\ q.meta = r.meta /\ q.events = r.events
                                /\ q.status \in {r.status, "late"}
        <4>1. PICK r \in net : /\ q.meta = r.meta /\ q.events = r.events
                               /\ q.status \in {r.status, "late"}
          BY <3>1
        <4>2. r.meta \in Known
          BY DEF Known
        <4>3. r.meta.seq \in 1 .. MaxRequests /\ r.meta.seq <= sender.seq
          BY <4>2 DEF Control, Request, Figures
        <4>4. r.meta.seq # waiting'[t]
          BY <1>1, <1>2, <4>3, PipelineAssumption
        <4> QED
          BY <1>4, <1>6, <4>1, <4>4 DEF Answers, Others
      <3>2. CASE q = q0 /\ sender'.seq = sender.seq + 1 /\ waiting'[t] = sender.seq + 1
        <4>1. q.meta = Metadata(sender') /\ q.events = chunk'[t] /\ q.status = "sent"
          BY <3>2
        <4>2. q.meta.seq = sender.seq + 1 /\ q.meta.enqueued_total = sender'.enqueued
          BY <3>2, <4>1 DEF Metadata
        <4>3. \A u \in Others(t) : waiting'[u] # sender.seq + 1
          <5>1. \A u \in Others(t) : waiting[u] \in Nat /\ waiting[u] <= sender.seq
            BY PipelineAssumption DEF Answers, Control, Others
          <5> QED
            BY <1>1, <1>4, <5>1
        <4> QED
          BY <1>4, <1>6, <4>1, <4>2, <4>3
      <3> QED
        BY <1>9, <3>1, <3>2
    <2> QED
      BY <2>1, <2>2 DEF Answers, Flushing, Storable, Elements
  <1>12. Collected'
    BY DEF Collected
  <1> QED
    BY <1>5, <1>8, <1>10, <1>11, <1>12

\* The two ends of a step: a new request, or the end of the flush.
LEMMA LaunchKeeps ==
    ASSUME IInv, NEW t \in Flushing, NEW s, NEW events, NEW out,
           Good(t, s, events), Grown(sender, s), s.enqueued = sender.enqueued,
           s.seq = sender.seq, StillOut(out), events # << >>, Launch(t, s, events, out),
           Aside(t)
    PROVE  IInv'
  <1>1. Lands(t, s, events, out)
    BY LaunchLands DEF IInv
  <1> QED
    BY <1>1, AfterStep

\* The same for the end of a flush.
LEMMA FinishKeeps ==
    ASSUME IInv, NEW t \in Flushing, NEW s, NEW out,
           Good(t, s, << >>), Grown(sender, s), s.enqueued = sender.enqueued,
           s.seq = sender.seq, StillOut(out), Finish(t, s, out), Aside(t)
    PROVE  IInv'
  <1>1. PICK r : /\ Good(t, r, << >>) /\ Grown(s, r)
                 /\ r.enqueued = s.enqueued /\ r.seq = s.seq
                 /\ Lands(t, r, << >>, out)
    BY FinishLands DEF IInv
  <1>2. Grown(sender, r)
    <2>1. sender \in Sender /\ s \in Sender /\ r \in Sender
      BY <1>1 DEF IInv, Books, Good, Bounded
    <2> QED
      BY <1>1, <2>1, GrownChain
  <1> QED
    BY <1>1, <1>2, AfterStep

\* A sender whose backlog reason and back-off were set.
LEMMA FlagsAlike ==
    ASSUME NEW s \in Sender, NEW reason \in BacklogReasons, NEW wait \in BOOLEAN
    PROVE  LET r == [s EXCEPT !.backlog_reason = reason, !.backing_off = wait]
           IN  r \in Sender /\ Alike(s, r) /\ r.seq = s.seq /\ r.closed = s.closed
  BY DEF Sender, Alike

\* The backlog reason alone.
LEMMA ReasonAlike ==
    ASSUME NEW s \in Sender, NEW reason \in BacklogReasons
    PROVE  LET r == [s EXCEPT !.backlog_reason = reason]
           IN  r \in Sender /\ Alike(s, r) /\ r.seq = s.seq /\ r.closed = s.closed
  BY DEF Sender, Alike

\* The end of the back-off.
LEMMA BackoffAlike ==
    ASSUME NEW s \in Sender
    PROVE  LET r == IgnoreBackoff(s)
           IN  /\ r \in Sender /\ Alike(s, r) /\ r.seq = s.seq /\ r.closed = s.closed
               /\ Grown(s, r)
  <1>1. IgnoreBackoff(s) \in Sender /\ Alike(s, IgnoreBackoff(s))
        /\ IgnoreBackoff(s).seq = s.seq /\ IgnoreBackoff(s).closed = s.closed
    BY DEF Sender, Alike, IgnoreBackoff
  <1>2. s.enqueued \in Nat /\ s.seq \in Nat /\ \A d \in DROP_REASONS : s.dropped[d] \in Nat
    BY DEF Sender
  <1> QED
    BY <1>1, <1>2 DEF Grown, Alike

\* A chunk that goes back to the buffer, whatever was set before: a 429, and a
\* failure.
LEMMA GoodReturned ==
    ASSUME NEW t, NEW s, NEW a, NEW b, Good(t, s, a \o b),
           a \in Seq(1 .. s.enqueued), b \in Seq(1 .. s.enqueued),
           NEW r, r \in Sender, Alike(s, r), r.seq = s.seq, r.closed = s.closed
    PROVE  LET u == Rebuffer(r, a)
           IN  Good(t, u, b) /\ Grown(s, u) /\ u.enqueued = s.enqueued
               /\ u.seq = s.seq /\ u.closed = s.closed
  <1>1. Good(t, r, a \o b)
    BY GoodAlike
  <1>2. r.enqueued = s.enqueued /\ r.dropped = s.dropped
    BY DEF Alike
  <1>3. Good(t, Rebuffer(r, a), b) /\ Grown(r, Rebuffer(r, a))
        /\ Rebuffer(r, a).enqueued = r.enqueued
        /\ Rebuffer(r, a).seq = r.seq /\ Rebuffer(r, a).closed = r.closed
    BY <1>1, <1>2, GoodRebuffer
  <1>4. Grown(s, Rebuffer(r, a))
    BY <1>2, <1>3 DEF Grown
  <1> QED
    BY <1>2, <1>3, <1>4

\* A failure.
LEMMA GoodFailed ==
    ASSUME NEW t, NEW s, NEW a, NEW b, Good(t, s, a \o b),
           a \in Seq(1 .. s.enqueued), b \in Seq(1 .. s.enqueued)
    PROVE  LET u == HandleFailed(s, a)
           IN  Good(t, u, b) /\ Grown(s, u) /\ u.enqueued = s.enqueued
               /\ u.seq = s.seq /\ u.closed = s.closed
  <1> DEFINE r == [s EXCEPT !.backlog_reason = "send_failed"]
  <1>1. s \in Sender
    BY DEF Good, Bounded
  <1>2. r \in Sender /\ Alike(s, r) /\ r.seq = s.seq /\ r.closed = s.closed
    BY <1>1, ReasonAlike DEF BacklogReasons
  <1>3. HandleFailed(s, a) = Rebuffer(r, a)
    BY DEF HandleFailed
  <1> HIDE DEF r
  <1> QED
    BY <1>2, <1>3, GoodReturned

\* A 429.
LEMMA GoodLimited ==
    ASSUME NEW t, NEW s, NEW a, NEW b, Good(t, s, a \o b), NEW wait \in BOOLEAN,
           a \in Seq(1 .. s.enqueued), b \in Seq(1 .. s.enqueued)
    PROVE  LET u == HandleLimited(s, a, wait)
           IN  Good(t, u, b) /\ Grown(s, u) /\ u.enqueued = s.enqueued
               /\ u.seq = s.seq /\ u.closed = s.closed
  <1> DEFINE r == [s EXCEPT !.backlog_reason = "rate_limited", !.backing_off = wait]
  <1>1. s \in Sender
    BY DEF Good, Bounded
  <1>2. r \in Sender /\ Alike(s, r) /\ r.seq = s.seq /\ r.closed = s.closed
    BY <1>1, FlagsAlike DEF BacklogReasons
  <1>3. HandleLimited(s, a, wait) = Rebuffer(r, a)
    BY DEF HandleLimited
  <1> HIDE DEF r
  <1> QED
    BY <1>2, <1>3, GoodReturned

\* A failure of all the task still holds.
LEMMA AllFailed ==
    ASSUME NEW t, NEW s, NEW a, Good(t, s, a), a \in Seq(1 .. s.enqueued)
    PROVE  LET u == HandleFailed(s, a)
           IN  Good(t, u, << >>) /\ Grown(s, u) /\ u.enqueued = s.enqueued
               /\ u.seq = s.seq /\ u.closed = s.closed
  <1>1. PICK b : b = << >>
    OBVIOUS
  <1>2. a \o b = a /\ b \in Seq(1 .. s.enqueued)
    BY <1>1
  <1>3. Good(t, s, a \o b)
    BY <1>2
  <1>4. Good(t, HandleFailed(s, a), b) /\ Grown(s, HandleFailed(s, a))
        /\ HandleFailed(s, a).enqueued = s.enqueued
        /\ HandleFailed(s, a).seq = s.seq /\ HandleFailed(s, a).closed = s.closed
    BY <1>2, <1>3, GoodFailed
  <1> QED
    BY <1>1, <1>4

\* After a reply the flush goes on with the next chunk, or it ends.
LEMMA ProceedKeeps ==
    ASSUME IInv, NEW t \in Flushing, NEW s, NEW out,
           Good(t, s, rest[t]), Grown(sender, s), s.enqueued = sender.enqueued,
           s.seq = sender.seq, StillOut(out), Proceed(t, s, out), Aside(t)
    PROVE  IInv'
  <1>1. CASE rest[t] = << >>
    <2>1. Finish(t, s, out) /\ Good(t, s, << >>)
      BY <1>1 DEF Proceed
    <2> QED
      BY <2>1, FinishKeeps
  <1>2. CASE rest[t] # << >> /\ s.closed
    <2> DEFINE u == HandleFailed(s, rest[t])
    <2>1. Finish(t, u, out)
      BY <1>2 DEF Proceed, RaisedAtOnce
    <2>2. rest[t] \in Seq(1 .. s.enqueued)
      BY DEF IInv, Control
    <2>4. Good(t, u, << >>) /\ Grown(s, u) /\ u.enqueued = s.enqueued /\ u.seq = s.seq
      BY <2>2, AllFailed
    <2> HIDE DEF u
    <2>5. Grown(sender, u)
      <3>1. sender \in Sender /\ s \in Sender /\ u \in Sender
        BY <2>4 DEF IInv, Books, Good, Bounded
      <3> QED
        BY <2>4, <3>1, GrownChain
    <2> QED
      BY <2>1, <2>4, <2>5, FinishKeeps
  <1>3. CASE rest[t] # << >> /\ ~s.closed
    <2>1. Launch(t, s, rest[t], out)
      BY <1>3 DEF Proceed
    <2> QED
      BY <1>3, <2>1, LaunchKeeps
  <1> QED
    BY <1>1, <1>2, <1>3

\* The sender of the invariant, and that it has grown from itself.
LEMMA SenderFacts ==
    ASSUME IInv
    PROVE  /\ sender \in Sender /\ sender \in Bounded /\ Grown(sender, sender)
           /\ sender.enqueued \in Nat /\ sender.seq \in Nat
           /\ sender.buffer \in Seq(1 .. sender.enqueued)
  <1>1. sender \in Sender /\ sender \in Bounded /\ sender.buffer \in Seq(1 .. sender.enqueued)
    BY DEF IInv, Books, Bounded
  <1>2. \A d \in DROP_REASONS : sender.dropped[d] \in Nat
    BY <1>1 DEF Sender
  <1>3. sender.enqueued \in Nat /\ sender.seq \in Nat
    BY <1>1 DEF Sender
  <1> QED
    BY <1>1, <1>2, <1>3 DEF Grown

\* A request that is answered or given up leaves the others as they are.
LEMMA OutStill ==
    ASSUME Control, NEW r \in net
    PROVE  StillOut(net) /\ StillOut(net \ {r}) /\ StillOut(Orphaned(r))
  <1>1. net \subseteq Request
    BY DEF Control
  <1>2. StillOut(net) /\ StillOut(net \ {r})
    BY <1>1 DEF StillOut
  <1> DEFINE q == [r EXCEPT !.status = "late"]
  <1>3. q \in Request /\ q.meta = r.meta /\ q.events = r.events /\ q.status = "late"
    <2>1. r \in Request
      BY <1>1
    <2> QED
      BY <2>1 DEF Request, Statuses
  <1>4. \A p \in Orphaned(r) : p \in net \/ p = q
    BY DEF Orphaned
  <1> HIDE DEF q
  <1> QED
    BY <1>1, <1>2, <1>3, <1>4 DEF StillOut

\* What a task that awaits a request holds: that request's events come first.
LEMMA AwaitedFacts ==
    ASSUME IInv, NEW t \in Flushing, NEW r \in net, Awaited(t, r)
    PROVE  /\ Good(t, sender, chunk[t] \o rest[t])
           /\ chunk[t] \in Seq(1 .. sender.enqueued) /\ rest[t] \in Seq(1 .. sender.enqueued)
           /\ r.events = chunk[t]
           /\ closing \/ t # Closer
  <1>1. Good(t, sender, chunk[t] \o rest[t])
    BY GoodAt DEF IInv, Hand
  <1>2. chunk[t] \in Seq(1 .. sender.enqueued) /\ rest[t] \in Seq(1 .. sender.enqueued)
    BY DEF IInv, Control
  <1> QED
    BY <1>1, <1>2 DEF IInv, Answers, Awaited, Control

\* A 200.
LEMMA StepReplyOk ==
    ASSUME IInv, NEW t \in Flushing, ReplyOk(t)
    PROVE  IInv'
  <1>1. PICK r \in net : /\ Awaited(t, r) /\ r.status = "200"
                         /\ Proceed(t, HandleOk(sender, chunk[t], 0), net \ {r})
    BY DEF ReplyOk
  <1>2. Good(t, sender, chunk[t] \o rest[t])
        /\ chunk[t] \in Seq(1 .. sender.enqueued) /\ rest[t] \in Seq(1 .. sender.enqueued)
        /\ r.events = chunk[t] /\ (closing \/ t # Closer)
    BY <1>1, AwaitedFacts
  <1>3. Elements(chunk[t]) \subseteq stored \cup Unstorable
    BY <1>1, <1>2 DEF IInv, Answers, Storable
  <1> DEFINE s == HandleOk(sender, chunk[t], 0)
  <1>4. Good(t, s, rest[t]) /\ Grown(sender, s) /\ s.enqueued = sender.enqueued
        /\ s.seq = sender.seq
    BY <1>2, <1>3, GoodOk
  <1>5. StillOut(net \ {r})
    BY OutStill DEF IInv
  <1>6. Aside(t)
    BY <1>2 DEF ReplyOk, Aside, IInv, Control
  <1> HIDE DEF s
  <1> QED
    BY <1>1, <1>4, <1>5, <1>6, ProceedKeeps DEF s

\* A 429: everything the task holds goes back.
LEMMA StepReplyLimited ==
    ASSUME IInv, NEW t \in Flushing, ReplyLimited(t)
    PROVE  IInv'
  <1>1. PICK r \in net, wait \in BOOLEAN :
           /\ Awaited(t, r)
           /\ Finish(t, Rebuffer(HandleLimited(sender, chunk[t], wait), rest[t]), net \ {r})
    BY DEF ReplyLimited
  <1>2. Good(t, sender, chunk[t] \o rest[t])
        /\ chunk[t] \in Seq(1 .. sender.enqueued) /\ rest[t] \in Seq(1 .. sender.enqueued)
        /\ (closing \/ t # Closer)
    BY <1>1, AwaitedFacts
  <1> DEFINE s == HandleLimited(sender, chunk[t], wait)
             u == Rebuffer(s, rest[t])
  <1>3. Good(t, s, rest[t]) /\ Grown(sender, s) /\ s.enqueued = sender.enqueued
        /\ s.seq = sender.seq
    BY <1>2, GoodLimited
  <1>4. rest[t] \o << >> = rest[t] /\ << >> \in Seq(1 .. s.enqueued)
        /\ rest[t] \in Seq(1 .. s.enqueued)
    BY <1>2, <1>3
  <1>5. Finish(t, u, net \ {r})
    BY <1>1
  <1> HIDE DEF s
  <1>6. Good(t, u, << >>) /\ Grown(s, u) /\ u.enqueued = s.enqueued /\ u.seq = s.seq
    <2>1. Good(t, s, rest[t] \o << >>)
      BY <1>3, <1>4
    <2> QED
      BY <1>4, <2>1, GoodRebuffer
  <1> HIDE DEF u
  <1>7. Grown(sender, u)
    <2>1. sender \in Sender /\ s \in Sender /\ u \in Sender
      BY <1>3, <1>6 DEF IInv, Books, Good, Bounded
    <2> QED
      BY <1>3, <1>6, <2>1, GrownChain
  <1>8. StillOut(net \ {r})
    BY OutStill DEF IInv
  <1>9. Aside(t)
    BY <1>2 DEF ReplyLimited, Aside, IInv, Control
  <1> QED
    BY <1>3, <1>5, <1>6, <1>7, <1>8, <1>9, FinishKeeps

\* Any other status.
LEMMA StepReplyFailed ==
    ASSUME IInv, NEW t \in Flushing, ReplyFailed(t)
    PROVE  IInv'
  <1>1. PICK r \in net : /\ Awaited(t, r)
                         /\ Proceed(t, HandleFailed(sender, chunk[t]), net \ {r})
    BY DEF ReplyFailed
  <1>2. Good(t, sender, chunk[t] \o rest[t])
        /\ chunk[t] \in Seq(1 .. sender.enqueued) /\ rest[t] \in Seq(1 .. sender.enqueued)
        /\ (closing \/ t # Closer)
    BY <1>1, AwaitedFacts
  <1> DEFINE s == HandleFailed(sender, chunk[t])
  <1>3. Good(t, s, rest[t]) /\ Grown(sender, s) /\ s.enqueued = sender.enqueued
        /\ s.seq = sender.seq
    BY <1>2, GoodFailed
  <1>4. StillOut(net \ {r})
    BY OutStill DEF IInv
  <1>5. Aside(t)
    BY <1>2 DEF ReplyFailed, Aside, IInv, Control
  <1> HIDE DEF s
  <1> QED
    BY <1>1, <1>3, <1>4, <1>5, ProceedKeeps DEF s

\* A timeout, before or after the collector has handled the request.
LEMMA StepTimeOut ==
    ASSUME IInv, NEW t \in Flushing, TimeOut(t)
    PROVE  IInv'
  <1>1. PICK r \in net : /\ Awaited(t, r)
                         /\ Proceed(t, HandleFailed(sender, chunk[t]), Orphaned(r))
    BY DEF TimeOut
  <1>2. Good(t, sender, chunk[t] \o rest[t])
        /\ chunk[t] \in Seq(1 .. sender.enqueued) /\ rest[t] \in Seq(1 .. sender.enqueued)
        /\ (closing \/ t # Closer)
    BY <1>1, AwaitedFacts
  <1> DEFINE s == HandleFailed(sender, chunk[t])
  <1>3. Good(t, s, rest[t]) /\ Grown(sender, s) /\ s.enqueued = sender.enqueued
        /\ s.seq = sender.seq
    BY <1>2, GoodFailed
  <1>4. StillOut(Orphaned(r))
    BY OutStill DEF IInv
  <1>5. Aside(t)
    <2>1. budget' \in 0 .. MaxFailures
      BY PipelineAssumption DEF TimeOut, Spend, IInv, Control
    <2> QED
      BY <1>2, <2>1 DEF TimeOut, Aside, IInv, Control
  <1> HIDE DEF s
  <1> QED
    BY <1>1, <1>3, <1>4, <1>5, ProceedKeeps DEF s

\* The start of a flush: what is buffered is drained and its front sent.
LEMMA StepStartFlush ==
    ASSUME IInv, NEW t \in Tasks, StartFlush(t)
    PROVE  IInv'
  <1> DEFINE s == Taken(sender)
  <1>1. t \in Flushing /\ t # Closer
    BY PipelineAssumption DEF Flushing
  <1>2. Good(t, sender, << >>)
    <2>1. Hand(t) = << >>
      BY <1>1, HandType DEF IInv, StartFlush
    <2> QED
      BY <1>1, <2>1, GoodAt DEF IInv
  <1>3. Good(t, s, sender.buffer) /\ Grown(sender, s) /\ s.enqueued = sender.enqueued
        /\ s.seq = sender.seq
    BY <1>2, GoodTaken
  <1>4. StillOut(net)
    BY DEF IInv, Control, StillOut
  <1>5. sender.buffer # << >> /\ Launch(t, s, sender.buffer, net)
    BY DEF StartFlush, MaySend
  <1>6. Aside(t)
    BY <1>1 DEF StartFlush, Aside, IInv, Control
  <1> HIDE DEF s
  <1> QED
    BY <1>1, <1>3, <1>4, <1>5, <1>6, LaunchKeeps

\* close(): the final flush, or none.
LEMMA StepStartClose ==
    ASSUME IInv, StartClose
    PROVE  IInv'
  <1> DEFINE s == IgnoreBackoff(sender)
             u == Taken(s)
  <1>1. Closer \in Flushing /\ ~closing /\ waiting[Closer] = 0
    BY DEF Flushing, StartClose, IInv, Control
  <1>2. Good(Closer, sender, << >>)
    <2>1. Hand(Closer) = << >>
      BY <1>1, HandType DEF IInv
    <2> QED
      BY <1>1, <2>1, GoodAt DEF IInv
  <1>3. /\ s \in Sender /\ Alike(sender, s) /\ s.seq = sender.seq /\ Grown(sender, s)
        /\ s.enqueued = sender.enqueued
    BY SenderFacts, BackoffAlike DEF Alike
  <1>4. Good(Closer, s, << >>)
    BY <1>2, <1>3, GoodAlike
  <1>5. StillOut(net)
    BY DEF IInv, Control, StillOut
  <1>6. Aside(Closer)
    BY DEF StartClose, Aside, IInv, Control
  <1>7. CASE s.buffer = << >>
    <2>1. Finish(Closer, s, net)
      BY <1>7 DEF StartClose
    <2> HIDE DEF s
    <2> QED
      BY <1>1, <1>3, <1>4, <1>5, <1>6, <2>1, FinishKeeps
  <1>8. CASE s.buffer # << >>
    <2>1. Launch(Closer, u, s.buffer, net)
      BY <1>8 DEF StartClose
    <2> HIDE DEF s
    <2>2. Good(Closer, u, s.buffer) /\ Grown(s, u) /\ u.enqueued = s.enqueued /\ u.seq = s.seq
      BY <1>4, GoodTaken
    <2> HIDE DEF u
    <2>3. Grown(sender, u)
      <3>1. sender \in Sender /\ u \in Sender
        BY <2>2 DEF IInv, Books, Good, Bounded
      <3> QED
        BY <1>3, <2>2, <3>1, GrownChain
    <2> QED
      BY <1>1, <1>3, <1>5, <1>6, <1>8, <2>1, <2>2, <2>3, LaunchKeeps
  <1> QED
    BY <1>7, <1>8

\* A step of the sender that nobody's flush takes part in.
LEMMA SenderKeeps ==
    ASSUME IInv, NEW t \in Flushing, Good(t, sender', Hand(t)), Grown(sender, sender'),
           sender'.enqueued <= MaxEvents,
           UNCHANGED <<waiting, chunk, rest, closing, net, row, stored, abandoned, budget>>
    PROVE  IInv'
  <1>1. sender \in Sender /\ sender' \in Sender /\ sender.enqueued \in Nat
        /\ sender'.enqueued \in Nat /\ sender'.enqueued >= sender.enqueued
        /\ sender.seq \in Nat /\ sender'.seq \in Nat /\ sender'.seq >= sender.seq
    BY SenderFacts DEF Good, Bounded, Sender, Grown
  <1>2. 1 .. sender.enqueued \subseteq 1 .. sender'.enqueued
    BY <1>1
  <1>3. chunk' \in [Flushing -> Seq(1 .. sender'.enqueued)]
        /\ rest' \in [Flushing -> Seq(1 .. sender'.enqueued)]
    <2>1. Seq(1 .. sender.enqueued) \subseteq Seq(1 .. sender'.enqueued)
      BY <1>2, SeqMonotonic
    <2>2. chunk' = chunk /\ rest' = rest
      OBVIOUS
    <2>3. /\ chunk \in [Flushing -> Seq(1 .. sender.enqueued)]
          /\ rest \in [Flushing -> Seq(1 .. sender.enqueued)]
      BY DEF IInv, Control
    <2> HIDE DEF Flushing
    <2> QED
      BY <2>1, <2>2, <2>3
  <1>4. Control'
    <2>1. stored' \subseteq 1 .. sender'.enqueued /\ abandoned' \subseteq 1 .. sender'.enqueued
      BY <1>2 DEF IInv, Control
    <2> QED
      BY <1>3, <2>1 DEF IInv, Control, Flushing, Request, ClientStats
  <1>5. Books'
    <2>1. Alike(sender', sender')
      BY DEF Alike
    <2>2. chunk'[t] \o rest'[t] = Hand(t)
      BY DEF Hand
    <2>3. \A u \in Others(t) : chunk'[u] = chunk[u] /\ rest'[u] = rest[u]
      OBVIOUS
    <2> QED
      BY <1>1, <1>3, <2>1, <2>2, <2>3, BooksAfter DEF IInv
  <1>6. Known' = Known
    BY DEF Known, RowMeta
  <1>7. Figures'
    BY <1>1, <1>6, FiguresAfter DEF IInv
  <1>8. Answers'
    <2>1. \A u \in Flushing : waiting[u] \in Nat /\ waiting[u] <= sender.seq
      BY PipelineAssumption DEF IInv, Answers, Control
    <2>2. \A u \in Flushing : waiting'[u] <= sender'.seq
      BY <1>1, <2>1
    <2> QED
      BY <2>2 DEF IInv, Answers, Flushing, Storable, Elements
  <1>9. Collected'
    BY DEF IInv, Collected
  <1> QED
    BY <1>4, <1>5, <1>7, <1>8, <1>9 DEF IInv

\* enqueue.
LEMMA StepEnqueue ==
    ASSUME IInv, EnqueueEvent
    PROVE  IInv'
  <1> DEFINE e == sender.enqueued + 1
             s == [sender EXCEPT !.enqueued = @ + 1]
             H == Hand(Closer)
             N == 1 .. sender.enqueued
             M == 1 .. e
  <1>1. Closer \in Flushing
    BY DEF Flushing
  <1>2. Good(Closer, sender, H)
    BY <1>1, GoodAt DEF IInv
  <1>3. /\ sender \in Sender /\ sender \in Bounded /\ sender.enqueued \in Nat /\ sender.seq \in Nat
        /\ sender.buffer \in Seq(N) /\ H \in Seq(N)
    BY <1>2, SenderFacts DEF Good
  <1>4. e \in Nat /\ e \notin N /\ N \subseteq M /\ e \in M /\ e <= MaxEvents
    BY <1>3, PipelineAssumption DEF EnqueueEvent
  <1>5. /\ s \in Sender /\ s.buffer = sender.buffer /\ s.sent = sender.sent
        /\ s.dropped = sender.dropped /\ s.seq = sender.seq /\ s.enqueued = e
    <2>1. s.buffer = sender.buffer /\ s.sent = sender.sent
          /\ s.dropped = sender.dropped /\ s.seq = sender.seq /\ s.enqueued = e
      BY <1>3 DEF Sender
    <2>2. s \in Sender
      BY <1>3, <1>4 DEF Sender
    <2> QED
      BY <2>1, <2>2
  <1>6. sender' = Rebuffer(s, <<e>>) /\ UNCHANGED <<waiting, chunk, rest, closing, net, row,
                                                    stored, abandoned, budget>>
    BY DEF EnqueueEvent, Enqueue
  <1> HIDE DEF e, s, H, N, M
  <1>7. /\ <<e>> \in Seq(M) /\ H \in Seq(M) /\ s.buffer \in Seq(M)
        /\ <<e>> \o H \in Seq(M) /\ Len(<<e>> \o H) = 1 + Len(H) /\ Len(H) \in Nat
    <2>1. H \in Seq(M) /\ s.buffer \in Seq(M)
      BY <1>3, <1>4, <1>5, SeqMonotonic
    <2>2. <<e>> \in Seq(M) /\ Len(<<e>>) = 1
      BY <1>4
    <2> QED
      BY <2>1, <2>2
  <1>8. Elements(<<e>> \o H) = {e} \cup Elements(H)
    <2>1. Elements(<<e>>) = {e}
      BY DEF Elements
    <2>2. PICK a : a = <<e>>
      OBVIOUS
    <2>3. a \in Seq(M) /\ Elements(a) = {e}
      BY <1>7, <2>1, <2>2
    <2>4. Elements(a \o H) = Elements(a) \cup Elements(H)
      BY <1>7, <2>3, ElementsConcat
    <2> QED
      BY <2>2, <2>3, <2>4
  <1>9. Good(Closer, s, <<e>> \o H)
    <2>1. s \in Bounded
      BY <1>3, <1>5 DEF Bounded
    <2>2. s.enqueued = Accounted(s) + Len(<<e>> \o H)
                       + (OthersCount(Closer) + Cardinality(abandoned))
      <3>1. sender.enqueued = Accounted(sender) + Len(H)
                              + (OthersCount(Closer) + Cardinality(abandoned))
        BY <1>2 DEF Good
      <3>2. Accounted(s) = Accounted(sender) /\ Accounted(s) \in Nat
        BY <1>5, CountersNat DEF Accounted, DroppedTotal
      <3>3. OthersCount(Closer) \in Nat /\ Cardinality(abandoned) \in Nat
        BY <1>1, OthersNat, AbandonedFinite DEF IInv
      <3>4. PICK A, L, K \in Nat : /\ A = Accounted(s) /\ L = Len(H)
                                   /\ K = OthersCount(Closer) + Cardinality(abandoned)
        BY <1>7, <3>2, <3>3
      <3>5. s.enqueued = A + L + K + 1
        BY <1>5, <3>1, <3>2, <3>4 DEF e
      <3>6. A + L + K + 1 = A + (1 + L) + K
        <4>1. A \in Nat /\ L \in Nat /\ K \in Nat
          OBVIOUS
        <4> HIDE <3>4
        <4> QED
          BY <4>1
      <3> QED
        BY <1>7, <3>4, <3>5, <3>6
    <2>3. Once(s.buffer \o (<<e>> \o H))
      <3>1. Once(sender.buffer \o H)
        BY <1>2 DEF Good
      <3> QED
        BY <1>3, <1>4, <1>5, <3>1, OnceInsert
    <2>4. (Elements(s.buffer) \cup Elements(<<e>> \o H)) \cap Elsewhere(Closer) = {}
      <3>1. Elsewhere(Closer) \subseteq N
        BY ElsewhereKnown DEF IInv, N
      <3> QED
        BY <1>2, <1>4, <1>5, <1>8, <3>1 DEF Good
    <2>5. Cardinality(Gone(Closer, s, <<e>> \o H)) <= DroppedTotal(s)
      <3>1. M = N \cup {e}
        BY <1>3 DEF M, N, e
      <3>2. Gone(Closer, s, <<e>> \o H) = Gone(Closer, sender, H)
        BY <1>4, <1>5, <1>8, <3>1 DEF Gone, M, N
      <3>3. DroppedTotal(s) = DroppedTotal(sender)
        BY <1>5 DEF DroppedTotal
      <3> QED
        BY <1>2, <3>2, <3>3 DEF Good
    <2> QED
      BY <1>5, <1>7, <2>1, <2>2, <2>3, <2>4, <2>5 DEF Good, M
  <1>10. Good(Closer, sender', H) /\ Grown(s, sender') /\ sender'.enqueued = e
    <2>1. PICK a : a = <<e>>
      OBVIOUS
    <2>2. Good(Closer, s, a \o H) /\ a \in Seq(1 .. s.enqueued) /\ H \in Seq(1 .. s.enqueued)
      BY <1>5, <1>7, <1>9, <2>1 DEF M
    <2>3. LET r == Rebuffer(s, a)
          IN  Good(Closer, r, H) /\ Grown(s, r) /\ r.enqueued = s.enqueued
      BY <2>2, GoodRebuffer
    <2> QED
      BY <1>5, <1>6, <2>1, <2>3
  <1>11. Grown(sender, sender')
    <2>1. Grown(sender, s)
      <3>1. \A d \in DROP_REASONS : sender.dropped[d] \in Nat
        BY <1>3 DEF Sender
      <3> QED
        BY <1>3, <1>5, <3>1 DEF Grown, e
    <2>2. sender' \in Sender
      BY <1>10 DEF Good, Bounded
    <2> QED
      BY <1>3, <1>5, <1>10, <2>1, <2>2, GrownChain
  <1> QED
    BY <1>1, <1>4, <1>6, <1>10, <1>11, SenderKeeps DEF H

\* flush() of a closed sender: what is buffered is drained and fails at once.
LEMMA StepFlushClosed ==
    ASSUME IInv, NEW t \in Tasks, FlushClosed(t)
    PROVE  IInv'
  <1> DEFINE s == Taken(sender)
             u == RaisedAtOnce(s, sender.buffer)
  <1>1. t \in Flushing /\ waiting[t] = 0 /\ sender' = u
        /\ UNCHANGED <<waiting, chunk, rest, closing, net, row, stored, abandoned, budget>>
    BY DEF Flushing, FlushClosed
  <1>2. Hand(t) = << >>
    BY <1>1, HandType DEF IInv
  <1>3. Good(t, sender, << >>)
    BY <1>1, <1>2, GoodAt DEF IInv
  <1>4. Good(t, s, sender.buffer) /\ Grown(sender, s) /\ s.enqueued = sender.enqueued
        /\ sender.buffer \in Seq(1 .. s.enqueued)
    BY <1>3, GoodTaken
  <1> HIDE DEF s
  <1>5. Good(t, u, << >>) /\ Grown(s, u) /\ u.enqueued = s.enqueued
    BY <1>4, AllFailed DEF RaisedAtOnce
  <1> HIDE DEF u
  <1>6. Grown(sender, u)
    <2>1. sender \in Sender /\ s \in Sender /\ u \in Sender
      BY <1>4, <1>5, SenderFacts DEF Good, Bounded
    <2> QED
      BY <1>4, <1>5, <2>1, GrownChain
  <1>7. Good(t, sender', Hand(t)) /\ Grown(sender, sender') /\ sender'.enqueued <= MaxEvents
    BY <1>1, <1>2, <1>4, <1>5, <1>6 DEF IInv, Control
  <1> QED
    BY <1>1, <1>7, SenderKeeps

\* The back-off is over.
LEMMA StepBackoffEnds ==
    ASSUME IInv, BackoffEnds
    PROVE  IInv'
  <1> DEFINE s == IgnoreBackoff(sender)
  <1>1. Closer \in Flushing
    BY DEF Flushing
  <1>2. Good(Closer, sender, Hand(Closer))
    BY <1>1, GoodAt DEF IInv
  <1>3. s \in Sender /\ Alike(sender, s) /\ Grown(sender, s) /\ s.enqueued = sender.enqueued
    BY SenderFacts, BackoffAlike DEF Alike
  <1>4. Good(Closer, s, Hand(Closer))
    BY <1>2, <1>3, GoodAlike
  <1>5. sender' = s /\ UNCHANGED <<waiting, chunk, rest, closing, net, row, stored, abandoned, budget>>
    BY DEF BackoffEnds
  <1> HIDE DEF s
  <1>6. sender'.enqueued <= MaxEvents
    BY <1>3, <1>5 DEF IInv, Control
  <1> QED
    BY <1>1, <1>3, <1>4, <1>5, <1>6, SenderKeeps

\* A cancelled task: what it held counts as abandoned from now on.
LEMMA CancelBooks ==
    ASSUME IInv, NEW t \in Flushing,
           abandoned' = abandoned \cup Elements(chunk[t]) \cup Elements(rest[t]),
           chunk' = [chunk EXCEPT ![t] = << >>], rest' = [rest EXCEPT ![t] = << >>],
           sender' = sender, stored' = stored
    PROVE  Books' /\ abandoned' \subseteq 1 .. sender.enqueued
  <1> DEFINE H == Hand(t)
  <1>1. Control /\ Books /\ sender \in Sender /\ sender.enqueued \in Nat
        /\ 1 .. sender.enqueued \subseteq Nat
    BY SenderFacts DEF IInv
  <1>2. Good(t, sender, H)
    BY <1>1, GoodAt
  <1>3. H \in Seq(1 .. sender.enqueued) /\ Elements(H) = Elements(chunk[t]) \cup Elements(rest[t])
    BY <1>1, HandType, HandElements
  <1>4. abandoned' = abandoned \cup Elements(H)
    BY <1>3
  <1> HIDE DEF H
  <1>5. IsFiniteSet(Elements(H)) /\ Elements(H) \subseteq 1 .. sender.enqueued
        /\ Cardinality(Elements(H)) = Len(H)
    <2>1. Once(H)
      BY <1>1 DEF Books, Apart, H
    <2> QED
      BY <1>3, <2>1, ElementsCount
  <1>6. Elements(H) \cap abandoned = {} /\ Elements(H) \cap Elements(sender.buffer) = {}
    BY <1>1 DEF Books, Apart, H
  <1>7. Cardinality(abandoned') = Cardinality(abandoned) + Len(H)
    <2>1. IsFiniteSet(abandoned)
      BY <1>1, AbandonedFinite
    <2>2. abandoned \cap Elements(H) = {}
      BY <1>6
    <2> QED
      BY <1>4, <1>5, <2>1, <2>2, Disjoint
  <1>8. /\ chunk \in [Flushing -> Seq(1 .. sender.enqueued)]
        /\ rest \in [Flushing -> Seq(1 .. sender.enqueued)]
    BY <1>1 DEF Control
  <1>9. /\ chunk' \in [Flushing -> Seq(Nat)] /\ rest' \in [Flushing -> Seq(Nat)]
        /\ chunk'[t] = << >> /\ rest'[t] = << >>
        /\ \A u \in Others(t) : chunk'[u] = chunk[u] /\ rest'[u] = rest[u]
    <2>1. Seq(1 .. sender.enqueued) \subseteq Seq(Nat) /\ << >> \in Seq(Nat)
      BY <1>1, SeqMonotonic
    <2> HIDE DEF Flushing
    <2> QED
      BY <1>8, <2>1 DEF Others
  <1>10. HeldIn(chunk', rest', Others(t)) = HeldIn(chunk, rest, Others(t))
         /\ CountIn(chunk', rest', Others(t)) = OthersCount(t)
    <2>1. PICK d, u : d = chunk' /\ u = rest'
      OBVIOUS
    <2>2. \A v \in Others(t) : d[v] = chunk[v] /\ u[v] = rest[v]
      BY <1>9, <2>1
    <2>3. HeldIn(d, u, Others(t)) = HeldIn(chunk, rest, Others(t))
          /\ CountIn(d, u, Others(t)) = CountIn(chunk, rest, Others(t))
      BY <2>2 DEF HeldIn, CountIn
    <2> QED
      BY <2>1, <2>3 DEF OthersCount
  <1>11. chunk'[t] \o rest'[t] = << >> /\ Elements(chunk'[t] \o rest'[t]) = {}
    BY <1>9 DEF Elements
  <1>12. InFlight' = HeldIn(chunk, rest, Others(t))
    <2>1. InFlight' = HeldIn(chunk', rest', Flushing)
      BY DEF InFlight, HeldIn
    <2>2. HeldIn(chunk', rest', Flushing)
              = Elements(chunk'[t] \o rest'[t]) \cup HeldIn(chunk', rest', Others(t))
      BY <1>9, HeldSplit
    <2> QED
      BY <1>10, <1>11, <2>1, <2>2
  <1>13. InFlightCount' = OthersCount(t) /\ OthersCount(t) \in Nat
    <2>1. InFlightCount' = CountIn(chunk', rest', Flushing)
      BY DEF InFlightCount, CountIn
    <2>2. CountIn(chunk', rest', Flushing)
              = Len(chunk'[t] \o rest'[t]) + CountIn(chunk', rest', Others(t))
          /\ CountIn(chunk', rest', Others(t)) \in Nat
      BY <1>9, CountSplit
    <2>3. Len(chunk'[t] \o rest'[t]) = 0
      BY <1>11
    <2>4. PICK n \in Nat : n = CountIn(chunk', rest', Others(t))
      BY <2>2
    <2>5. OthersCount(t) = n
      BY <1>10, <2>4
    <2>6. InFlightCount' = 0 + n
      BY <2>1, <2>2, <2>3, <2>4
    <2> QED
      BY <2>5, <2>6
  <1>14. Balance'
    <2>1. PICK D, L, S, N, O, A \in Nat :
             /\ D = DroppedTotal(sender) /\ L = Len(sender.buffer) /\ S = sender.sent
             /\ N = Len(H) /\ O = OthersCount(t) /\ A = Cardinality(abandoned)
      <3>1. DroppedTotal(sender) \in Nat /\ Len(sender.buffer) \in Nat /\ sender.sent \in Nat
        BY <1>1, CountersNat
      <3>2. Len(H) \in Nat
        BY <1>3
      <3>3. Cardinality(abandoned) \in Nat
        BY <1>1, AbandonedFinite
      <3> QED
        BY <1>13, <3>1, <3>2, <3>3
    <2>2. sender.enqueued = S + D + L + N + (O + A)
      BY <1>2, <2>1 DEF Good, Accounted
    <2>3. S + D + L + N + (O + A) = S + D + L + O + (A + N)
      <3>1. D \in Nat /\ L \in Nat /\ S \in Nat /\ N \in Nat /\ O \in Nat /\ A \in Nat
        OBVIOUS
      <3> HIDE <2>1
      <3> QED
        BY <3>1
    <2>4. DroppedTotal(sender)' = D /\ Cardinality(abandoned)' = A + N
      BY <1>7, <2>1 DEF DroppedTotal
    <2> QED
      BY <1>13, <2>1, <2>2, <2>3, <2>4 DEF Balance
  <1>15. Elements(sender.buffer)' = Elements(sender.buffer)
    BY DEF Elements
  <1>16. NothingLostSilently'
    <2>1. Gone(t, sender, H)
              = {e \in 1 .. sender.enqueued :
                    e \notin stored \cup HeldBySender \cup abandoned \cup Unstorable}'
      BY <1>4, <1>12, <1>15 DEF Gone, HeldBySender, Elsewhere
    <2>2. Cardinality(Gone(t, sender, H)) <= DroppedTotal(sender)'
      BY <1>2 DEF Good, DroppedTotal
    <2> QED
      BY <2>1, <2>2 DEF NothingLostSilently
  <1>17. Apart'
    <2>1. Hand(t)' = << >> /\ \A u \in Others(t) : Hand(u)' = Hand(u)
      BY <1>9, <1>11 DEF Hand
    <2>2. \A u \in Flushing : u = t \/ u \in Others(t)
      BY DEF Others
    <2>3. \A u \in Flushing : Elements(Hand(u))' = Elements(Hand(u)')
      BY DEF Elements
    <2>4. \A u \in Flushing : Once(Hand(u))' <=> Once(Hand(u)')
      BY DEF Once
    <2>5. Once(<< >>) /\ Elements(<< >>) = {}
      BY DEF Once, Elements
    <2>6. Once(sender.buffer)' /\ (abandoned \cap Elements(sender.buffer))' = {}
      BY <1>1, <1>4, <1>6, <1>15 DEF Once, Books, Apart
    <2>7. \A u \in Flushing : /\ Once(Hand(u))
                              /\ Elements(Hand(u))
                                    \cap (Elements(sender.buffer) \cup abandoned) = {}
      BY <1>1 DEF Books, Apart
    <2>8. \A u, v \in Flushing : u # v => Elements(Hand(u)) \cap Elements(Hand(v)) = {}
      BY <1>1 DEF Books, Apart
    <2>9. ASSUME NEW u \in Flushing
          PROVE  Once(Hand(u)')
                 /\ Elements(Hand(u)') \cap (Elements(sender.buffer) \cup abandoned') = {}
      <3>1. CASE u = t
        BY <2>1, <2>5, <3>1
      <3>2. CASE u \in Others(t)
        <4>1. Elements(Hand(u)) \cap Elements(H) = {}
          BY <2>8, <3>2 DEF Others, H
        <4> QED
          BY <1>4, <2>1, <2>7, <3>2, <4>1
      <3> QED
        BY <2>2, <3>1, <3>2
    <2>10. ASSUME NEW u \in Flushing, NEW v \in Flushing, u # v
           PROVE  Elements(Hand(u)') \cap Elements(Hand(v)') = {}
      <3>1. CASE u = t \/ v = t
        BY <2>1, <2>5, <3>1
      <3>2. CASE u # t /\ v # t
        BY <2>1, <2>2, <2>8, <2>10, <3>2
      <3> QED
        BY <3>1, <3>2
    <2> QED
      BY <1>15, <2>3, <2>4, <2>6, <2>9, <2>10 DEF Apart, Flushing
  <1>18. abandoned' \subseteq 1 .. sender.enqueued
    BY <1>1, <1>4, <1>5 DEF Control
  <1> QED
    BY <1>1, <1>14, <1>16, <1>17, <1>18 DEF Books, Bounded, Sender

\* A step that leaves the sender and the row as they are, and that lets no new
\* request be out, keeps the figures in order.
LEMMA FiguresStay ==
    ASSUME IInv, sender' = sender, row' = row,
           \A q \in net' : \E r \in net : q.meta = r.meta
    PROVE  Figures'
  <1>1. sender \in Sender /\ Grown(sender, sender)
    BY SenderFacts
  <1>2. ASSUME NEW f \in Known'
        PROVE  f \in Known
    <2>1. CASE f \in {r.meta : r \in net'}
      BY <2>1 DEF Known
    <2>2. CASE f = RowMeta'
      BY <2>2 DEF Known, RowMeta
    <2> QED
      BY <2>1, <2>2 DEF Known
  <1> QED
    BY <1>1, <1>2, FiguresAfter DEF IInv

\* The task is cancelled in its await.
LEMMA StepCancel ==
    ASSUME IInv, NEW t \in Tasks, Cancel(t)
    PROVE  IInv'
  <1>1. t \in Flushing /\ t # Closer
    BY DEF Flushing, Cancel
  <1>2. PICK r \in net : Awaited(t, r) /\ net' = Orphaned(r)
    BY DEF Cancel
  <1>3. /\ abandoned' = abandoned \cup Elements(chunk[t]) \cup Elements(rest[t])
        /\ waiting' = [waiting EXCEPT ![t] = 0]
        /\ chunk' = [chunk EXCEPT ![t] = << >>] /\ rest' = [rest EXCEPT ![t] = << >>]
        /\ sender' = sender /\ closing' = closing /\ row' = row /\ stored' = stored
    BY DEF Cancel
  <1>4. Books' /\ abandoned' \subseteq 1 .. sender.enqueued
    BY <1>1, <1>3, CancelBooks
  <1>5. StillOut(net')
    BY <1>2, OutStill DEF IInv
  <1>6. budget' \in 0 .. MaxFailures
    BY PipelineAssumption DEF Cancel, Spend, IInv, Control
  <1>7. sender \in Sender /\ sender.enqueued \in Nat
    BY SenderFacts
  <1>8. Control'
    <2>1. waiting' \in [Flushing -> 0 .. MaxRequests]
      <3>1. 0 \in 0 .. MaxRequests
        BY PipelineAssumption
      <3>2. waiting \in [Flushing -> 0 .. MaxRequests]
        BY DEF IInv, Control
      <3> HIDE DEF Flushing
      <3> QED
        BY <1>3, <3>1, <3>2
    <2>2. chunk' \in [Flushing -> Seq(1 .. sender.enqueued)]
          /\ rest' \in [Flushing -> Seq(1 .. sender.enqueued)]
      <3>1. << >> \in Seq(1 .. sender.enqueued)
        OBVIOUS
      <3>2. /\ chunk \in [Flushing -> Seq(1 .. sender.enqueued)]
            /\ rest \in [Flushing -> Seq(1 .. sender.enqueued)]
        BY DEF IInv, Control
      <3> HIDE DEF Flushing
      <3> QED
        BY <1>3, <3>1, <3>2
    <2>3. \A u \in Flushing : /\ (waiting'[u] = 0) = (chunk'[u] = << >>)
                              /\ waiting'[u] = 0 => rest'[u] = << >>
      BY <1>3 DEF IInv, Control
    <2>4. net' \subseteq Request
      BY <1>5 DEF StillOut
    <2>5. ~closing' => waiting'[Closer] = 0
      BY <1>1, <1>3 DEF IInv, Control, Flushing
    <2> QED
      BY <1>3, <1>4, <1>6, <2>1, <2>2, <2>3, <2>4, <2>5
         DEF IInv, Control, Flushing, Request, ClientStats
  <1>9. Figures'
    <2>1. \A q \in net' : \E p \in net : q.meta = p.meta
      BY <1>5 DEF StillOut
    <2> QED
      BY <1>3, <2>1, FiguresStay
  <1>10. Answers'
    <2>1. \A u \in Flushing : waiting'[u] <= sender'.seq
      <3>1. \A u \in Flushing : waiting[u] <= sender.seq
        BY DEF IInv, Answers
      <3>2. \A u \in Flushing : waiting'[u] = waiting[u] \/ waiting'[u] = 0
        BY <1>3 DEF IInv, Control
      <3>3. 0 <= sender.seq
        BY SenderFacts
      <3> QED
        BY <1>3, <3>1, <3>2, <3>3
    <2>2. ASSUME NEW q \in net'
          PROVE  /\ q.events \in Seq(1 .. q.meta.enqueued_total)
                 /\ q.status = "200" => Storable(q.events) \subseteq stored
                 /\ \A u \in Flushing : q.meta.seq = waiting'[u] => q.events = chunk'[u]
      <3>1. PICK p \in net : /\ q.meta = p.meta /\ q.events = p.events
                             /\ q.status \in {p.status, "late"}
        BY <1>5 DEF StillOut
      <3>2. p.meta.seq \in 1 .. MaxRequests
        BY DEF IInv, Control, Request
      <3>3. p.meta.seq # 0
        BY <3>2
      <3>4. \A u \in Flushing : u = t \/ (waiting'[u] = waiting[u] /\ chunk'[u] = chunk[u])
        BY <1>3 DEF IInv, Control
      <3>5. waiting'[t] = 0
        BY <1>1, <1>3 DEF IInv, Control
      <3> QED
        BY <3>1, <3>3, <3>4, <3>5 DEF IInv, Answers
    <2> QED
      BY <1>3, <2>1, <2>2 DEF Answers, Flushing, Storable, Elements
  <1>11. Collected'
    BY <1>3 DEF IInv, Collected
  <1> QED
    BY <1>4, <1>8, <1>9, <1>10, <1>11 DEF IInv

-----------------------------------------------------------------------------
\* The collector's steps.

\* record_received: the number of events is added, the figures are replaced by
\* those of a later request only.
LEMMA ReceivedRow ==
    ASSUME NEW w \in ClientStats, NEW m \in Meta, NEW n \in Nat
    PROVE  LET v == RecordReceived(w, m, n)
           IN  /\ v \in ClientStats /\ v.received_events = w.received_events + n
               /\ m.seq > w.last_seq =>
                     /\ v.last_seq = m.seq /\ v.sdk_enqueued_total = m.enqueued_total
                     /\ v.sdk_dropped = m.dropped
               /\ ~(m.seq > w.last_seq) =>
                     /\ v.last_seq = w.last_seq /\ v.sdk_enqueued_total = w.sdk_enqueued_total
                     /\ v.sdk_dropped = w.sdk_dropped
  <1> DEFINE c == [w EXCEPT !.received_events = @ + n]
             v == RecordReceived(w, m, n)
  <1>1. c \in ClientStats /\ c.received_events = w.received_events + n
        /\ c.last_seq = w.last_seq /\ c.sdk_enqueued_total = w.sdk_enqueued_total
        /\ c.sdk_dropped = w.sdk_dropped
    BY DEF ClientStats
  <1> HIDE DEF c
  <1>2. CASE m.seq > w.last_seq
    <2>1. v = [c EXCEPT !.last_seq = m.seq, !.sdk_enqueued_total = m.enqueued_total,
                        !.sdk_dropped = m.dropped]
      BY <1>2 DEF RecordReceived, c
    <2>2. m.seq \in Nat /\ m.enqueued_total \in Nat /\ m.dropped \in [DROP_REASONS -> Nat]
      BY DEF Meta
    <2> HIDE DEF v
    <2>3. v \in ClientStats
      BY <1>1, <2>1, <2>2 DEF ClientStats
    <2>4. v.received_events = c.received_events /\ v.last_seq = m.seq
          /\ v.sdk_enqueued_total = m.enqueued_total /\ v.sdk_dropped = m.dropped
      BY <1>1, <2>1 DEF ClientStats
    <2> QED
      BY <1>1, <1>2, <2>3, <2>4 DEF v
  <1>3. CASE ~(m.seq > w.last_seq)
    <2>1. v = c
      BY <1>3 DEF RecordReceived, c
    <2> QED
      BY <1>1, <1>3, <2>1
  <1> QED
    BY <1>2, <1>3

\* record_rejected touches neither the figures nor the number of events received.
LEMMA RejectedRow ==
    ASSUME NEW w \in ClientStats, NEW n \in Nat, NEW reason \in REJECTIONS,
           NEW v \in RecordRejected(w, n, reason)
    PROVE  /\ v \in ClientStats /\ v.received_events = w.received_events
           /\ v.last_seq = w.last_seq /\ v.sdk_enqueued_total = w.sdk_enqueued_total
           /\ v.sdk_dropped = w.sdk_dropped
  <1>1. CASE v = w
    BY <1>1
  <1>2. CASE v = [w EXCEPT !.collector_rejected[reason] = @ + n]
    <2>1. PICK g \in [REJECTIONS -> Nat] : g = w.collector_rejected
      BY DEF ClientStats
    <2> DEFINE c == [g EXCEPT ![reason] = @ + n]
    <2>2. c \in [REJECTIONS -> Nat]
      <3>1. g[reason] + n \in Nat
        OBVIOUS
      <3> QED
        BY <3>1
    <2>3. v = [w EXCEPT !.collector_rejected = c]
      BY <1>2, <2>1 DEF ClientStats
    <2> HIDE DEF c
    <2> QED
      BY <2>2, <2>3 DEF ClientStats
  <1> QED
    BY <1>1, <1>2 DEF RecordRejected

\* What the properties ask of a step of the row.
RowGrown(w, v) ==
    /\ v.last_seq >= w.last_seq
    /\ v.sdk_enqueued_total >= w.sdk_enqueued_total
    /\ \A d \in DROP_REASONS : v.sdk_dropped[d] >= w.sdk_dropped[d]
    /\ v.received_events >= w.received_events

\* The row after n events of the request r were received: it has not shrunk and
\* its figures are those it had or the request's, whichever are greater.
LEMMA RowAfter ==
    ASSUME IInv, NEW r \in net, NEW n \in Nat
    PROVE  LET v == RecordReceived(row, r.meta, n)
           IN  /\ v \in ClientStats /\ RowGrown(row, v)
               /\ v.received_events = row.received_events + n
               /\ v.sdk_enqueued_total >= r.meta.enqueued_total
               /\ \/ /\ v.last_seq = r.meta.seq
                     /\ v.sdk_enqueued_total = r.meta.enqueued_total
                     /\ v.sdk_dropped = r.meta.dropped
                  \/ /\ v.last_seq = row.last_seq
                     /\ v.sdk_enqueued_total = row.sdk_enqueued_total
                     /\ v.sdk_dropped = row.sdk_dropped
  <1> DEFINE m == r.meta
             v == RecordReceived(row, m, n)
  <1>1. row \in ClientStats /\ m \in Meta
    <2>1. m \in [seq : 1 .. MaxRequests, enqueued_total : Nat, dropped : [DROP_REASONS -> Nat]]
      BY DEF IInv, Control, Request
    <2>2. m.seq \in Nat
      BY <2>1, PipelineAssumption
    <2> HIDE DEF m
    <2> QED
      BY <2>1, <2>2 DEF Meta, IInv, Control
  <1>2. m \in Known /\ RowMeta \in Known
    BY DEF Known
  <1>3. /\ RowMeta.seq = row.last_seq /\ RowMeta.enqueued_total = row.sdk_enqueued_total
        /\ RowMeta.dropped = row.sdk_dropped
    BY DEF RowMeta
  <1> HIDE DEF m
  <1>4. /\ m.seq \in Nat /\ m.enqueued_total \in Nat
        /\ \A d \in DROP_REASONS : m.dropped[d] \in Nat
        /\ row.last_seq \in Nat /\ row.sdk_enqueued_total \in Nat /\ row.received_events \in Nat
        /\ \A d \in DROP_REASONS : row.sdk_dropped[d] \in Nat
    BY <1>1 DEF Meta, ClientStats
  <1>5. /\ v \in ClientStats /\ v.received_events = row.received_events + n
        /\ m.seq > row.last_seq =>
              /\ v.last_seq = m.seq /\ v.sdk_enqueued_total = m.enqueued_total
              /\ v.sdk_dropped = m.dropped
        /\ ~(m.seq > row.last_seq) =>
              /\ v.last_seq = row.last_seq /\ v.sdk_enqueued_total = row.sdk_enqueued_total
              /\ v.sdk_dropped = row.sdk_dropped
    BY <1>1, ReceivedRow
  <1> HIDE DEF v
  <1>6. CASE m.seq > row.last_seq
    <2>1. NoGreater(RowMeta, m)
      BY <1>2, <1>3, <1>4, <1>6 DEF IInv, Figures
    <2>2. RowGrown(row, v)
      BY <1>3, <1>4, <1>5, <1>6, <2>1 DEF NoGreater, RowGrown
    <2> QED
      BY <1>4, <1>5, <1>6, <2>2 DEF v, m
  <1>7. CASE ~(m.seq > row.last_seq)
    <2>1. NoGreater(m, RowMeta)
      BY <1>2, <1>3, <1>4, <1>7 DEF IInv, Figures
    <2>2. RowGrown(row, v)
      BY <1>4, <1>5, <1>7 DEF RowGrown
    <2> QED
      BY <1>3, <1>4, <1>5, <1>7, <2>1, <2>2 DEF NoGreater, v, m
  <1> QED
    BY <1>6, <1>7

\* A request that was handled: it, and nothing else, has an answer, or is gone
\* if nobody waits for one.
LEMMA AnsweredStill ==
    ASSUME Control, NEW r \in net, NEW status \in {"200", "429", "500"},
           NEW q \in Answered(r, status)
    PROVE  q \in Request
           /\ \/ q \in net
              \/ q.meta = r.meta /\ q.events = r.events /\ q.status = status
  <1>1. CASE q \in net
    BY <1>1 DEF Control
  <1>2. CASE q = [r EXCEPT !.status = status]
    <2>1. r \in Request /\ status \in Statuses
      BY DEF Control, Statuses
    <2> QED
      BY <1>2, <2>1 DEF Request
  <1> QED
    BY <1>1, <1>2 DEF Answered

\* What can be stored of a request, and how many events cannot.
LEMMA StorableFacts ==
    ASSUME IInv, NEW r \in net
    PROVE  /\ Storable(r.events) \subseteq 1 .. r.meta.enqueued_total
           /\ Storable(r.events) \subseteq 1 .. sender.enqueued
           /\ IsFiniteSet(Storable(r.events)) /\ Cardinality(Storable(r.events)) \in Nat
           /\ Len(r.events) - Cardinality(Storable(r.events)) \in Nat
  <1>1. r.events \in Seq(1 .. r.meta.enqueued_total)
    BY DEF IInv, Answers
  <1>2. IsFiniteSet(Elements(r.events)) /\ Elements(r.events) \subseteq 1 .. r.meta.enqueued_total
        /\ Cardinality(Elements(r.events)) <= Len(r.events)
    BY <1>1, ElementsCount
  <1>3. Storable(r.events) \subseteq Elements(r.events)
    BY DEF Storable
  <1>4. IsFiniteSet(Storable(r.events))
        /\ Cardinality(Storable(r.events)) <= Cardinality(Elements(r.events))
    BY <1>2, <1>3, FS_Subset
  <1>5. Cardinality(Storable(r.events)) \in Nat /\ Cardinality(Elements(r.events)) \in Nat
    BY <1>2, <1>4, FS_CardinalityType
  <1>6. Len(r.events) \in Nat
    BY <1>1
  <1>7. r.meta \in Known
    BY DEF Known
  <1>8. r.meta.enqueued_total <= sender.enqueued
    BY <1>7 DEF IInv, Figures, NoGreater, Metadata
  <1>9. r.meta.enqueued_total \in Nat /\ sender.enqueued \in Nat
    BY <1>7, KnownType, SenderFacts DEF IInv
  <1>10. 1 .. r.meta.enqueued_total \subseteq 1 .. sender.enqueued
    BY <1>8, <1>9
  <1> QED
    BY <1>2, <1>3, <1>4, <1>5, <1>6, <1>10

\* A step of the collector: one request is answered, the row has not shrunk and
\* has no figures but its own or the request's, and what was stored, which the
\* row has heard of, can only be events of the request.
LEMMA CollectorKeeps ==
    ASSUME IInv, NEW r \in net, NEW status \in {"200", "429", "500"},
           net' = Answered(r, status), row' \in ClientStats,
           RowMeta' \in {RowMeta, r.meta}, Collected',
           stored' \in {stored, stored \cup Storable(r.events)},
           status = "200" => Storable(r.events) \subseteq stored',
           UNCHANGED <<clientVars, abandoned>>, budget' \in 0 .. MaxFailures
    PROVE  IInv'
  <1>1. /\ sender' = sender /\ waiting' = waiting /\ chunk' = chunk /\ rest' = rest
        /\ closing' = closing /\ abandoned' = abandoned
    BY DEF clientVars
  <1>2. sender \in Sender /\ sender.enqueued \in Nat /\ Grown(sender, sender)
    BY SenderFacts
  <1>3. \A q \in net' : q \in Request
                        /\ \/ q \in net
                           \/ q.meta = r.meta /\ q.events = r.events /\ q.status = status
    BY AnsweredStill DEF IInv
  <1>4. stored \subseteq stored' /\ stored' \subseteq 1 .. sender.enqueued
    BY StorableFacts DEF IInv, Control
  <1>5. Control'
    BY <1>1, <1>3, <1>4 DEF IInv, Control, Flushing, Request, ClientStats
  <1>6. Books'
    <2>1. Elements(sender.buffer)' = Elements(sender.buffer) /\ InFlight' = InFlight
          /\ HeldBySender' = HeldBySender /\ InFlightCount' = InFlightCount
          /\ DroppedTotal(sender)' = DroppedTotal(sender)
      BY <1>1 DEF Elements, InFlight, HeldBySender, InFlightCount, DroppedTotal, Flushing
    <2>2. Apart'
      <3>1. \A t \in Flushing : Hand(t)' = Hand(t)
        BY <1>1 DEF Hand
      <3>2. \A t \in Flushing : /\ Once(Hand(t))' <=> Once(Hand(t))
                                /\ Elements(Hand(t))' = Elements(Hand(t))
        BY <3>1 DEF Once, Elements
      <3>3. Once(sender.buffer)' <=> Once(sender.buffer)
        BY <1>1 DEF Once
      <3>4. Apart
        BY DEF IInv, Books
      <3> QED
        BY <1>1, <2>1, <3>2, <3>3, <3>4 DEF Apart, Flushing
    <2>3. Balance'
      BY <1>1, <2>1 DEF IInv, Books, Balance
    <2>4. NothingLostSilently'
      <3> DEFINE G == {e \in 1 .. sender.enqueued :
                          e \notin stored \cup HeldBySender \cup abandoned \cup Unstorable}
                 K == {e \in 1 .. sender.enqueued :
                          e \notin stored' \cup HeldBySender \cup abandoned \cup Unstorable}
      <3>1. K \subseteq G /\ G \subseteq 1 .. sender.enqueued
        BY <1>4
      <3>2. IsFiniteSet(1 .. sender.enqueued)
        <4>1. PICK n \in Nat : n = sender.enqueued
          BY <1>2
        <4>2. IsFiniteSet(1 .. n)
          BY FS_Interval
        <4> QED
          BY <4>1, <4>2
      <3>3. Cardinality(G) <= DroppedTotal(sender)
        BY DEF IInv, Books, NothingLostSilently
      <3>4. NothingLostSilently' <=> Cardinality(K) <= DroppedTotal(sender)
        BY <1>1, <2>1 DEF NothingLostSilently
      <3> HIDE DEF G, K
      <3>5. IsFiniteSet(G)
        BY <3>1, <3>2, FS_Subset
      <3>6. IsFiniteSet(K) /\ Cardinality(K) <= Cardinality(G)
        BY <3>1, <3>5, FS_Subset
      <3>7. Cardinality(K) \in Nat /\ Cardinality(G) \in Nat /\ DroppedTotal(sender) \in Nat
        BY <1>2, <3>5, <3>6, FS_CardinalityType, CountersNat
      <3> QED
        BY <3>3, <3>4, <3>6, <3>7
    <2> QED
      BY <1>1, <2>2, <2>3, <2>4 DEF IInv, Books, Bounded, Sender
  <1>7. Figures'
    <2>1. ASSUME NEW f \in Known'
          PROVE  f \in Known
      <3>1. CASE f \in {q.meta : q \in net'}
        BY <1>3, <3>1 DEF Known
      <3>2. CASE f = RowMeta'
        BY <3>2 DEF Known
      <3> QED
        BY <3>1, <3>2 DEF Known
    <2>2. sender' \in Sender /\ Grown(sender, sender')
      BY <1>1, <1>2
    <2> QED
      BY <1>2, <2>1, <2>2, FiguresAfter DEF IInv
  <1>8. Answers'
    <2>1. ASSUME NEW q \in net'
          PROVE  /\ q.events \in Seq(1 .. q.meta.enqueued_total)
                 /\ q.status = "200" => Storable(q.events) \subseteq stored'
                 /\ \A u \in Flushing : q.meta.seq = waiting[u] => q.events = chunk[u]
      <3>1. CASE q \in net
        BY <1>4, <3>1 DEF IInv, Answers
      <3>2. CASE q.meta = r.meta /\ q.events = r.events /\ q.status = status
        BY <3>2 DEF IInv, Answers
      <3> QED
        BY <1>3, <3>1, <3>2
    <2> QED
      BY <1>1, <2>1 DEF IInv, Answers, Flushing, Storable, Elements
  <1> QED
    BY <1>5, <1>6, <1>7, <1>8 DEF IInv

\* The row of a step that stores and of one that refuses: in each case it has
\* grown, its figures are its own or the request's, and it has heard of
\* everything that is stored.
LEMMA IngestRow ==
    ASSUME IInv, NEW r \in net,
           LET kept    == Storable(r.events)
               skipped == Len(r.events) - Cardinality(kept)
               counted == IF kept = {} THEN row ELSE RecordReceived(row, r.meta, Cardinality(kept))
           IN  /\ stored' = stored \cup kept
               /\ row' \in IF skipped = 0 THEN {counted}
                           ELSE RecordRejected(counted, skipped, "unstorable")
    PROVE  /\ row' \in ClientStats /\ RowGrown(row, row')
           /\ RowMeta' \in {RowMeta, r.meta} /\ Collected'
  <1> DEFINE kept    == Storable(r.events)
             n       == Cardinality(kept)
             skipped == Len(r.events) - n
             counted == IF kept = {} THEN row ELSE RecordReceived(row, r.meta, n)
  <1>1. /\ kept \subseteq 1 .. r.meta.enqueued_total /\ IsFiniteSet(kept) /\ n \in Nat
        /\ skipped \in Nat
    BY StorableFacts
  <1>2. stored' = stored \cup kept
        /\ row' \in IF skipped = 0 THEN {counted}
                    ELSE RecordRejected(counted, skipped, "unstorable")
    OBVIOUS
  <1>3. row \in ClientStats /\ stored \subseteq 1 .. row.sdk_enqueued_total
        /\ Cardinality(stored) <= row.received_events
        /\ row.last_seq \in Nat /\ row.sdk_enqueued_total \in Nat /\ row.received_events \in Nat
        /\ \A d \in DROP_REASONS : row.sdk_dropped[d] \in Nat
    BY DEF IInv, Control, Collected, ClientStats
  <1>4. PICK T \in Nat : T = row.sdk_enqueued_total
    BY <1>3
  <1>5. IsFiniteSet(stored) /\ Cardinality(stored) \in Nat
    <2>1. IsFiniteSet(1 .. T)
      BY FS_Interval
    <2>2. stored \subseteq 1 .. T
      BY <1>3, <1>4
    <2> QED
      BY <2>1, <2>2, FS_Subset, FS_CardinalityType
  <1>6. r.meta.enqueued_total \in Nat
    <2>1. r.meta \in Known
      BY DEF Known
    <2> QED
      BY <2>1, KnownType DEF IInv
  <1> HIDE DEF kept, n, skipped
  <1>7. /\ counted \in ClientStats /\ RowGrown(row, counted)
        /\ \/ /\ counted.last_seq = r.meta.seq
              /\ counted.sdk_enqueued_total = r.meta.enqueued_total
              /\ counted.sdk_dropped = r.meta.dropped
           \/ /\ counted.last_seq = row.last_seq
              /\ counted.sdk_enqueued_total = row.sdk_enqueued_total
              /\ counted.sdk_dropped = row.sdk_dropped
        /\ stored \cup kept \subseteq 1 .. counted.sdk_enqueued_total
        /\ Cardinality(stored \cup kept) <= counted.received_events
    <2>1. CASE kept = {}
      <3>1. counted = row /\ stored \cup kept = stored
        BY <2>1
      <3>2. RowGrown(row, row)
        BY <1>3 DEF RowGrown
      <3> QED
        BY <1>3, <3>1, <3>2
    <2>2. CASE kept # {}
      <3>1. counted = RecordReceived(row, r.meta, n)
        BY <2>2
      <3> HIDE DEF counted
      <3>2. /\ counted \in ClientStats /\ RowGrown(row, counted)
            /\ counted.received_events = row.received_events + n
            /\ counted.sdk_enqueued_total >= r.meta.enqueued_total
            /\ \/ /\ counted.last_seq = r.meta.seq
                  /\ counted.sdk_enqueued_total = r.meta.enqueued_total
                  /\ counted.sdk_dropped = r.meta.dropped
               \/ /\ counted.last_seq = row.last_seq
                  /\ counted.sdk_enqueued_total = row.sdk_enqueued_total
                  /\ counted.sdk_dropped = row.sdk_dropped
        BY <1>1, <3>1, RowAfter
      <3>3. counted.sdk_enqueued_total \in Nat
        BY <3>2 DEF ClientStats
      <3>4. stored \cup kept \subseteq 1 .. counted.sdk_enqueued_total
        <4>1. counted.sdk_enqueued_total >= row.sdk_enqueued_total
          BY <3>2 DEF RowGrown
        <4>2. 1 .. row.sdk_enqueued_total \subseteq 1 .. counted.sdk_enqueued_total
          BY <1>3, <3>3, <4>1
        <4>3. 1 .. r.meta.enqueued_total \subseteq 1 .. counted.sdk_enqueued_total
          BY <1>6, <3>2, <3>3
        <4> QED
          BY <1>1, <1>3, <4>2, <4>3
      <3>5. Cardinality(stored \cup kept) <= Cardinality(stored) + n
            /\ Cardinality(stored \cup kept) \in Nat
        <4>1. stored \cup kept \subseteq stored \cup kept
          OBVIOUS
        <4> QED
          BY <1>1, <1>5, <4>1, GrownBy DEF n
      <3>6. Cardinality(stored \cup kept) <= counted.received_events
        BY <1>1, <1>3, <1>5, <3>2, <3>5
      <3> QED
        BY <3>2, <3>4, <3>6
    <2> QED
      BY <2>1, <2>2
  <1>8. /\ row' \in ClientStats /\ row'.received_events = counted.received_events
        /\ row'.last_seq = counted.last_seq
        /\ row'.sdk_enqueued_total = counted.sdk_enqueued_total
        /\ row'.sdk_dropped = counted.sdk_dropped
    <2> HIDE DEF counted
    <2>1. CASE skipped = 0
      BY <1>2, <1>7, <2>1
    <2>2. CASE skipped # 0
      <3>1. row' \in RecordRejected(counted, skipped, "unstorable")
        BY <1>2, <2>2
      <3>2. "unstorable" \in REJECTIONS
        BY DEF REJECTIONS
      <3> QED
        BY <1>1, <1>7, <3>1, <3>2, RejectedRow
    <2> QED
      BY <2>1, <2>2
  <1> HIDE DEF counted
  <1>9. RowGrown(row, row')
    BY <1>7, <1>8 DEF RowGrown
  <1>10. RowMeta' \in {RowMeta, r.meta}
    <2>1. r.meta = [seq |-> r.meta.seq, enqueued_total |-> r.meta.enqueued_total,
                    dropped |-> r.meta.dropped]
      <3>1. r.meta \in [seq : 1 .. MaxRequests, enqueued_total : Nat,
                        dropped : [DROP_REASONS -> Nat]]
        BY DEF IInv, Control, Request
      <3> QED
        BY <3>1
    <2> QED
      BY <1>7, <1>8, <2>1 DEF RowMeta
  <1>11. Collected'
    BY <1>2, <1>7, <1>8 DEF Collected
  <1> QED
    BY <1>8, <1>9, <1>10, <1>11

\* A refused batch leaves figures and stored events alone.
LEMMA RefusedRow ==
    ASSUME IInv, NEW r \in net, NEW reason \in REJECTIONS, row' \in Refused(r, reason),
           stored' = stored
    PROVE  row' \in ClientStats /\ RowGrown(row, row') /\ RowMeta' = RowMeta /\ Collected'
  <1>1. row \in ClientStats
    BY DEF IInv, Control
  <1>2. Cardinality(Storable(r.events)) \in Nat
    BY StorableFacts
  <1>3. row' = row \/ row' \in RecordRejected(row, Cardinality(Storable(r.events)), reason)
    BY DEF Refused
  <1>4. /\ row' \in ClientStats /\ row'.received_events = row.received_events
        /\ row'.last_seq = row.last_seq
        /\ row'.sdk_enqueued_total = row.sdk_enqueued_total
        /\ row'.sdk_dropped = row.sdk_dropped
    BY <1>1, <1>2, <1>3, RejectedRow
  <1>5. RowGrown(row, row')
    BY <1>1, <1>4 DEF RowGrown, ClientStats
  <1>6. RowMeta' = RowMeta
    BY <1>4 DEF RowMeta
  <1>7. Collected'
    BY <1>4 DEF IInv, Collected
  <1> QED
    BY <1>4, <1>5, <1>6, <1>7

\* A batch is stored.
LEMMA StepIngest ==
    ASSUME IInv, Ingest
    PROVE  IInv' /\ RowGrown(row, row')
  <1>1. PICK r \in net :
           /\ LET kept    == Storable(r.events)
                  skipped == Len(r.events) - Cardinality(kept)
                  counted == IF kept = {} THEN row
                             ELSE RecordReceived(row, r.meta, Cardinality(kept))
              IN  /\ stored' = stored \cup kept
                  /\ row' \in IF skipped = 0 THEN {counted}
                              ELSE RecordRejected(counted, skipped, "unstorable")
           /\ net' = Answered(r, "200")
    BY DEF Ingest
  <1>2. row' \in ClientStats /\ RowGrown(row, row') /\ RowMeta' \in {RowMeta, r.meta} /\ Collected'
    BY <1>1, IngestRow
  <1>3. stored' = stored \cup Storable(r.events)
    BY <1>1
  <1>4. UNCHANGED <<clientVars, abandoned>> /\ budget' \in 0 .. MaxFailures
    BY DEF Ingest, IInv, Control
  <1>5. IInv'
    BY <1>1, <1>2, <1>3, <1>4, CollectorKeeps
  <1> QED
    BY <1>2, <1>5

\* A batch is refused for the rate limit, or its transaction fails.
LEMMA StepRefuse ==
    ASSUME IInv, IngestLimited \/ IngestFails
    PROVE  IInv' /\ RowGrown(row, row')
  <1>1. PICK r \in net, reason \in REJECTIONS, status \in {"429", "500"} :
           row' \in Refused(r, reason) /\ net' = Answered(r, status)
    <2>1. "rate_limited" \in REJECTIONS /\ "write_failed" \in REJECTIONS
      BY DEF REJECTIONS
    <2>2. CASE IngestLimited
      BY <2>1, <2>2 DEF IngestLimited
    <2>3. CASE IngestFails
      BY <2>1, <2>3 DEF IngestFails
    <2> QED
      BY <2>2, <2>3
  <1>2. UNCHANGED <<clientVars, stored, abandoned>>
    BY DEF IngestLimited, IngestFails
  <1>3. budget' \in 0 .. MaxFailures
    BY PipelineAssumption DEF IngestLimited, IngestFails, Spend, IInv, Control
  <1>4. row' \in ClientStats /\ RowGrown(row, row') /\ RowMeta' = RowMeta /\ Collected'
    BY <1>1, <1>2, RefusedRow
  <1>5. IInv'
    BY <1>1, <1>2, <1>3, <1>4, CollectorKeeps
  <1> QED
    BY <1>4, <1>5

-----------------------------------------------------------------------------
\* The theorems.

\* Nothing has happened yet.
LEMMA InitIInv ==
    ASSUME Init
    PROVE  IInv
  <1>1. /\ sender = NewSender /\ waiting = [t \in Flushing |-> 0]
        /\ chunk = [t \in Flushing |-> << >>] /\ rest = [t \in Flushing |-> << >>]
        /\ closing = FALSE /\ net = {} /\ row = NewRow
        /\ stored = {} /\ abandoned = {} /\ budget = MaxFailures
    BY DEF Init
  <1>2. /\ sender \in Sender /\ sender.enqueued = 0 /\ sender.sent = 0 /\ sender.seq = 0
        /\ sender.buffer = << >> /\ sender.dropped = NoDrops
    <2>1. NoDrops \in [DROP_REASONS -> Nat] /\ << >> \in Seq(Nat)
      BY DEF NoDrops
    <2> HIDE DEF NoDrops
    <2> QED
      BY <1>1, <2>1 DEF NewSender, Sender, BacklogReasons
  <1>3. DroppedTotal(sender) = 0
    BY <1>2 DEF DroppedTotal, NoDrops, DROP_REASONS
  <1>4. row \in ClientStats /\ row.last_seq = 0 /\ row.sdk_enqueued_total = 0
        /\ row.sdk_dropped = NoDrops /\ row.received_events = 0
    <2>1. NoDrops \in [DROP_REASONS -> Nat]
      BY DEF NoDrops
    <2> HIDE DEF NoDrops
    <2> QED
      BY <1>1, <2>1 DEF NewRow, ClientStats
  <1>5. Elements(<< >>) = {} /\ Once(<< >>) /\ << >> \o << >> = << >> /\ Len(<< >>) = 0
        /\ << >> \in Seq(1 .. 0)
    BY DEF Elements, Once
  <1>6. \A t \in Flushing : chunk[t] = << >> /\ rest[t] = << >> /\ waiting[t] = 0 /\ Hand(t) = << >>
    BY <1>1, <1>5 DEF Hand
  <1>7. Cardinality({}) = 0
    BY FS_EmptySet
  <1>8. Control
    <2>1. /\ waiting \in [Flushing -> 0 .. MaxRequests] /\ chunk \in [Flushing -> Seq(1 .. 0)]
          /\ rest \in [Flushing -> Seq(1 .. 0)] /\ budget \in 0 .. MaxFailures
      <3>1. 0 \in 0 .. MaxRequests /\ MaxFailures \in 0 .. MaxFailures
        BY PipelineAssumption
      <3> HIDE DEF Flushing
      <3> QED
        BY <1>1, <1>5, <3>1
    <2>2. sender.enqueued <= MaxEvents
      BY <1>1, <1>2, PipelineAssumption
    <2> QED
      BY <1>1, <1>2, <1>4, <1>6, <2>1, <2>2 DEF Control, Flushing
  <1>9. InFlightCount = 0 /\ InFlight = {}
    <2>1. UNION {{t} \X (1 .. Len(chunk[t]) + Len(rest[t])) : t \in Flushing} = {}
      <3>1. ASSUME NEW t \in Flushing
            PROVE  {t} \X (1 .. Len(chunk[t]) + Len(rest[t])) = {}
        <4>1. Len(chunk[t]) = 0 /\ Len(rest[t]) = 0
          BY <1>6, <1>5
        <4>2. 1 .. Len(chunk[t]) + Len(rest[t]) = {}
          BY <4>1
        <4> QED
          BY <4>2
      <3> QED
        BY <3>1
    <2> QED
      BY <1>5, <1>6, <1>7, <2>1 DEF InFlightCount, InFlight
  <1>10. Books
    <2>1. sender \in Bounded /\ sender.buffer \in Seq(1 .. sender.enqueued)
      BY <1>2, <1>5, CapacityAssumption DEF Bounded
    <2>2. Apart
      BY <1>1, <1>2, <1>5, <1>6 DEF Apart
    <2>3. Balance
      BY <1>1, <1>2, <1>3, <1>5, <1>7, <1>9 DEF Balance
    <2>4. NothingLostSilently
      <3>1. {e \in 1 .. sender.enqueued :
                e \notin stored \cup HeldBySender \cup abandoned \cup Unstorable} = {}
        BY <1>2
      <3> QED
        BY <1>3, <1>7, <3>1 DEF NothingLostSilently
    <2> QED
      BY <2>1, <2>2, <2>3, <2>4 DEF Books
  <1>11. Figures
    <2>1. Known = {RowMeta}
      BY <1>1 DEF Known
    <2>2. RowMeta.seq = 0 /\ RowMeta.enqueued_total = 0 /\ RowMeta.dropped = NoDrops
      BY <1>4 DEF RowMeta
    <2>3. \A d \in DROP_REASONS : NoDrops[d] = 0
      BY DEF NoDrops
    <2>4. NoGreater(RowMeta, RowMeta) /\ NoGreater(RowMeta, Metadata(sender))
      BY <1>2, <2>2, <2>3 DEF NoGreater, Metadata
    <2> QED
      BY <1>2, <2>1, <2>2, <2>4 DEF Figures
  <1>12. Answers
    BY <1>1, <1>2, <1>6 DEF Answers
  <1>13. Collected
    BY <1>1, <1>4, <1>7 DEF Collected
  <1> QED
    BY <1>8, <1>10, <1>11, <1>12, <1>13 DEF IInv

\* Nothing but the observation of nothing happens.
LEMMA StepStutter ==
    ASSUME IInv, UNCHANGED vars
    PROVE  IInv'
  <1>1. Closer \in Flushing
    BY DEF Flushing
  <1>2. UNCHANGED <<sender, waiting, chunk, rest, closing, net, row, stored, abandoned, budget>>
    BY DEF vars, clientVars
  <1>3. Good(Closer, sender', Hand(Closer)) /\ Grown(sender, sender')
        /\ sender'.enqueued <= MaxEvents
    BY <1>1, <1>2, GoodAt, SenderFacts DEF IInv, Control
  <1> QED
    BY <1>1, <1>2, <1>3, SenderKeeps

\* Every step keeps the invariant, and the row never shrinks.
LEMMA NextIInv ==
    ASSUME IInv, [Next]_vars
    PROVE  IInv' /\ (row' = row \/ RowGrown(row, row'))
  <1>1. CASE EnqueueEvent
    BY <1>1, StepEnqueue DEF EnqueueEvent
  <1>2. ASSUME NEW t \in Tasks, StartFlush(t) \/ FlushClosed(t) \/ Cancel(t)
        PROVE  IInv' /\ row' = row
    BY <1>2, StepStartFlush, StepFlushClosed, StepCancel DEF StartFlush, FlushClosed, Cancel
  <1>3. CASE StartClose
    BY <1>3, StepStartClose DEF StartClose
  <1>4. ASSUME NEW t \in Flushing, ReplyOk(t) \/ ReplyLimited(t) \/ ReplyFailed(t) \/ TimeOut(t)
        PROVE  IInv' /\ row' = row
    BY <1>4, StepReplyOk, StepReplyLimited, StepReplyFailed, StepTimeOut
       DEF ReplyOk, ReplyLimited, ReplyFailed, TimeOut
  <1>5. CASE BackoffEnds
    BY <1>5, StepBackoffEnds DEF BackoffEnds
  <1>6. CASE Ingest \/ IngestLimited \/ IngestFails
    BY <1>6, StepIngest, StepRefuse
  <1>7. CASE UNCHANGED vars
    BY <1>7, StepStutter DEF vars
  <1> QED
    BY <1>1, <1>2, <1>3, <1>4, <1>5, <1>6, <1>7 DEF Next

\* What is where, what is counted and what is known, in every reachable state.
THEOREM Inductive == Spec => []IInv
  <1>1. Init => IInv
    BY InitIInv
  <1>2. IInv /\ [Next]_vars => IInv'
    BY NextIInv
  <1> QED
    BY <1>1, <1>2, PTL DEF Spec

\* Types, the buffer within MAX_BUFFER_SIZE, and that a task holds a chunk
\* exactly while it awaits a request.
THEOREM PipelineTypes == Spec => []TypeOK
  <1>1. ASSUME IInv
        PROVE  TypeOK
    <2>1. sender \in Sender /\ sender.enqueued \in Nat
      BY <1>1, SenderFacts
    <2>2. sender.enqueued <= MaxEvents /\ Len(sender.buffer) <= Capacity
      BY <1>1 DEF IInv, Control, Books, Bounded
    <2>3. 1 .. sender.enqueued \subseteq 1 .. MaxEvents
          /\ 0 .. sender.enqueued \subseteq 0 .. MaxEvents
      BY <2>1, <2>2, PipelineAssumption
    <2>4. chunk \in [Flushing -> Seq(1 .. MaxEvents)] /\ rest \in [Flushing -> Seq(1 .. MaxEvents)]
      <3>1. Seq(1 .. sender.enqueued) \subseteq Seq(1 .. MaxEvents)
        BY <2>3, SeqMonotonic
      <3> HIDE DEF Flushing
      <3> QED
        BY <1>1, <3>1 DEF IInv, Control
    <2>5. ASSUME NEW r \in net
          PROVE  RequestOK(r)
      <3>1. r \in Request
        BY <1>1 DEF IInv, Control
      <3> QED
        BY <3>1 DEF Request, RequestOK
    <2> QED
      BY <1>1, <2>1, <2>2, <2>3, <2>4, <2>5 DEF IInv, Control, TypeOK
  <1> QED
    BY <1>1, Inductive, PTL

\* The counters add up over concurrent flushes, cancellations and close().
THEOREM CountersBalance == Spec => []Balance
  <1>1. IInv => Balance
    BY DEF IInv, Books
  <1> QED
    BY <1>1, Inductive, PTL

\* End to end, an event that is neither stored nor held any more is counted as
\* dropped, but for the two known exceptions.
THEOREM LossIsBooked == Spec => []NothingLostSilently
  <1>1. IInv => NothingLostSilently
    BY DEF IInv, Books
  <1> QED
    BY <1>1, Inductive, PTL

\* The gap GET /telemetry/loss reports is one of events the collector does not
\* have.
THEOREM ReportedGapIsReal == Spec => []GapIsReal
  <1>1. ASSUME IInv
        PROVE  GapIsReal
    <2>1. /\ row \in ClientStats /\ row.sdk_enqueued_total \in Nat /\ row.received_events \in Nat
          /\ row.last_seq \in Nat
      BY <1>1 DEF IInv, Control, ClientStats
    <2>2. stored \subseteq 1 .. row.sdk_enqueued_total /\ Cardinality(stored) <= row.received_events
      BY <1>1 DEF IInv, Collected
    <2>3. SdkDroppedTotal(row) \in Nat
      <3>1. row.sdk_dropped \in [DROP_REASONS -> Nat]
        BY <2>1 DEF ClientStats
      <3> QED
        BY <3>1 DEF SdkDroppedTotal, DROP_REASONS
    <2> DEFINE A == 1 .. row.sdk_enqueued_total
    <2>4. IsFiniteSet(A) /\ Cardinality(A) = row.sdk_enqueued_total
      <3>1. PICK n \in Nat : n = row.sdk_enqueued_total
        BY <2>1
      <3>2. IsFiniteSet(1 .. n) /\ Cardinality(1 .. n) = n
        BY FS_Interval
      <3> QED
        BY <3>1, <3>2
    <2> HIDE DEF A
    <2>5. stored \subseteq A
      BY <2>2 DEF A
    <2>6. IsFiniteSet(stored) /\ Cardinality(stored) \in Nat
      BY <2>4, <2>5, FS_Subset, FS_CardinalityType
    <2>7. IsFiniteSet(A \ stored) /\ Cardinality(A \ stored) \in Nat
      BY <2>4, FS_Difference, FS_CardinalityType
    <2>8. Cardinality(A) = Cardinality(A \ stored) + Cardinality(stored)
      <3>1. A = (A \ stored) \cup stored /\ (A \ stored) \cap stored = {}
        BY <2>5
      <3> DEFINE B == A \ stored
      <3>2. IsFiniteSet(B) /\ B \cap stored = {} /\ A = B \cup stored
        BY <2>7, <3>1
      <3> HIDE DEF B
      <3>3. Cardinality(B \cup stored) = Cardinality(B) + Cardinality(stored)
        BY <2>6, <3>2, Disjoint
      <3> QED
        BY <3>2, <3>3 DEF B
    <2>9. Unaccounted(row) <= Cardinality(A \ stored)
      <3>1. PICK E, R, D, M, C \in Nat :
               /\ E = row.sdk_enqueued_total /\ R = row.received_events
               /\ D = SdkDroppedTotal(row) /\ M = Cardinality(A \ stored)
               /\ C = Cardinality(stored)
        BY <2>1, <2>3, <2>6, <2>7
      <3>2. E = M + C /\ C <= R
        BY <2>2, <2>4, <2>8, <3>1
      <3>3. Unaccounted(row) = 0 \/ Unaccounted(row) = E - R - D
        BY <3>1 DEF Unaccounted
      <3>4. 0 <= M /\ E - R - D <= M
        <4>1. E \in Nat /\ R \in Nat /\ D \in Nat /\ M \in Nat /\ C \in Nat
          OBVIOUS
        <4> HIDE <3>1
        <4> QED
          BY <3>2, <4>1
      <3> QED
        BY <3>1, <3>3, <3>4
    <2> QED
      BY <2>2, <2>9 DEF GapIsReal, A
  <1> QED
    BY <1>1, Inductive, PTL

\* No figure a client reported ever goes down, in whatever order its requests
\* are handled.
THEOREM FiguresOnlyGrow == Spec => FiguresNeverRollBack
  <1>1. IInv /\ [Next]_vars =>
            [/\ row'.last_seq >= row.last_seq
             /\ row'.sdk_enqueued_total >= row.sdk_enqueued_total
             /\ \A d \in DROP_REASONS : row'.sdk_dropped[d] >= row.sdk_dropped[d]
             /\ row'.received_events >= row.received_events]_row
    BY NextIInv DEF RowGrown
  <1> QED
    BY <1>1, Inductive, PTL DEF Spec, FiguresNeverRollBack
=============================================================================
