-------------------------- MODULE ResponseCache --------------------------
(***************************************************************************)
(* The gateway's response caches: the exact ("simple") cache of            *)
(* middlewares/cache/index.ts over the LRU store of store.ts, and the      *)
(* semantic cache of semantic.ts over semanticStore.ts.  A request walks   *)
(* its targets (fallback); each target's lookup records the caller scope   *)
(* (and, in semantic mode, the partition and vector) under the target's    *)
(* index; after the answer memoryCache writes the last attempt back.       *)
(*                                                                         *)
(* Digests are the tuples they are computed from.  A vector is a position  *)
(* on a line, similar to those within Near of it.  An answer remembers     *)
(* what it answers and when it was given.  Requests are interleaved at     *)
(* their lookups, upstream answers and write-backs.                        *)
(***************************************************************************)
EXTENDS Integers, Sequences, FiniteSets, SequencesExt

CONSTANTS
  Profiles,      \* the requests clients send
  Slots,         \* requests in flight
  DefaultAge,    \* DEFAULT_CACHE_TTL_MS
  SemanticTtl,   \* PS_SEMANTIC_CACHE_TTL_SECONDS
  Near,          \* the distance PS_SEMANTIC_CACHE_THRESHOLD allows
  MaxEntries,    \* of either store
  MaxBytes, MaxPerPartition,
  MaxRequests, MaxTime,   \* bounds
  None

VARIABLES
  now,
  simple,      \* the exact store's Map: least recently used first
  entries,     \* SemanticStore.entries, the same
  partitions,  \* SemanticStore.partitions: the ids of each partition
  totalBytes,
  seq,
  req,         \* the requests
  begun        \* requests begun

stores == <<simple, entries, partitions, totalBytes, seq>>
vars == <<now, stores, req, begun>>

----------------------------------------------------------------------------
(* store.ts: InMemoryLruStore.                                             *)

Without(s, P(_)) == SelectSeq(s, LAMBDA e : ~P(e))

Expired(e) == e.expires < now

Held(k) == \E i \in DOMAIN simple : simple[i].key = k /\ ~Expired(simple[i])

SimpleEntry(k) == SelectSeq(simple, LAMBDA e : e.key = k)[1]

\* get: an expired entry is dropped, a live one becomes the most recent.
AfterGet(k) ==
  Without(simple, LAMBDA e : e.key = k) \o
    (IF Held(k) THEN <<SimpleEntry(k)>> ELSE <<>>)

AfterSet(e) ==
  LET s == Append(Without(simple, LAMBDA x : x.key = e.key), e)
  IN  IF Len(s) > MaxEntries THEN Tail(s) ELSE s

----------------------------------------------------------------------------
(* semanticStore.ts.  The operators below take and return the whole store  *)
(* [entries, partitions, bytes].                                           *)

Store == [entries |-> entries, partitions |-> partitions, bytes |-> totalBytes]

IdsOf(st, p) == IF p \in DOMAIN st.partitions THEN st.partitions[p] ELSE {}

Entry(st, id) == SelectSeq(st.entries, LAMBDA e : e.id = id)[1]

Oldest(ids) == CHOOSE i \in ids : \A j \in ids : i <= j

RemoveEntry(st, e) ==
  LET ids == st.partitions[e.partition] \ {e.id}
  IN  [entries |-> Without(st.entries, LAMBDA x : x.id = e.id),
       bytes |-> st.bytes - e.bytes,
       partitions |-> [p \in (IF ids = {} THEN DOMAIN st.partitions \ {e.partition}
                              ELSE DOMAIN st.partitions) |->
                         IF p = e.partition THEN ids ELSE st.partitions[p]]]

RemoveIds(st, ids) ==
  FoldLeft(LAMBDA acc, id : RemoveEntry(acc, Entry(acc, id)), st, SetToSeq(ids))

Distance(v, w) == IF v > w THEN v - w ELSE w - v

\* lookup: expired entries of the partition are dropped; the nearest live
\* one within the threshold is touched and returned.
Pruned(p) ==
  RemoveIds(Store, {id \in IdsOf(Store, p) : Entry(Store, id).expires <= now})

Best(st, p, v) ==
  LET ids == {id \in IdsOf(st, p) : Distance(Entry(st, id).vector, v) <= Near}
      nearest == {id \in ids : \A j \in ids :
                    Distance(Entry(st, id).vector, v) <= Distance(Entry(st, j).vector, v)}
  IN  IF ids = {} THEN None ELSE Entry(st, Oldest(nearest))

Touched(st, e) ==
  [st EXCEPT !.entries = Append(Without(@, LAMBDA x : x.id = e.id), e)]

\* insert: near-duplicates are replaced; then the partition's cap drops its
\* oldest entries and the global caps the least recently used ones.
Deduplicated(p, v) ==
  RemoveIds(Store, {id \in IdsOf(Store, p) : Entry(Store, id).vector = v})

WithEntry(st, e) ==
  [entries |-> Append(st.entries, e),
   bytes |-> st.bytes + e.bytes,
   partitions |-> [p \in DOMAIN st.partitions \cup {e.partition} |->
                     IdsOf(st, p) \cup (IF p = e.partition THEN {e.id} ELSE {})]]

CapPartition(st, p) ==
  IF Cardinality(IdsOf(st, p)) > MaxPerPartition
  THEN RemoveEntry(st, Entry(st, Oldest(IdsOf(st, p)))) ELSE st

\* How many of the least recently used entries have to go.
Surplus(st) ==
  LET BytesFrom(n) == FoldLeft(LAMBDA a, e : a + e.bytes, 0,
                               SubSeq(st.entries, n + 1, Len(st.entries)))
      fits == {n \in 0..Len(st.entries) :
                 Len(st.entries) - n <= MaxEntries /\ BytesFrom(n) <= MaxBytes}
  IN  Oldest(fits)

CapStore(st) ==
  FoldLeft(LAMBDA acc, e : RemoveEntry(acc, e), st, SubSeq(st.entries, 1, Surplus(st)))

AfterInsert(e) ==
  CapStore(CapPartition(WithEntry(Deduplicated(e.partition, e.vector), e), e.partition))

SetStore(st) ==
  /\ entries' = st.entries
  /\ partitions' = st.partitions
  /\ totalBytes' = st.bytes

----------------------------------------------------------------------------
(* A request's attempts.  A target has the caller scope its options give   *)
(* and says whether the semantic cache may be used for it (endpoint,       *)
(* sensitivity, PII, embedder).                                            *)

HitKinds == {"ok", "hooks failed"}

IdleReq == [at |-> "idle", prof |-> None, i |-> 0, scopes |-> <<>>, pending |-> <<>>,
            log |-> None, served |-> None]

Target(r) == req[r].prof.targets[req[r].i]

\* Whether the semantic cache may be used: endpoint, prompt, sensitivity,
\* personal data and embedder.
Eligible(r) == Target(r).eligible

\* computeCacheScope and getCacheKey: what the key of an entry covers.
Key(r, i) == <<req[r].prof.targets[i].scope, req[r].prof.body>>

\* partitionKey: the scope and everything but the final message's text.
Partition(r) == <<Target(r).scope, req[r].prof.body>>

Question(r) == [key |-> Key(r, req[r].i), vector |-> req[r].prof.vector]

Begin(r, p) ==
  /\ req[r].at = "idle" /\ begun < MaxRequests
  /\ req' = [req EXCEPT ![r] = [IdleReq EXCEPT !.at = "lookup", !.prof = p, !.i = 1,
               !.scopes = [i \in DOMAIN p.targets |-> None],
               !.pending = [i \in DOMAIN p.targets |-> None]]]
  /\ begun' = begun + 1
  /\ UNCHANGED <<now, stores>>

\* The log object of an attempt: what the write-back reads.
Log(r, answer) == [i |-> req[r].i, answer |-> answer]

\* A hit answers 200, or 246 when a before-request hook failed.
Hit(r, status, body, kind) ==
  [req EXCEPT ![r].at = "writeback",
     ![r].scopes[req[r].i] = Target(r).scope,
     ![r].served = [by |-> status, answer |-> body, at |-> now],
     ![r].log = Log(r, [body EXCEPT !.kind = kind])]

Miss(r, p) ==
  [req EXCEPT ![r].at = "upstream",
     ![r].scopes[req[r].i] = Target(r).scope,
     ![r].pending[req[r].i] = p]

SimpleLookup(r) ==
  /\ req[r].at = "lookup" /\ req[r].prof.mode = "simple"
  /\ LET k == Key(r, req[r].i) IN
     \/ /\ ~req[r].prof.refresh /\ Held(k)
        /\ \E kind \in HitKinds : req' = Hit(r, "HIT", SimpleEntry(k).body, kind)
        /\ simple' = AfterGet(k)
     \/ /\ ~req[r].prof.refresh /\ ~Held(k)
        /\ req' = Miss(r, None)
        /\ simple' = AfterGet(k)
     \/ /\ req[r].prof.refresh
        /\ req' = Miss(r, None)
        /\ UNCHANGED simple
  /\ UNCHANGED <<now, entries, partitions, totalBytes, seq, begun>>

Ttl(p) == IF p.maxAge > 0 /\ p.maxAge < SemanticTtl THEN p.maxAge ELSE SemanticTtl

Pending(r) ==
  [partition |-> Partition(r), vector |-> req[r].prof.vector,
   expires |-> now + Ttl(req[r].prof)]

\* semanticLookup: a bypass remembers nothing, so nothing is written later.
SemanticLookup(r) ==
  /\ req[r].at = "lookup" /\ req[r].prof.mode = "semantic"
  /\ LET st == Pruned(Partition(r))
         e == Best(st, Partition(r), req[r].prof.vector) IN
     \/ /\ ~Eligible(r)
        /\ req' = Miss(r, None)
        /\ UNCHANGED stores
     \/ /\ Eligible(r) /\ req[r].prof.refresh
        /\ req' = Miss(r, Pending(r))
        /\ UNCHANGED stores
     \/ /\ Eligible(r) /\ ~req[r].prof.refresh /\ e # None
        /\ \E kind \in HitKinds : req' = Hit(r, "SEMANTIC HIT", e.body, kind)
        /\ SetStore(Touched(st, e))
        /\ UNCHANGED <<simple, seq>>
     \/ /\ Eligible(r) /\ ~req[r].prof.refresh /\ e = None
        /\ req' = Miss(r, Pending(r))
        /\ SetStore(st)
        /\ UNCHANGED <<simple, seq>>
  /\ UNCHANGED <<now, begun>>

\* The attempt's answer; a failed one lets the next target be tried.
Answered(r, kind) ==
  /\ req[r].at = "upstream"
  /\ LET answer == [for |-> Question(r), given |-> now, kind |-> kind]
         last == req[r].i = Len(req[r].prof.targets) IN
     req' = [req EXCEPT ![r].log = Log(r, answer),
               ![r].at = IF kind = "error" /\ ~last THEN "lookup" ELSE "writeback",
               ![r].i = IF kind = "error" /\ ~last THEN @ + 1 ELSE @]
  /\ UNCHANGED <<now, stores, begun>>

\* isCacheableResponse, isCompleteResponseBody and isRefusalResponse.
MayStore(answer) == answer.kind = "ok"

\* cacheExpiresAt
ExpiresAt(p) == now + (IF p.maxAge > 0 THEN p.maxAge ELSE DefaultAge)

\* Mutant: the answer is stored for the first attempt.
MutWrittenIndex(r) == 1

\* The index of the attempt written back, and so of its scope and pending
\* lookup.
WrittenIndex(r) == req[r].log.i

\* memoryCache after next().
WriteBack(r) ==
  LET p == req[r].prof  a == req[r].log.answer  i == WrittenIndex(r) IN
  /\ req[r].at = "writeback"
  /\ \/ /\ ~MayStore(a)
        /\ UNCHANGED stores
     \/ /\ MayStore(a) /\ p.mode = "simple"
        /\ simple' = AfterSet([key |-> <<req[r].scopes[i], p.body>>, body |-> a,
                               expires |-> ExpiresAt(p)])
        /\ UNCHANGED <<entries, partitions, totalBytes, seq>>
     \/ /\ MayStore(a) /\ p.mode = "semantic" /\ req[r].pending[i] # None
        /\ LET n == req[r].pending[i] IN
           IF p.size > MaxBytes \/ n.expires <= now THEN UNCHANGED stores
           ELSE /\ seq' = seq + 1
                /\ SetStore(AfterInsert([id |-> seq + 1, partition |-> n.partition,
                              vector |-> n.vector, body |-> a,
                              expires |-> n.expires, bytes |-> p.size]))
                /\ UNCHANGED simple
     \/ /\ MayStore(a) /\ p.mode = "semantic" /\ req[r].pending[i] = None
        /\ UNCHANGED stores
  /\ req' = [req EXCEPT ![r] = IdleReq]
  /\ UNCHANGED <<now, begun>>

Tick ==
  /\ now < MaxTime
  /\ now' = now + 1
  /\ UNCHANGED <<stores, req, begun>>

----------------------------------------------------------------------------
Init ==
  /\ now = 0 /\ begun = 0 /\ seq = 0 /\ totalBytes = 0
  /\ simple = <<>> /\ entries = <<>> /\ partitions = <<>>
  /\ req = [r \in Slots |-> IdleReq]

Kinds == {"ok", "refusal", "incomplete", "error"}

Next ==
  \/ \E r \in Slots, p \in Profiles : Begin(r, p)
  \/ \E r \in Slots : SimpleLookup(r) \/ SemanticLookup(r) \/ WriteBack(r)
  \/ \E r \in Slots, k \in Kinds : Answered(r, k)
  \/ Tick

Spec == Init /\ [][Next]_vars

----------------------------------------------------------------------------
(* Properties.                                                             *)

\* The type invariant of the stores and requests.
TypeOK ==
  /\ now \in 0..MaxTime /\ begun \in 0..MaxRequests /\ seq \in 0..MaxRequests
  /\ Len(simple) <= MaxEntries
  /\ \A i, j \in DOMAIN simple : simple[i].key = simple[j].key => i = j
  /\ \A i \in DOMAIN entries : entries[i].id \in 1..seq
  /\ totalBytes \in Nat
  /\ \A r \in Slots : req[r].at \in {"idle", "lookup", "upstream", "writeback"}

\* The caller scope (computeCacheScope, setCacheScopeForTarget): an answer
\* from either cache was given to the same caller scope for the same request,
\* whatever targets failed in between and whichever request stored it.
ServedInScope ==
  \A r \in Slots :
    req[r].served # None =>
      req[r].served.answer.for.key = Key(r, req[r].i)

\* "Never written: errors, incomplete or streamed responses ... and
\* refusals": what the stores hold was a complete answer, and in the
\* semantic store one that a lookup had allowed, within its lifetime.
StoredAnswers ==
  /\ \A i \in DOMAIN simple :
       simple[i].body.for.key = simple[i].key /\ simple[i].body.kind = "ok"
  /\ \A i \in DOMAIN entries :
       /\ entries[i].body.kind = "ok"
       /\ entries[i].body.for.key = entries[i].partition
       /\ \E p \in Profiles : \E t \in DOMAIN p.targets :
            p.mode = "semantic" /\ p.targets[t].eligible
              /\ <<p.targets[t].scope, p.body>> = entries[i].partition

\* The semantic store's three bounds and its index: the partitions hold
\* exactly the ids of the entries, none is empty, and the bytes are the sum.
IndexMatches ==
  /\ Len(entries) <= MaxEntries /\ totalBytes <= MaxBytes
  /\ totalBytes = FoldLeft(LAMBDA a, e : a + e.bytes, 0, entries)
  /\ \A p \in DOMAIN partitions :
       /\ partitions[p] = {entries[i].id : i \in {j \in DOMAIN entries : entries[j].partition = p}}
       /\ partitions[p] # {} /\ Cardinality(partitions[p]) <= MaxPerPartition
  /\ \A i \in DOMAIN entries : entries[i].partition \in DOMAIN partitions

\* A semantic hit is a live answer to a near question: its lifetime
\* (max_age, at most PS_SEMANTIC_CACHE_TTL_SECONDS) counts from the lookup
\* of the call that got it, and hits do not extend it.
SemanticHitIsLive ==
  \A r \in Slots :
    req[r].served # None /\ req[r].served.by = "SEMANTIC HIT" =>
      /\ Distance(req[r].served.answer.for.vector, req[r].prof.vector) <= Near
      /\ req[r].served.at - req[r].served.answer.given < SemanticTtl
=============================================================================
