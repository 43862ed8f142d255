------------------------------ MODULE TokenCaches ------------------------------
(***************************************************************************)
(* The gateway's in-process caches of upstream access tokens:              *)
(*   "oauth"   utils/oauthClientCredentials.ts, the caller's client        *)
(*             credentials exchanged for a bearer token;                   *)
(*   "aws"     utils/awsOAuthWebIdentity.ts, an "oauth" token exchanged    *)
(*             for role credentials at STS (a cache on top of a cache);    *)
(*   "vendor"  utils/vendorWorkloadIdentity.ts, the operator's identity    *)
(*             token file exchanged at OpenAI or Anthropic;                *)
(*   "gcp"     utils/gcpAmbientAuth.ts, the metadata server's token;       *)
(*   "vertex"  providers/google-vertex-ai/utils.ts, a service account's    *)
(*             signed assertion exchanged at Google.                       *)
(*                                                                         *)
(* Each keeps a map of tokens with an expiry and a map of the exchanges in *)
(* flight, so that concurrent requests share one exchange.  A user is a    *)
(* request, or the exchange of an "aws" request in its role of a caller of *)
(* the "oauth" cache.  A promise is named by the user that started it.     *)
(* A step is what the event loop runs without a break; its micro-tasks are *)
(* steps of their own, and time passes only when none is left.  Time is    *)
(* what is left of a token's and an entry's life.                          *)
(***************************************************************************)
EXTENDS Integers, Sequences, FiniteSets, SequencesExt

CONSTANTS
    Callers,        \* gateway requests in progress
    Settings,       \* [requests, lifetimes]: what a request may ask for, as
                    \* <<kind, credential>>, and the lifetimes a service grants
    MaxEntries,     \* MAX_CACHE_ENTRIES, VERTEX_TOKEN_CACHE_MAX_ENTRIES
    Skew,           \* how early each kind of token is given up
    DefaultLife,    \* lifetime assumed when the answer names none
    Latency,        \* longest time from minting a token to receiving it
    None            \* no token, no lifetime

Kinds == {"oauth", "aws", "vendor", "gcp", "vertex"}

(* A request, and the chain of an "aws" request. *)
Users == Callers \X {"call", "chain"}

VARIABLES
    cfg,        \* the setting of this behaviour
    cache,      \* kind -> entries [key, tok, keep, left], oldest first;
                \* keep: time until the entry expires, left: until the token does
    inflight,   \* exchanges in flight: [kind, key, by]
    user,       \* user -> what it asked for and what it got
    job         \* user -> the exchange it started

vars == <<cfg, cache, inflight, user, job>>

Idle == [pc |-> "idle", kind |-> None, want |-> None, by |-> None,
         tok |-> None, live |-> FALSE]
NoJob == [pc |-> "none", kind |-> None, want |-> None, tries |-> 0,
          via |-> None, viaLive |-> FALSE]

Init ==
    /\ cfg \in Settings
    /\ cache = [k \in Kinds |-> <<>>]
    /\ inflight = {}
    /\ user = [u \in Users |-> Idle]
    /\ job = [u \in Users |-> NoJob]

-----------------------------------------------------------------------------
\* Mutant: the secret is not in the key.
MutKeyOf(kind, want) == IF kind \in {"oauth", "vertex"} THEN <<want[1]>> ELSE want

(* The cache key covers the whole credential, the secret included.         *)
KeyOf(kind, want) == want

LifetimeOf(kind, life) == IF life = None THEN DefaultLife[kind] ELSE life

(* How long after its receipt a token is kept.                             *)
KeptFor(kind, life) ==
    IF kind \in {"gcp", "vertex"}
    THEN IF life > Skew[kind] THEN life - Skew[kind] ELSE 0
    ELSE life - (IF Skew[kind] < life \div 2 THEN Skew[kind] ELSE life \div 2)

(* Where a key is in its cache, which is a Map: at most in one place.      *)
EntriesOf(kind, key) == {i \in DOMAIN cache[kind] : cache[kind][i].key = key}

Without(kind, key) ==
    IF EntriesOf(kind, key) = {} THEN cache[kind]
    ELSE RemoveAt(cache[kind], CHOOSE i \in EntriesOf(kind, key) : TRUE)

(* Makes room for one more entry: the oldest goes first.                   *)
Evicted(kind, entries) ==
    IF kind \in {"oauth", "aws", "vertex"} /\ Len(entries) >= MaxEntries
    THEN Tail(entries)
    ELSE entries

Stored(kind, key, tok, life, left) ==
    LET entry == [key |-> key, tok |-> tok, keep |-> KeptFor(kind, life), left |-> left]
    IN  CASE kind = "gcp"    -> <<entry>>
          [] kind = "vertex" -> IF KeptFor(kind, life) <= 0 THEN cache[kind]
                                ELSE Append(Evicted(kind, Without(kind, key)), entry)
          [] kind = "vendor" -> Append(Without(kind, key), entry)
          [] OTHER           -> Append(Evicted(kind, cache[kind]), entry)

-----------------------------------------------------------------------------
(* A request asks for a token.  It may be refused before any cache is read:*)
(* an option is missing, the token URL is not allowed, the operator has not*)
(* enabled the host's identity.                                            *)
Ask(c) ==
    LET u == <<c, "call">> IN
    /\ user[u].pc \in {"idle", "done"}
    /\ \E r \in cfg.requests :
          user' = [user EXCEPT ![u] = [Idle EXCEPT !.pc = "lookup", !.kind = r[1],
                                                   !.want = r[2]]]
    /\ UNCHANGED <<cfg, cache, inflight, job>>

Refuse(c) ==
    LET u == <<c, "call">> IN
    /\ user[u].pc = "lookup"
    /\ user' = [user EXCEPT ![u].pc = "done"]
    /\ UNCHANGED <<cfg, cache, inflight, job>>

(* A user goes on with a token, or without one.                            *)
Got(w, tok, live) == [user[w] EXCEPT !.pc = "done", !.tok = tok, !.live = live]

(* The first step of an exchange: an "aws" exchange asks the "oauth" cache *)
(* for the token it will trade, the others call their service.             *)
Started(u, kind, want) ==
    IF kind = "aws"
    THEN /\ job' = [job EXCEPT ![u] = [NoJob EXCEPT !.pc = "chain", !.kind = kind,
                                                    !.want = want]]
         /\ user' = [user EXCEPT
                ![u] = [@ EXCEPT !.pc = "waiting", !.by = u],
                ![<<u[1], "chain">>] = [Idle EXCEPT !.pc = "lookup", !.kind = "oauth",
                                                    !.want = SubSeq(want, 1, 2)]]
    ELSE /\ job' = [job EXCEPT ![u] = [NoJob EXCEPT !.pc = "sent", !.kind = kind,
                                                    !.want = want]]
         /\ user' = [user EXCEPT ![u] = [@ EXCEPT !.pc = "waiting", !.by = u]]

(* No usable token: wait for the exchange in flight, or start one.         *)
JoinOrStart(u) ==
    LET kind == user[u].kind
        want == user[u].want
        key  == KeyOf(kind, want)
        running == {f \in inflight : f.kind = kind /\ f.key = key}
    IN  IF running # {}
        THEN /\ \E f \in running :
                   user' = [user EXCEPT ![u] = [@ EXCEPT !.pc = "waiting", !.by = f.by]]
             /\ UNCHANGED <<inflight, job>>
        ELSE /\ Started(u, kind, want)
             /\ inflight' = inflight \cup {[kind |-> kind, key |-> key, by |-> u]}

(* The cache is read.  The Vertex cache is read by an async function, so   *)
(* its caller looks for an exchange in flight one micro-task later.        *)
Look(u) ==
    LET kind == user[u].kind
        key  == KeyOf(kind, user[u].want)
        live == {i \in EntriesOf(kind, key) : cache[kind][i].keep > 0}
    IN  /\ user[u].pc = "lookup" /\ UNCHANGED cfg
        /\ IF live # {}
           THEN /\ \E i \in live :
                      user' = [user EXCEPT ![u] =
                                 Got(u, cache[kind][i].tok, cache[kind][i].left > 0)]
                /\ UNCHANGED <<cache, inflight, job>>
           ELSE /\ cache' = IF kind = "gcp" THEN cache
                            ELSE [cache EXCEPT ![kind] = Without(kind, key)]
                /\ IF kind = "vertex"
                   THEN user' = [user EXCEPT ![u].pc = "join"] /\ UNCHANGED <<inflight, job>>
                   ELSE JoinOrStart(u)

Join(u) ==
    /\ user[u].pc = "join"
    /\ JoinOrStart(u)
    /\ UNCHANGED <<cfg, cache>>

-----------------------------------------------------------------------------
Waiters(u) == {w \in Users : user[w].pc = "waiting" /\ user[w].by = u}

\* Mutant: a failed request stays in flight.
MutForget(u, tok) == IF tok = None THEN inflight ELSE {f \in inflight : f.by # u}

(* finally: the exchange leaves the map whether it succeeded or not.       *)
Forget(u, tok) == {f \in inflight : f.by # u}

(* The promise settles, for everyone who waits for it.                     *)
Settle(u, tok, live) ==
    /\ inflight' = Forget(u, tok)
    /\ user' = [w \in Users |-> IF w \in Waiters(u) THEN Got(w, tok, live) ELSE user[w]]
    /\ job' = [job EXCEPT ![u] = NoJob]

(* The service answers with a token minted at most Latency ago, so the life*)
(* left is what it says less the time under way.  The token is cached, the *)
(* exchange leaves the map and the waiting requests go on: one turn of the *)
(* event loop and its micro-tasks.                                         *)
Answer(u) ==
    /\ job[u].pc = "sent" /\ UNCHANGED cfg
    /\ \E life \in cfg.lifetimes \cup {None}, d \in 0..Latency :
          LET kind == job[u].kind
              l    == LifetimeOf(kind, life)
              tok  == [kind |-> kind, for |-> job[u].want]
          IN  /\ cache' = [cache EXCEPT ![kind] =
                              Stored(kind, KeyOf(kind, job[u].want), tok, l, l - d)]
              /\ Settle(u, tok, l - d > 0)

(* The service refused, could not be reached, or sent no token.            *)
Reject(u) ==
    /\ job[u].pc = "sent"
    /\ Settle(u, None, FALSE)
    /\ UNCHANGED <<cfg, cache>>

(* The Vertex exchange is tried once more after a network error, a 429 or  *)
(* a 5xx; the others are not.                                              *)
TriesLeft(u) == job[u].kind = "vertex" /\ job[u].tries = 0

Retry(u) ==
    /\ job[u].pc = "sent" /\ TriesLeft(u)
    /\ job' = [job EXCEPT ![u].tries = 1 - @]
    /\ UNCHANGED <<cfg, cache, inflight, user>>

(* The "aws" exchange goes on: STS is called with the token, or it fails.  *)
ResumeChain(c) ==
    LET u == <<c, "chain">>  a == <<c, "call">> IN
    /\ user[u].pc = "done" /\ job[a].pc = "chain"
    /\ IF user[u].tok # None
       THEN /\ job' = [job EXCEPT ![a] = [@ EXCEPT !.pc = "sent", !.via = user[u].tok,
                                                   !.viaLive = user[u].live]]
            /\ user' = [user EXCEPT ![u] = Idle]
            /\ UNCHANGED inflight
       ELSE Settle(a, None, FALSE)
    /\ UNCHANGED <<cfg, cache>>

(* Turns of the event loop that are ready; they take no time.              *)
Ready == \E u \in Users : \/ user[u].pc \in {"lookup", "join"}
                          \/ user[u].pc = "done" /\ u[2] = "chain" /\ job[<<u[1], "call">>].pc = "chain"

Less(n) == IF n > 0 THEN n - 1 ELSE 0

Tick ==
    /\ ~Ready
    /\ cache' = [k \in Kinds |-> [i \in DOMAIN cache[k] |->
                   [cache[k][i] EXCEPT !.keep = Less(@), !.left = Less(@)]]]
    /\ UNCHANGED <<cfg, inflight, user, job>>

Next ==
    \/ \E c \in Callers : Ask(c) \/ Refuse(c) \/ ResumeChain(c)
    \/ \E u \in Users : Look(u) \/ Join(u) \/ Answer(u) \/ Reject(u) \/ Retry(u)
    \/ Tick

Spec == Init /\ [][Next]_vars
-----------------------------------------------------------------------------
(* Types of the state. *)
TypeOK ==
    /\ \A u \in Users :
          /\ user[u].pc \in {"idle", "lookup", "join", "waiting", "done"}
          /\ job[u].pc \in {"none", "chain", "sent"}
          /\ job[u].pc = "sent" => (job[u].via # None <=> job[u].kind = "aws")
    /\ \A f \in inflight : f.kind \in Kinds /\ f.by \in Users

Running == {u \in Users : job[u].pc # "none"}

(* Single flight: for one key of one cache at most one exchange is under   *)
(* way, the Vertex lookup in two halves and the chained "aws" exchange     *)
(* included.                                                               *)
OneExchange ==
    \A u, v \in Running :
        /\ job[u].kind = job[v].kind
        /\ KeyOf(job[u].kind, job[u].want) = KeyOf(job[v].kind, job[v].want)
        => u = v

(* Whatever was cached or shared, a request only ever gets a token minted  *)
(* for its own credential, and STS is only shown the "oauth" token of the  *)
(* credential the role was asked with.                                     *)
AnswerIsOwn ==
    /\ \A u \in Users : user[u].tok # None =>
          user[u].tok.kind = user[u].kind /\ user[u].tok.for = user[u].want
    /\ \A u \in Users : job[u].via # None =>
          job[u].via.for = SubSeq(job[u].want, 1, 2)

(* No request is handed a token that has already expired, as long as a     *)
(* token reaches the gateway within Latency of being minted: the skew      *)
(* covers the time under way.  STS is shown a live token too.              *)
AnswerIsLive ==
    /\ \A u \in Users : user[u].tok # None => user[u].live
    /\ \A u \in Users : job[u].via # None => job[u].viaLive

(* A settled exchange, failed or not, is never joined: what the map of     *)
(* exchanges in flight names is still running, so a failure reaches only   *)
(* the requests that were waiting for it and the next one tries again.     *)
FlightsAreRunning == \A f \in inflight : f.by \in Running

(* The caches keyed by what callers send stay within their bound, and hold *)
(* one entry for a key.                                                    *)
CacheIsBounded ==
    /\ \A k \in {"oauth", "aws", "vertex"} : Len(cache[k]) <= MaxEntries
    /\ \A k \in Kinds : \A i, j \in DOMAIN cache[k] :
          cache[k][i].key = cache[k][j].key => i = j
=============================================================================
