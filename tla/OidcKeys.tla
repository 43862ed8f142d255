----------------------------- MODULE OidcKeys -----------------------------
(***************************************************************************)
(* The signing keys the gateway verifies identity provider tokens with     *)
(* (middlewares/psOidc/jwks.ts): JwksSource caches one key set, refreshes  *)
(* it when it expires or when a token names an unknown key, shares a       *)
(* running refresh between the requests that wait for it and starts none   *)
(* within the cooldown of the last.  The identity provider rotates its     *)
(* keys, moves its JWKS document and fails.                                *)
(*                                                                         *)
(* What runs between two real waits (a fetch) is one action: jose finds    *)
(* that no key matches without leaving the microtask queue, so no other    *)
(* request and no answer comes between a lookup and what follows from it.  *)
(***************************************************************************)
EXTENDS Integers, FiniteSets

CONSTANTS
  Kids,          \* key ids
  Requests,      \* requests in flight
  Configured,    \* PS_OIDC_JWKS_URL is set: no discovery
  Uris,          \* places the JWKS document may be
  TTLs,          \* key set lifetimes (clamped max-age)
  Cooldown,      \* REFRESH_COOLDOWN_MS
  FetchTimeout,  \* FETCH_TIMEOUT_MS
  MaxTime,       \* bound: the clock
  MaxRotations,  \* bound: changes at the identity provider
  None

VARIABLES
  now,
  idp,          \* the provider: its keys, since when each is published, the JWKS uri
  rotations,
  keys,         \* this.keys: the set and the number of the fetch that made it
  expiresAt,
  lastAttempt,  \* None before the first
  jwksUri,
  lastError,
  inflight,     \* the running refresh: its fetch, its deadline and what it holds
  fetches,      \* fetches started so far
  request       \* the requests

source == <<keys, expiresAt, lastAttempt, jwksUri, lastError, inflight, fetches>>
vars == <<now, idp, rotations, source, request>>

----------------------------------------------------------------------------
NotRunning == [at |-> "none", deadline |-> 0, doc |-> None]

IdleRequest == [at |-> "idle", kid |-> None, before |-> 0]

CoolingDown == lastAttempt # None /\ now - lastAttempt < Cooldown

StartRefresh ==
  /\ lastAttempt' = now
  /\ inflight' = [at |-> IF jwksUri = None THEN "discovery" ELSE "jwks",
                  deadline |-> now + FetchTimeout, doc |-> None]
  /\ fetches' = fetches + 1
  /\ UNCHANGED <<keys, expiresAt, jwksUri, lastError>>

\* refresh(): join the running one, or do nothing, or start one.
Joins == inflight.at # "none"
NeedsNoWait == ~Joins /\ CoolingDown
RefreshStep == IF Joins THEN UNCHANGED source ELSE StartRefresh

Fresh == keys # None /\ now < expiresAt

Answer(r, k, result) ==
  request' = [request EXCEPT ![r] = [at |-> result, kid |-> k, before |-> 0]]

\* refreshForUnknownKey compares the key set object with the one before.
Changed(r) == keys.serial # request[r].before

\* jwtVerify against the current set, then, for an unknown key, a refresh
\* (rate-limited) and a second try.
Verify(r, k) ==
  \/ /\ k \in keys.set
     /\ Answer(r, k, "verified")
     /\ UNCHANGED source
  \/ /\ k \notin keys.set /\ NeedsNoWait
     /\ Answer(r, k, "unknown_key")
     /\ UNCHANGED source
  \/ /\ k \notin keys.set /\ ~NeedsNoWait
     /\ request' = [request EXCEPT ![r] = [at |-> "retry", kid |-> k, before |-> keys.serial]]
     /\ RefreshStep

----------------------------------------------------------------------------
(* verifyToken: a disallowed algorithm is refused before any key lookup;   *)
(* resolver() refreshes a missing or expired set first.                    *)

RefuseAlg(r) ==
  /\ request[r].at = "idle"
  /\ Answer(r, None, "disallowed_alg")
  /\ UNCHANGED <<now, idp, rotations, source>>

Lookup(r, k) ==
  /\ request[r].at = "idle"
  /\ \/ Fresh /\ Verify(r, k)
     \/ /\ ~Fresh /\ ~NeedsNoWait
        /\ request' = [request EXCEPT ![r] = [at |-> "wait", kid |-> k, before |-> 0]]
        /\ RefreshStep
     \/ ~Fresh /\ NeedsNoWait /\ keys # None /\ Verify(r, k)
     \/ /\ ~Fresh /\ NeedsNoWait /\ keys = None
        /\ Answer(r, k, "jwks_unavailable")
        /\ UNCHANGED source
  /\ UNCHANGED <<now, idp, rotations>>

\* The refresh a request waited for has ended.
Resume(r) ==
  /\ request[r].at = "wait" /\ inflight.at = "none"
  /\ IF keys = None THEN Answer(r, request[r].kid, "jwks_unavailable") /\ UNCHANGED source
                    ELSE Verify(r, request[r].kid)
  /\ UNCHANGED <<now, idp, rotations>>

Retry(r) ==
  /\ request[r].at = "retry" /\ inflight.at = "none"
  /\ Answer(r, request[r].kid,
               IF Changed(r) /\ request[r].kid \in keys.set
               THEN "verified" ELSE "unknown_key")
  /\ UNCHANGED <<now, idp, rotations, source>>

\* The answer is sent; the slot serves the next request.
Done(r) ==
  /\ request[r].at \notin {"idle", "wait", "retry"}
  /\ request' = [request EXCEPT ![r] = IdleRequest]
  /\ UNCHANGED <<now, idp, rotations, source>>

----------------------------------------------------------------------------
(* The fetches of a refresh: the discovery document when the JWKS uri is   *)
(* not known, then the JWKS.                                               *)

Discovered ==
  /\ inflight.at = "discovery"
  /\ jwksUri' = idp.uri
  /\ inflight' = [inflight EXCEPT !.at = "jwks", !.deadline = now + FetchTimeout]
  /\ UNCHANGED <<now, idp, rotations, request, keys, expiresAt, lastAttempt, lastError, fetches>>

\* The JWKS answers from where it is now, with the keys it publishes now.
JwksServed ==
  /\ inflight.at = "jwks" /\ jwksUri = idp.uri /\ idp.keys # {}
  /\ inflight' = [inflight EXCEPT !.at = "body", !.doc = idp.keys]
  /\ UNCHANGED <<now, idp, rotations, request, keys, expiresAt, lastAttempt, jwksUri, lastError, fetches>>

RefreshSucceeds(ttl) ==
  /\ inflight.at = "body"
  /\ keys' = [set |-> inflight.doc, serial |-> fetches]
  /\ expiresAt' = now + ttl
  /\ lastError' = FALSE
  /\ inflight' = NotRunning
  /\ UNCHANGED <<now, idp, rotations, request, lastAttempt, jwksUri, fetches>>

\* A failed fetch, a timeout, a document that is no JWKS, a key set with no
\* usable key, a uri that no longer answers.
ForgetUri == IF Configured THEN jwksUri ELSE None
RefreshFails ==
  /\ inflight.at # "none"
  /\ lastError' = TRUE
  /\ jwksUri' = ForgetUri
  /\ inflight' = NotRunning
  /\ UNCHANGED <<now, idp, rotations, request, keys, expiresAt, lastAttempt, fetches>>

----------------------------------------------------------------------------
(* The identity provider: a key set that is replaced, a document that      *)
(* moves.  idp.since[k] is when k was last published.                      *)

Rotate ==
  /\ rotations < MaxRotations
  /\ \E ks \in (SUBSET Kids) \ {idp.keys} :
       idp' = [idp EXCEPT !.keys = ks,
                 !.since = [k \in Kids |-> IF k \in ks \ idp.keys THEN now ELSE @[k]]]
  /\ rotations' = rotations + 1
  /\ UNCHANGED <<now, source, request>>

Move ==
  /\ rotations < MaxRotations
  /\ ~Configured
  /\ \E u \in Uris \ {idp.uri} : idp' = [idp EXCEPT !.uri = u]
  /\ rotations' = rotations + 1
  /\ UNCHANGED <<now, source, request>>

\* AbortSignal.timeout ends a fetch by its deadline, and what a finished
\* refresh resumes runs before the clock moves.
Tick ==
  /\ now < MaxTime
  /\ inflight.at # "none" => now < inflight.deadline
  /\ inflight.at = "none" => \A r \in Requests : request[r].at \notin {"wait", "retry"}
  /\ now' = now + 1
  /\ UNCHANGED <<idp, rotations, source, request>>

----------------------------------------------------------------------------
Init ==
  /\ now = 0 /\ rotations = 0 /\ fetches = 0
  /\ \E ks \in (SUBSET Kids) \ {{}}, u \in Uris :
       /\ idp = [keys |-> ks, since |-> [k \in Kids |-> 0], uri |-> u]
       /\ jwksUri = IF Configured THEN u ELSE None
  /\ keys = None /\ expiresAt = 0 /\ lastAttempt = None /\ lastError = FALSE
  /\ inflight = NotRunning
  /\ request = [r \in Requests |-> IdleRequest]

Next ==
  \/ \E r \in Requests : RefuseAlg(r) \/ Resume(r) \/ Retry(r) \/ Done(r)
  \/ \E r \in Requests, k \in Kids : Lookup(r, k)
  \/ \E ttl \in TTLs : RefreshSucceeds(ttl)
  \/ Discovered \/ JwksServed \/ RefreshFails
  \/ Rotate \/ Move \/ Tick

Spec == Init /\ [][Next]_vars

----------------------------------------------------------------------------
(* Properties.                                                             *)

Results == {"verified", "unknown_key", "jwks_unavailable", "disallowed_alg"}

\* The type invariant of the key source and its requests.
TypeOK ==
  /\ now \in 0..MaxTime /\ rotations \in 0..MaxRotations
  /\ idp.keys \subseteq Kids /\ idp.uri \in Uris
  /\ keys = None \/ (keys.set \in (SUBSET Kids) \ {{}} /\ keys.serial \in 1..fetches)
  /\ lastAttempt = None \/ lastAttempt \in 0..now
  /\ jwksUri \in Uris \cup {None} /\ lastError \in BOOLEAN
  /\ inflight.at \in {"none", "discovery", "jwks", "body"}
  /\ inflight.at = "jwks" => jwksUri # None
  /\ \A r \in Requests : request[r].at \in Results \cup {"idle", "wait", "retry"}

\* "refreshes for any reason happen at most once per REFRESH_COOLDOWN_MS":
\* whatever the tokens, the requests and the failures, the identity provider
\* sees at most one refresh per cooldown.
IdpIsSpared == fetches <= (now \div Cooldown) + 1

\* A token is verified with keys past their lifetime only while a refresh
\* that failed is less than a cooldown old ("When a refresh fails, the
\* previous keys keep being used").
VerifiedByLiveKeys ==
  \A r \in Requests :
    request[r].at # "verified" /\ request'[r].at = "verified" =>
      \/ now < expiresAt
      \/ lastError /\ CoolingDown

\* Key rotation: a token is refused for an unknown key that the provider
\* publishes only within a cooldown of its publication, or while the last
\* refresh failed.
RefusedForARecentKey ==
  \A r \in Requests :
    /\ request[r].at # "unknown_key" /\ request'[r].at = "unknown_key"
    /\ request'[r].kid \in idp.keys
    => lastError \/ now - idp.since[request'[r].kid] < Cooldown

=============================================================================
