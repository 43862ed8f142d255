---------------------------- MODULE AwsCredentials ----------------------------
(***************************************************************************)
(* How the gateway resolves the AWS credentials it signs with              *)
(* (providers/bedrock/utils.ts, utils/awsAuth.ts): the operator's own      *)
(* assume-role keys, optionally through a source role; otherwise, if the   *)
(* operator allows it, the host's identity from the first of seven sources *)
(* that has one; then an AssumeRole call when the caller named a role.     *)
(* Fetched credentials are cached for CREDENTIAL_CACHE_TTL                 *)
(* (services/cache/cacheService.ts), the two credential files for good.    *)
(*                                                                         *)
(* A credential is [as, by, role]: the identity it is, the identity that   *)
(* signed the call that minted it, and the role it carries.  A step is     *)
(* what runs between two awaits.  Time is what is left of a life.          *)
(***************************************************************************)
EXTENDS Integers, Sequences, FiniteSets, SequencesExt

CONSTANTS
    Callers,        \* requests that need AWS credentials
    Roles,          \* role ARNs a caller may name
    HostRole,       \* the role the host's own identity carries
    SourceRole,     \* AWS_ASSUME_ROLE_SOURCE_ARN
    HostSources,    \* sets of ambient sources a host may be configured with
    Ttl,            \* CREDENTIAL_CACHE_TTL
    Life,           \* least life left of a credential a service hands out
    MaxEntries,     \* MAX_ENTRIES of the request cache
    None

(* The order in which the host's identity is looked for. *)
AmbientSources == <<"env", "shared", "config", "irsa", "pod", "ecs", "imds">>
Files == {"shared", "config"}
Services == {"irsa", "pod", "ecs", "imds"}

VARIABLES
    config,     \* the operator's settings
    fileCache,  \* AWS_SHARED_CREDENTIALS, AWS_CONFIG_CREDENTIALS
    store,      \* the request cache: entries [key, cred, keep, left], oldest first
    caller      \* caller -> the resolution it is in

vars == <<config, fileCache, store, caller>>

Idle == [pc |-> "idle", auth |-> None, role |-> None, at |-> 0, stage |-> None,
         key |-> None, out |-> None, live |-> TRUE]

Cred(as, by, role) == [as |-> as, by |-> by, role |-> role]
DirectKeys == Cred("direct", "direct", None)

(* Keys from the environment or a file carry the role configured beside    *)
(* them, if any.                                                           *)
StaticKeys(s) == Cred(s, s, IF config.labelled THEN HostRole ELSE None)

Init ==
    /\ config \in [ambient : BOOLEAN, direct : BOOLEAN, source : BOOLEAN,
                   labelled : BOOLEAN, host : HostSources]
    /\ fileCache = [f \in Files |-> "unread"]
    /\ store = <<>>
    /\ caller = [c \in Callers |-> Idle]

-----------------------------------------------------------------------------
(* The store has at most one entry of a key. *)
Hits(key) == {i \in DOMAIN store : store[i].key = key /\ store[i].keep > 0}
Expired(key) == {i \in DOMAIN store : store[i].key = key /\ store[i].keep = 0}
Entry(key) == store[CHOOSE i \in Hits(key) : TRUE]

(* requestCache.get drops an entry it finds expired. *)
AfterGet(key) == IF Expired(key) = {} THEN store
                 ELSE RemoveAt(store, CHOOSE i \in Expired(key) : TRUE)

Kept == Ttl

AfterSet(key, cred) ==
    LET room == IF Len(store) >= MaxEntries THEN Tail(store) ELSE store
        entry == [key |-> key, cred |-> cred, keep |-> Kept, left |-> Life]
        at == {i \in DOMAIN room : room[i].key = key}
    IN  IF at = {} THEN Append(room, entry)
        ELSE [i \in DOMAIN room |-> IF i \in at THEN entry ELSE room[i]]

Done(c, cred, live) ==
    [caller EXCEPT ![c] = [Idle EXCEPT !.pc = "done", !.auth = caller[c].auth,
                                       !.role = caller[c].role, !.out = cred, !.live = live]]

-----------------------------------------------------------------------------
(* providerAssumedRoleCredentials: an assumed role must be named, and the  *)
(* host's identity must have been enabled.  "none" is no role.             *)
Ask(c) ==
    /\ caller[c].pc \in {"idle", "done"}
    /\ \E auth \in {"assumedRole", "serviceRole"} :
       \E role \in IF auth = "assumedRole" THEN Roles \cup {None} ELSE {None} :
          LET asked == [Idle EXCEPT !.auth = auth, !.role = role] IN
          caller' = [caller EXCEPT ![c] =
              IF \/ auth = "assumedRole" /\ role = None
                 \/ auth = "serviceRole" /\ ~config.ambient
              THEN [asked EXCEPT !.pc = "done"]
              ELSE [asked EXCEPT !.pc = "source"]]
    /\ UNCHANGED <<config, fileCache, store>>

(* A role is needed: its credentials are looked up in the cache.           *)
SeekRole(c, stage, key) ==
    [caller EXCEPT ![c].pc = "sts", ![c].stage = stage, ![c].key = key]

(* The host's identity is used only when the operator opted in.            *)
NeedsConsent(c) == ~config.ambient

(* With the keys found so far: the role is assumed with them, they are     *)
(* handed out as they are, or the host's identity is looked for.           *)
WithKeys(c, key) ==
    IF key # None
    THEN IF caller[c].role # None THEN SeekRole(c, "target", key) ELSE Done(c, key, TRUE)
    ELSE IF NeedsConsent(c) THEN Done(c, None, TRUE)
    ELSE [caller EXCEPT ![c].pc = "ambient", ![c].at = 1]

(* The direct keys, tried whenever the source role yielded nothing.        *)
Direct == IF config.direct THEN DirectKeys ELSE None

(* getSourceRoleCredentials: only when everything it needs is configured.  *)
SourceStep(c) ==
    /\ caller[c].pc = "source"
    /\ caller' = IF config.source /\ config.direct
                 THEN SeekRole(c, "source", DirectKeys)
                 ELSE WithKeys(c, Direct)
    /\ UNCHANGED <<config, fileCache, store>>

\* Mutant: one cache entry for all roles.
MutStsKey(c) == "sts"

(* The key of an AssumeRole result names the role, not who assumed it.     *)
StsKey(c) == IF caller[c].stage = "source" THEN SourceRole ELSE caller[c].role

(* What follows an AssumeRole result, or its absence.                      *)
AfterSts(c, cred, live) ==
    IF caller[c].stage = "target" THEN Done(c, cred, live)
    ELSE WithKeys(c, IF cred # None THEN cred ELSE Direct)

StsLook(c) ==
    LET hit == Entry(StsKey(c)) IN
    /\ caller[c].pc = "sts"
    /\ store' = AfterGet(StsKey(c))
    /\ caller' = IF Hits(StsKey(c)) # {} THEN AfterSts(c, hit.cred, hit.left > 0)
                 ELSE [caller EXCEPT ![c].pc = "assuming"]
    /\ UNCHANGED <<config, fileCache>>

(* STS grants the role to whoever signed the call; a refusal, an           *)
(* unreachable service and a call without keys are all null.               *)
StsAnswer(c) ==
    /\ caller[c].pc = "assuming" /\ caller[c].key # None
    /\ LET role == IF caller[c].stage = "source" THEN SourceRole ELSE caller[c].role
           cred == Cred("sts", caller[c].key.as, role)
       IN  /\ store' = AfterSet(StsKey(c), cred)
           /\ caller' = AfterSts(c, cred, TRUE)
    /\ UNCHANGED <<config, fileCache>>

StsRefuse(c) ==
    /\ caller[c].pc = "assuming"
    /\ caller' = AfterSts(c, None, TRUE)
    /\ UNCHANGED <<config, fileCache, store>>

-----------------------------------------------------------------------------
(* The host's identity was found, or no source has one: it is the answer   *)
(* if no other role was asked for, and otherwise assumes that role.        *)
Found(c, cred, live) ==
    IF caller[c].role = None \/ (cred # None /\ cred.role = caller[c].role)
    THEN Done(c, cred, live)
    ELSE SeekRole(c, "target", cred)

NextSource(c) ==
    IF caller[c].at < Len(AmbientSources)
    THEN [caller EXCEPT ![c].pc = "ambient", ![c].at = @ + 1]
    ELSE Found(c, None, TRUE)

Source(c) == AmbientSources[caller[c].at]

(* A source that is not configured, an environment variable, a file already*)
(* read, or a service whose credentials are cached.                        *)
AmbientLook(c) ==
    LET s == Source(c)  hit == Entry(s)  served == s \in Services \cap config.host IN
    /\ caller[c].pc = "ambient"
    /\ store' = IF served THEN AfterGet(s) ELSE store
    /\ caller' =
         CASE (s \in Files /\ fileCache[s] = "unread") \/ (served /\ Hits(s) = {}) ->
                  [caller EXCEPT ![c].pc = "fetching"]
           [] (s \in Files /\ fileCache[s] = "cred") \/ (s = "env" /\ s \in config.host) ->
                  Found(c, StaticKeys(s), TRUE)
           [] served /\ Hits(s) # {} -> Found(c, hit.cred, hit.left > 0)
           [] OTHER -> NextSource(c)
    /\ UNCHANGED <<config, fileCache>>

(* The file is read once: what the first read finds, a missing or broken   *)
(* file included, is kept for the life of the process.                     *)
ReadFile(c) ==
    LET s == Source(c)  there == s \in config.host IN
    /\ caller[c].pc = "fetching" /\ s \in Files
    /\ fileCache' = [fileCache EXCEPT ![s] = IF there THEN "cred" ELSE "none"]
    /\ caller' = IF there THEN Found(c, StaticKeys(s), TRUE) ELSE NextSource(c)
    /\ UNCHANGED <<config, store>>

(* A service hands out the host role's credentials, which are cached.      *)
FetchAmbient(c) ==
    LET s == Source(c)  cred == Cred(s, s, HostRole) IN
    /\ caller[c].pc = "fetching" /\ s \in Services
    /\ store' = AfterSet(s, cred)
    /\ caller' = Found(c, cred, TRUE)
    /\ UNCHANGED <<config, fileCache>>

(* Its failure, an exception included, moves on to the next source.        *)
FetchFails(c) ==
    /\ caller[c].pc = "fetching" /\ Source(c) \in Services
    /\ caller' = NextSource(c)
    /\ UNCHANGED <<config, fileCache, store>>

Less(n) == IF n > 0 THEN n - 1 ELSE 0

Tick ==
    /\ \A c \in Callers : caller[c].pc \notin {"source", "sts", "ambient"}
    /\ store' = [i \in DOMAIN store |-> [store[i] EXCEPT !.keep = Less(@), !.left = Less(@)]]
    /\ UNCHANGED <<config, fileCache, caller>>

Next ==
    \/ \E c \in Callers :
          \/ Ask(c) \/ SourceStep(c) \/ StsLook(c) \/ StsAnswer(c) \/ StsRefuse(c)
          \/ AmbientLook(c) \/ ReadFile(c) \/ FetchAmbient(c) \/ FetchFails(c)
    \/ Tick

Spec == Init /\ [][Next]_vars

-----------------------------------------------------------------------------
(* Types of the state. *)
TypeOK ==
    /\ \A c \in Callers :
          /\ caller[c].pc \in {"idle", "source", "sts", "assuming", "ambient",
                               "fetching", "done"}
          /\ caller[c].pc = "sts" => caller[c].stage \in {"source", "target"}
          /\ caller[c].pc \in {"ambient", "fetching"} => caller[c].at \in DOMAIN AmbientSources
    /\ Len(store) <= MaxEntries

Ambient == {AmbientSources[i] : i \in DOMAIN AmbientSources}

(* Without AWS_AMBIENT_CREDENTIALS_ENABLED no answer is the host's own     *)
(* identity or was minted by it, however the role came to be cached.       *)
AmbientNeedsConsent ==
    \A c \in Callers : caller[c].out # None =>
        (caller[c].out.by \in Ambient => config.ambient)

(* A caller that named a role signs as that role or not at all: never as   *)
(* the operator's keys, the source role, or a role another caller asked for*)
(* and left in the cache.                                                  *)
RoleIsTheOneAsked ==
    \A c \in Callers : caller[c].out # None =>
        IF caller[c].role # None THEN caller[c].out.role = caller[c].role
        ELSE caller[c].auth = "serviceRole"

(* The cache never hands out credentials that have expired, given that the *)
(* services hand out credentials that outlive CREDENTIAL_CACHE_TTL.        *)
CredentialsAreLive == \A c \in Callers : caller[c].live
=============================================================================
