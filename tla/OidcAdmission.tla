--------------------------- MODULE OidcAdmission ---------------------------
(***************************************************************************)
(* middlewares/psOidc (index.ts, policy.ts, identity.ts): what becomes of  *)
(* a request whose token is verified: the group policy in force, the       *)
(* group's rate limit, the headers it is rebuilt with, and the check of    *)
(* every target it is then sent to.  Requests overlap wherever the         *)
(* middleware awaits, and the collector may replace the policy meanwhile.  *)
(***************************************************************************)
EXTENDS Integers, Sequences, FiniteSets, SequencesExt, TLC

CONSTANTS
  Requests,      \* requests in flight
  Calls,         \* what a caller may send: subject, groups, provider, headers, realtime
  Targets,       \* the targets a configuration may name
  Policies,      \* policies that PS_OIDC_POLICY or the collector may hold
  ProviderKeys,  \* the providers of PS_OIDC_PROVIDER_KEYS
  MaxBuckets,    \* MAX_BUCKETS
  MaxWindow,     \* bound: minutes
  MaxTries,      \* bound: targets tried per request
  MaxCalls,      \* bound: requests
  None

VARIABLES
  policy,    \* centralAccessPolicy() ?? config.policy
  window,    \* the current minute
  buckets,   \* the rate limit's map, in insertion order
  req,       \* requests: phase, call, identity, outgoing headers
  sent,      \* the last target called: the request's group, the target, the headers
  arrived,   \* requests so far
  ledger,    \* per key: requests admitted in the current minute
  forgotten  \* keys evicted in the current minute

vars == <<policy, window, buckets, req, sent, arrived, ledger, forgotten>>

Idle == [phase |-> "idle", call |-> None, group |-> None, out |-> None, tries |-> 0]

----------------------------------------------------------------------------
(* The policy.                                                             *)

\* matchGroup: the first entry with a value of the groups claim.
MatchGroup(p, groups) ==
  LET hits == {i \in DOMAIN p.groups : p.groups[i].match \cap groups # {}}
  IN  IF hits = {} THEN None ELSE p.groups[CHOOSE i \in hits : \A j \in hits : i <= j]

\* checkTarget, for one model name or none.
CheckTarget(g, provider, model) ==
  /\ g.providers = None \/ provider \in g.providers
  /\ g.models = None \/ model = None \/ model \in g.models

\* targetModels: override_params.model or else the body's model, and Azure's
\* deployment.
TargetModels(t) ==
  {IF t.override # None THEN t.override ELSE t.model,
   IF t.provider = "azure" THEN t.deployment ELSE None} \ {None}

\* oidcTargetDenied, with requireModel.
TargetAllowed(g, t) ==
  \/ g = None
  \/ /\ CheckTarget(g, t.provider, None)
     /\ \A m \in TargetModels(t) : CheckTarget(g, t.provider, m)
     /\ t.needsModel /\ g.models # None => TargetModels(t) # {}

----------------------------------------------------------------------------
(* The rate limit.                                                         *)

Key(g, subject) == IF g.per = "group" THEN <<g.name>> ELSE <<g.name, subject>>

At(bs, key) == SelectInSeq(bs, LAMBDA b : b.key = key)

\* Room for a new bucket: old windows go first, then the oldest tenth.
MakeRoom(bs) ==
  IF Len(bs) < MaxBuckets THEN bs
  ELSE LET live == SelectSeq(bs, LAMBDA b : b.window = window)
       IN  IF Len(live) < MaxBuckets THEN live
           ELSE SubSeq(live, ((MaxBuckets + 9) \div 10) + 1, Len(live))

\* Mutant: room is made before the bucket is looked for, so that it may be its own.
MutWithBucket(bs, key) ==
  LET r == MakeRoom(bs) IN
  IF At(r, key) = 0 THEN Append(r, [key |-> key, window |-> window, count |-> 0])
  ELSE [r EXCEPT ![At(r, key)] = [key |-> key, window |-> window,
                                  count |-> IF @.window = window THEN @.count ELSE 0]]

\* The bucket of this minute for key.
WithBucket(bs, key) ==
  LET i == At(bs, key)
      new == [key |-> key, window |-> window, count |-> 0]
  IN  IF i = 0 THEN Append(MakeRoom(bs), new)
      ELSE IF bs[i].window # window THEN [bs EXCEPT ![i] = new]
      ELSE bs

\* takeRateLimit, which is called once per admission.
TakeRateLimit(g, subject, admit, refuse) ==
  LET key == Key(g, subject)
      bs == WithBucket(buckets, key)
      i == At(bs, key)
      gone == {buckets[j].key : j \in DOMAIN buckets} \ {bs[j].key : j \in DOMAIN bs}
  IN  /\ forgotten' = forgotten \cup {k \in gone : k \in DOMAIN ledger}
      /\ IF bs[i].count >= g.limit
         THEN buckets' = bs /\ UNCHANGED ledger /\ refuse
         ELSE /\ buckets' = [bs EXCEPT ![i].count = @ + 1]
              /\ ledger' = (key :> (IF key \in DOMAIN ledger THEN ledger[key] + 1 ELSE 1)) @@ ledger
              /\ admit

----------------------------------------------------------------------------
(* psOidc.                                                                 *)

Refuse(r) == req' = [req EXCEPT ![r] = [Idle EXCEPT !.phase = "refused", !.call = req[r].call]]

\* verifyToken is awaited (OidcKeys); Admit follows its good
\* outcome.
Arrive(r, c) ==
  /\ req[r].phase = "idle" /\ arrived < MaxCalls
  /\ arrived' = arrived + 1
  /\ req' = [req EXCEPT ![r] = [Idle EXCEPT !.phase = "verified", !.call = c]]
  /\ UNCHANGED <<policy, window, buckets, sent, ledger, forgotten>>

\* 401 or 503 of a missing or bad token.
Unauthorised(r) ==
  /\ req[r].phase = "verified"
  /\ Refuse(r)
  /\ UNCHANGED <<policy, window, buckets, sent, arrived, ledger, forgotten>>

\* gatewayKeyAllowed: no header that can move the upstream host.
GatewayKeyAllowed(c) == c.headers \cap {"config", "custom host", "url"} = {}

\* The request that goes on: without the caller's token or x-ps-auth-*.
Rebuilt(c, g) ==
  [authorization |-> IF c.provider \in ProviderKeys /\ GatewayKeyAllowed(c)
                     THEN "gateway key" ELSE None,
   subject |-> c.subject, group |-> IF g = None THEN None ELSE g.name,
   moved |-> ~GatewayKeyAllowed(c)]

\* What follows the awaits, up to next().
Admit(r) ==
  LET c == req[r].call
      g == MatchGroup(policy, c.groups)
      enter == req' = [req EXCEPT ![r].phase = "routed", ![r].group = g, ![r].out = Rebuilt(c, g)]
      unlimited == UNCHANGED <<buckets, ledger, forgotten>>
  IN  /\ req[r].phase = "verified"
      /\ UNCHANGED <<policy, window, sent, arrived>>
      /\ CASE g = None /\ policy.default = "deny" -> Refuse(r) /\ unlimited
           [] c.realtime # None /\ ~TargetAllowed(g, c.realtime) -> Refuse(r) /\ unlimited
           [] g = None -> enter /\ unlimited
           [] g # None /\ g.limit = None -> enter /\ unlimited
           [] OTHER -> TakeRateLimit(g, c.subject, enter, Refuse(r))

\* tryPost on a target: the request's own group, whatever the policy is now.
TryTarget(r, t) ==
  /\ req[r].phase = "routed" /\ req[r].tries < MaxTries
  /\ req' = [req EXCEPT ![r].tries = @ + 1]
  /\ sent' = IF TargetAllowed(req[r].group, t)
             THEN [group |-> req[r].group, target |-> t, out |-> req[r].out]
             ELSE sent
  /\ UNCHANGED <<policy, window, buckets, arrived, ledger, forgotten>>

Answered(r) ==
  /\ req[r].phase \in {"refused", "routed"}
  /\ req' = [req EXCEPT ![r] = Idle]
  /\ UNCHANGED <<policy, window, buckets, sent, arrived, ledger, forgotten>>

----------------------------------------------------------------------------
\* A central policy arrives or goes.
ReplacePolicy(p) ==
  /\ p # policy
  /\ policy' = p
  /\ UNCHANGED <<window, buckets, req, sent, arrived, ledger, forgotten>>

Tick ==
  /\ window < MaxWindow
  /\ window' = window + 1
  /\ ledger' = <<>> /\ forgotten' = {}
  /\ UNCHANGED <<policy, buckets, req, sent, arrived>>

Init ==
  /\ policy \in Policies
  /\ window = 0 /\ buckets = <<>> /\ ledger = <<>> /\ forgotten = {}
  /\ req = [r \in Requests |-> Idle]
  /\ sent = None /\ arrived = 0

Next ==
  \/ \E r \in Requests :
       \/ \E c \in Calls : Arrive(r, c)
       \/ Unauthorised(r) \/ Admit(r) \/ Answered(r)
       \/ \E t \in Targets : TryTarget(r, t)
  \/ \E p \in Policies : ReplacePolicy(p)
  \/ Tick

Spec == Init /\ [][Next]_vars

----------------------------------------------------------------------------
(* Properties.                                                             *)

\* The type invariant; the map has one bucket per key and never exceeds its
\* limit (takeRateLimit).
TypeOK ==
  /\ policy \in Policies /\ window \in 0..MaxWindow
  /\ \A r \in Requests :
       /\ req[r].phase \in {"idle", "verified", "routed", "refused"}
       /\ req[r].phase = "idle" <=> req[r].call = None
  /\ Len(buckets) <= MaxBuckets
  /\ \A i, j \in DOMAIN buckets : buckets[i].key = buckets[j].key => i = j

\* takeRateLimit: while a key keeps its bucket, the bucket knows every
\* request admitted under it in this minute.
BucketsCount ==
  \A k \in DOMAIN ledger \ forgotten :
    \E i \in DOMAIN buckets : /\ buckets[i].key = k
                              /\ buckets[i].window = window /\ buckets[i].count = ledger[k]

\* No request is admitted over its group's limit, as that limit is when it
\* is admitted, unless its count had to be forgotten.
AdmittedWithinLimit ==
  \A r \in Requests :
    LET g == req'[r].group IN
    req[r].phase = "verified" /\ req'[r].phase = "routed" /\ g # None =>
      LET k == Key(g, req[r].call.subject) IN
      g.limit # None /\ k \notin forgotten => ledger'[k] <= g.limit

\* The model that runs at a target: Azure runs the deployment, others the
\* override, the body's model or, without one, their default.
Runs(t) ==
  IF t.provider = "azure" /\ t.deployment # None THEN t.deployment
  ELSE IF t.override # None THEN t.override ELSE IF t.model # None THEN t.model ELSE "default"

\* A target is only called with a provider and a model that the group which
\* the request was admitted under allows.
OnlyAllowedTargets ==
  sent # None /\ sent.group # None =>
    /\ sent.group.providers # None => sent.target.provider \in sent.group.providers
    /\ sent.group.models # None /\ sent.target.needsModel => Runs(sent.target) \in sent.group.models

\* No upstream call carries the caller's token, and none whose host the
\* caller can choose carries the gateway's key.
CredentialsStayApart ==
  sent # None => /\ sent.out.authorization # "idp token"
                 /\ sent.out.moved => sent.out.authorization = None
=============================================================================
