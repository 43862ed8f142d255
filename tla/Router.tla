------------------------------- MODULE Router -------------------------------
(***************************************************************************)
(* The gateway's cost router and its data policy gate                      *)
(* (gateway/src/middlewares/router).  A call captures the route policy     *)
(* that is active when it arrives; the router may replace the model, the   *)
(* targets of the call's config may replace it again, and the gate checks  *)
(* every target against the captured policy.  Meanwhile the policy can be  *)
(* replaced.  Costs are in units, a level, a model or a group is a name.   *)
(***************************************************************************)
EXTENDS Integers, Sequences, SequencesExt, FiniteSets

CONSTANTS Policies,      \* the route policies that can be active
          Requests,      \* what clients send
          Targets,       \* the lists of targets configs name, each a sequence
          Customs,       \* what a custom strategy may answer; {} is the heuristic
          None

VARIABLES active,        \* the route policy provide() returns, None before one is loaded
          call,          \* the call in flight
          sent           \* the calls sent upstream for it

vars == << active, call, sent >>

Own(f, k) == IF k \in DOMAIN f THEN f[k] ELSE None
\* indexOf, with 0 for a name that is not listed.
Rank(s, x) == SelectInSeq(s, LAMBDA y : y = x)

-----------------------------------------------------------------------------
(* constraints.ts: the level of a call and what a level demands of a tier. *)

\* The declared level if it is known, raised by what was found in the text.
ClassifySensitivity(p, declared, pii) ==
  IF p.sensitivity = None THEN declared
  ELSE LET sens == p.sensitivity
           base == IF declared # None /\ Rank(sens.levels, declared) > 0 THEN declared ELSE sens.unclassified
           Step(level, category) ==
             LET to == Own(sens.escalation, category)
             IN IF to # None /\ Rank(sens.levels, to) > Rank(sens.levels, level) THEN to ELSE level
       IN FoldLeft(Step, base, pii)

DataPolicyRule(p, level) ==
  IF p.dataPolicy = None \/ level = None THEN None ELSE Own(p.dataPolicy, level)

EEACountries == {"DE", "FR", "SE"}
JurisdictionAllowed(j, allowed) ==
  \/ "any" \in allowed
  \/ j # None /\ (j \in allowed \/ ("EEA" \in allowed /\ j \in EEACountries))

\* A missing fact fails closed.
TierComplies(tier, rule) ==
  \/ rule = None
  \/ /\ JurisdictionAllowed(tier.jurisdiction, rule.jurisdictions)
     /\ rule.providers # None => tier.provider # None /\ tier.provider \in rule.providers
     /\ rule.requireZdr => tier.zdr = TRUE
     /\ rule.cloudAct = FALSE => tier.exposed = FALSE

AllTiers(p) == FlattenSeq([i \in DOMAIN p.names |-> p.groups[p.names[i]]])
GroupTiers(p, g) == IF g \in DOMAIN p.groups THEN p.groups[g] ELSE << >>
NoFacts(m) == [model |-> m, group |-> None, in |-> 0, out |-> 0, provider |-> None,
               jurisdiction |-> None, zdr |-> None, exposed |-> None]

\* psServedTarget.ts: a tier that names a provider vouches for it alone, at its own host.
TierServesTarget(tier, provider, customHost) ==
  \/ tier.provider = None \/ provider = None
  \/ tier.provider = provider /\ ~customHost

ModelComplies(p, m, rule, provider, customHost) ==
  LET tiers == {t \in Range(AllTiers(p)) : t.model = m /\ TierServesTarget(t, provider, customHost)}
  IN \/ rule = None
     \/ IF tiers = {} THEN TierComplies(NoFacts(m), rule) ELSE \E t \in tiers : TierComplies(t, rule)

-----------------------------------------------------------------------------
(* policy.ts and heuristic.ts: costs, and the cheapest tier.               *)

Cost(tier, r) == tier.in * r.tokensIn + tier.out * r.tokensOut

\* The first tier of a sequence with the least cost, None of an empty one.
PickCheapestIn(tiers, r) ==
  IF tiers = << >> THEN None
  ELSE LET least == CHOOSE i \in DOMAIN tiers :
                      \A k \in DOMAIN tiers : /\ Cost(tiers[i], r) <= Cost(tiers[k], r)
                                              /\ k < i => Cost(tiers[k], r) > Cost(tiers[i], r)
       IN tiers[least]

\* The dearest tier of ok that fits, else the cheapest one of ok.
CheapestUnderBudget(p, r, ok) ==
  LET tiers  == SelectSeq(AllTiers(p), LAMBDA t : t \in ok)
      fits   == SelectSeq(tiers, LAMBDA t : Cost(t, r) <= r.maxCost)
      best   == CHOOSE i \in DOMAIN fits :
                  \A k \in DOMAIN fits : /\ Cost(fits[i], r) >= Cost(fits[k], r)
                                         /\ k < i => Cost(fits[k], r) < Cost(fits[i], r)
  IN IF fits # << >> THEN fits[best] ELSE PickCheapestIn(tiers, r)

Decision(tier, g, r) == [model |-> tier.model, group |-> g, cost |-> Cost(tier, r)]
OverBudget(tier, r) == r.maxCost # None /\ Cost(tier, r) > r.maxCost
HeuristicGroup(r) == IF r.complex THEN "frontier" ELSE "cheap"

-----------------------------------------------------------------------------
(* index.ts: the decision.                                                 *)

HasPolicyStages(p) == p.sensitivity # None \/ p.dataPolicy # None \/ p.useCases # None

UseCaseBar(p, r) ==
  IF r.group # None \/ r.useCase = None \/ p.useCases = None THEN None ELSE Own(p.useCases, r.useCase)
Rule(p, r) == DataPolicyRule(p, ClassifySensitivity(p, r.declared, r.pii))
\* policyFilter
Allowed(p, r, tier) ==
  /\ LET bar == UseCaseBar(p, r) IN bar = None \/ ~bar.evalSet \/ tier.model \in bar.eligible
  /\ TierComplies(tier, Rule(p, r))

Named(p, g) == IF GroupTiers(p, g) = << >> THEN p.default ELSE g
Mapped(p, q) == IF Own(p.qualityToGroup, q) = None THEN p.default ELSE p.qualityToGroup[q]
\* Step 3 of resolvePolicyRoute; picked is the strategy's group.
PickGroup(p, r, picked) ==
  Named(p, IF r.group # None THEN r.group ELSE IF r.quality # None THEN Mapped(p, r.quality) ELSE picked)

\* Step 4: the use case raises the group.
Raised(p, r, g) ==
  LET bar == UseCaseBar(p, r)
  IN IF /\ bar # None /\ bar.minGroup # None
        /\ Rank(p.groupOrder, bar.minGroup) > Rank(p.groupOrder, g)
     THEN bar.minGroup ELSE g

\* With an eval set, the first group up the order that has an allowed tier.
Eligible(p, r, g) ==
  LET Has(h) == SelectSeq(GroupTiers(p, h), LAMBDA t : Allowed(p, r, t)) # << >>
      bar    == UseCaseBar(p, r)
      up     == {i \in DOMAIN p.groupOrder : i > Rank(p.groupOrder, g) /\ Has(p.groupOrder[i])}
  IN IF Has(g) \/ bar = None \/ ~bar.evalSet \/ Rank(p.groupOrder, g) = 0 \/ up = {} THEN g
     ELSE p.groupOrder[CHOOSE i \in up : \A k \in up : i <= k]

\* resolvePolicyRoute: a decision, or None for PolicyViolation.
ResolvePolicyRoute(p, r, picked) ==
  LET g          == Eligible(p, r, Raised(p, r, PickGroup(p, r, picked)))
      candidates == SelectSeq(GroupTiers(p, g), LAMBDA t : Allowed(p, r, t))
      cheapest   == PickCheapestIn(candidates, r)
      clamped    == CheapestUnderBudget(p, r, {t \in Range(AllTiers(p)) : Allowed(p, r, t)})
  IN IF candidates = << >> THEN None
     ELSE IF OverBudget(cheapest, r) THEN Decision(clamped, clamped.group, r)
     ELSE Decision(cheapest, g, r)

\* resolveInGroup and HeuristicStrategy.route, which differ in the reason only.
ResolveInGroup(p, r, g) ==
  LET tier    == PickCheapestIn(GroupTiers(p, g), r)
      default == PickCheapestIn(GroupTiers(p, p.default), r)
      clamped == CheapestUnderBudget(p, r, Range(AllTiers(p)))
  IN IF tier = None
     THEN IF default = None THEN [model |-> r.model, group |-> p.default, cost |-> 0]
          ELSE Decision(default, p.default, r)
     ELSE IF OverBudget(tier, r) THEN Decision(clamped, clamped.group, r)
     ELSE Decision(tier, g, r)

\* What a custom strategy may decide for the group it picked: any model.
CustomDecisions(p, picked) ==
  {[model |-> m, group |-> picked, cost |-> 0] :
     m \in {t.model : t \in Range(AllTiers(p))} \cup {"elsewhere"}}

\* The decisions that may come out of it, of which None is a refusal.  On a
\* policy without stages what a custom strategy decides is taken as it is.
ResolveRoute(p, r, picked) ==
  IF HasPolicyStages(p) THEN {ResolvePolicyRoute(p, r, picked)}
  ELSE IF r.group # None THEN {ResolveInGroup(p, r, r.group)}
  ELSE IF r.quality # None THEN {ResolveInGroup(p, r, Mapped(p, r.quality))}
  ELSE IF Customs = {} THEN {ResolveInGroup(p, r, picked)}
  ELSE CustomDecisions(p, picked)

\* Mutant: what the policy stages forbid is not left out.
MutRouteCandidates(p, r, d) ==
  LET others == SelectSeq(GroupTiers(p, d.group), LAMBDA t : t.model # d.model /\ ~OverBudget(t, r))
  IN << d.model >> \o [i \in DOMAIN others |-> others[i].model]

\* routeCandidates: the decided model, then the allowed tiers of its group, cheapest first.
RouteCandidates(p, r, d) ==
  LET may   == SelectSeq(GroupTiers(p, d.group),
                         LAMBDA t : /\ t.model # d.model /\ ~OverBudget(t, r)
                                    /\ HasPolicyStages(p) => Allowed(p, r, t))
      once  == SelectSeq([i \in DOMAIN may |-> << i, may[i] >>],
                         LAMBDA e : \A k \in 1..(e[1] - 1) : may[k].model # e[2].model)
      Insert(done, e) ==
        LET cut == Cardinality({i \in DOMAIN done : Cost(done[i], r) <= Cost(e[2], r)})
        IN SubSeq(done, 1, cut) \o << e[2] >> \o SubSeq(done, cut + 1, Len(done))
      rest  == FoldLeft(Insert, << >>, once)
  IN << d.model >> \o [i \in DOMAIN rest |-> rest[i].model]

-----------------------------------------------------------------------------
(* hono.ts: a call arrives, then its targets are tried.                    *)

Idle == [phase |-> "idle"]
Refused(status) == [phase |-> "refused", status |-> status]

\* beforeRequest leaves a concrete model with no hint alone.
Routes(r) ==
  /\ r.chat
  /\ r.model = "auto" \/ r.quality # None \/ r.group # None \/ r.maxCost # None
\* configAllowsRouteFailover
OwnsRetries(ts) == Len(ts) > 1 \/ ts[1].override # None

\* buildDataPolicyGate
Gate(p, r) == IF p.dataPolicy = None THEN None ELSE [policy |-> p, rule |-> Rule(p, r)]

\* d is the decision, or None when the call is not routed (or routing failed open).
Admit(p, r, ts, d) ==
  call' = [phase |-> "trying", req |-> r, policy |-> p, gate |-> Gate(p, r), targets |-> ts, decision |-> d,
           models |-> IF d = None THEN << r.model >>
                      ELSE IF OwnsRetries(ts) THEN << d.model >> ELSE RouteCandidates(p, r, d),
           target |-> 1]

Arrive(r, ts, picked) ==
  /\ call = Idle
  /\ \/ /\ active = None
        /\ call' = Refused(503)
     \/ /\ active # None /\ ~Routes(r)
        /\ Admit(active, r, ts, None)
     \/ /\ active # None /\ Routes(r) /\ picked # "throws"
        /\ \E d \in ResolveRoute(active, r, picked) :
             IF d = None THEN call' = Refused(403) ELSE Admit(active, r, ts, d)
     \/ /\ active # None /\ Routes(r) /\ picked = "throws"
        /\ IF active.dataPolicy # None THEN call' = Refused(403) ELSE Admit(active, r, ts, None)
  /\ sent' = {}
  /\ UNCHANGED active

\* The group a strategy picks; only a custom one can throw, and only when it is asked.
Picks(r) == IF r.group # None \/ r.quality # None \/ Customs = {} THEN {HeuristicGroup(r)} ELSE Customs

\* targetModels of a target, for the model at the head of the list.
TargetModels(t, m) == {IF t.override # None THEN t.override ELSE m, t.deployment} \ {None}
\* dataPolicyTargetDenied on a model endpoint
Denied(g, t, m) ==
  /\ g # None
  /\ LET names == TargetModels(t, m)
     IN \E n \in (IF names = {} THEN {None} ELSE names) :
          ~ModelComplies(g.policy, n, g.rule, t.provider, t.customHost)

Current == call.models[1]
Here    == call.targets[call.target]
Owned   == OwnsRetries(call.targets)
\* The next target of a config that owns retries, else the next candidate.
More    == IF Owned THEN call.target < Len(call.targets) ELSE Len(call.models) > 1
Moved   == IF Owned THEN [call EXCEPT !.target = @ + 1] ELSE [call EXCEPT !.models = Tail(@)]

\* Failover's allow passes over a candidate the gate's rule refuses at the call's provider.
Skipped == /\ ~Owned /\ call.decision # None /\ call.gate # None
           /\ ~ModelComplies(call.gate.policy, Current, call.gate.rule, Here.provider, Here.customHost)

\* A refusal by the gate ends a routed call; a config's own fallback goes on to its next target.
TryTarget ==
  /\ call.phase = "trying"
  /\ IF Skipped \/ Denied(call.gate, Here, Current)
     THEN /\ call' = IF More /\ (Skipped \/ Owned) THEN Moved ELSE Refused(403)
          /\ sent' = IF More /\ (Skipped \/ Owned) THEN sent ELSE {}
     ELSE /\ sent' = sent \cup {[model |-> n, provider |-> Here.provider, customHost |-> Here.customHost] :
                                n \in TargetModels(Here, Current)}
          /\ \/ call' = [phase |-> "answered", was |-> call]
             \/ More /\ call' = Moved
  /\ UNCHANGED active

Done == call.phase \in {"refused", "answered"} /\ call' = Idle /\ sent' = {} /\ UNCHANGED active

\* A reload, or a central policy that replaces the file: at any time.
Load(p) == p # active /\ active' = p /\ UNCHANGED << call, sent >>

Init == active = None /\ call = Idle /\ sent = {}

Next == \/ \E r \in Requests, ts \in Targets : \E g \in Picks(r) : Arrive(r, ts, g)
        \/ TryTarget \/ Done
        \/ \E p \in Policies : Load(p)

Spec == Init /\ [][Next]_vars

-----------------------------------------------------------------------------
(* Properties.                                                             *)

TheCall == IF call.phase = "answered" THEN call.was ELSE call
InFlight == call.phase \in {"trying", "answered"}

\* The route policy and the call keep their shape: a call in flight has a target and a model to try.
TypeOK ==
  /\ active \in Policies \cup {None}
  /\ call.phase \in {"idle", "refused", "trying", "answered"}
  /\ InFlight => /\ TheCall.target \in DOMAIN TheCall.targets
                 /\ TheCall.models # << >>
  /\ sent # {} => InFlight

\* The strictest level a call must be held to: what it declares (or the default) and every
\* category found in it, under the policy it arrived under.
Strictest(p, r) ==
  LET lv   == p.sensitivity.levels
      told == IF Rank(lv, r.declared) > 0 THEN r.declared ELSE p.sensitivity.unclassified
      all  == {told} \cup ({Own(p.sensitivity.escalation, c) : c \in Range(r.pii)} \ {None})
  IN CHOOSE l \in all : \A k \in all : Rank(lv, l) >= Rank(lv, k)
Vouches(t, s) == t.model = s.model /\ (t.provider = None \/ (t.provider = s.provider /\ ~s.customHost))

\* Whatever replaces the model (the router, a fallback, a config's override, a deployment) and however
\* often the policy is replaced meanwhile, a call leaves the gateway only if some tier of the policy it
\* arrived under vouches for that model at that provider with facts its strictest level accepts, or if the
\* level accepts any place (dataPolicyGate.ts, constraints.ts).
SentCallsComply ==
  InFlight /\ TheCall.policy.dataPolicy # None /\ TheCall.policy.sensitivity # None =>
    LET p    == TheCall.policy
        rule == Own(p.dataPolicy, Strictest(p, TheCall.req))
    IN \A s \in sent :
         \/ rule = None
         \/ \E t \in Range(AllTiers(p)) : Vouches(t, s) /\ TierComplies(t, rule)
         \/ /\ "any" \in rule.jurisdictions /\ rule.providers = None /\ ~rule.requireZdr
            /\ rule.cloudAct # FALSE

\* A decision above the caller's ceiling is taken only when nothing the data policy and the use case allow,
\* in any group, costs less (cheapestUnderBudget over the filtered tiers).
CeilingHonoured ==
  InFlight /\ TheCall.decision # None /\ TheCall.req.maxCost # None /\ HasPolicyStages(TheCall.policy) =>
    LET d == TheCall.decision
        ok == {t \in Range(AllTiers(TheCall.policy)) : Allowed(TheCall.policy, TheCall.req, t)}
    IN /\ \E t \in ok : t.model = d.model /\ Cost(t, TheCall.req) = d.cost
       /\ d.cost > TheCall.req.maxCost => \A t \in ok : Cost(t, TheCall.req) >= d.cost

\* A routed call under a use case is decided at or above the group the use case demands.  It may fall
\* below that only by its own ceiling, and then some group at or above has tiers for it, all dearer than
\* the ceiling (resolvePolicyRoute, steps 4 and 5).
BarHolds ==
  InFlight /\ TheCall.decision # None =>
    LET p   == TheCall.policy
        r   == TheCall.req
        bar == UseCaseBar(p, r)
        Above(g) == Rank(p.groupOrder, g) >= Rank(p.groupOrder, bar.minGroup)
        ok(g) == {t \in Range(GroupTiers(p, g)) : Allowed(p, r, t)}
    IN bar # None /\ bar.minGroup # None /\ ~Above(TheCall.decision.group)
         => /\ r.maxCost # None
            /\ \E g \in DOMAIN p.groups :
                 Above(g) /\ ok(g) # {} /\ \A t \in ok(g) : OverBudget(t, r)

\* Every fallback is a model the router could have picked: it is allowed for this call and fits the ceiling
\* (routeCandidates).
FallbacksNeverWiden ==
  InFlight /\ TheCall.decision # None /\ HasPolicyStages(TheCall.policy) =>
    \A m \in Range(TheCall.models) \ {TheCall.decision.model} :
      \E t \in Range(GroupTiers(TheCall.policy, TheCall.decision.group)) :
        /\ t.model = m /\ Allowed(TheCall.policy, TheCall.req, t)
        /\ TheCall.req.maxCost = None \/ Cost(t, TheCall.req) <= TheCall.req.maxCost
=============================================================================
