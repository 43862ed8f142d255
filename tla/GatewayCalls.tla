---------------------------- MODULE GatewayCalls ----------------------------
(***************************************************************************)
(* What the gateway decides about a call and what it reports of it, side by*)
(* side: a behaviour runs one of the units.  They keep no state in common, *)
(* so the behaviours of the gateway are those of its units.                *)
(***************************************************************************)
EXTENDS Integers, Sequences, TLC

CONSTANTS GatewayCall, Providers, None, Defaults

VARIABLES
  unit, \* the unit that this behaviour runs
  active, call, sent, spent, reserved, charged, excess, faults, req, pc, attempts, count,
  served, calls, res, tracker, lines, ending, draft, events, metrics, tree, denyKey, stack,
  ret, visited, walk, final, policy, window, buckets, arrived, ledger, forgotten, u

vars == <<unit, active, call, sent, spent, reserved, charged, excess, faults, req, pc, attempts,
          count, served, calls, res, tracker, lines, ending, draft, events, metrics, tree,
          denyKey, stack, ret, visited, walk, final, policy, window, buckets, arrived,
          ledger, forgotten, u>>

Off == "off"

-----------------------------------------------------------------------------
(* Router: two groups of two or three tiers in two jurisdictions, a policy *)
(* with every stage, a stricter one and one without stages.                *)
Tier(m, g, in, provider, j, zdr) ==
  [model |-> m, group |-> g, in |-> in, out |-> 1, provider |-> provider, jurisdiction |-> j,
   zdr |-> zdr, exposed |-> (j = "US")]
Cheap    == << Tier("small", "cheap", 1, "us", "US", TRUE), Tier("llama", "cheap", 2, "us", "US", FALSE),
               Tier("llama", "cheap", 3, "eu", "DE", TRUE) >>
Frontier == << Tier("large", "frontier", 6, "us", "US", TRUE), Tier("mistral", "frontier", 4, "eu", "FR", TRUE),
               Tier("open", "frontier", 5, None, "SE", None) >>
NoRule(j) == [jurisdictions |-> j, providers |-> None, requireZdr |-> FALSE, cloudAct |-> None]
Base == [names |-> << "cheap", "frontier" >>,
         groups |-> [g \in {"cheap", "frontier"} |-> IF g = "cheap" THEN Cheap ELSE Frontier],
         default |-> "cheap",
         qualityToGroup |-> [q \in {"critical", "draft"} |-> IF q = "critical" THEN "frontier" ELSE "absent"],
         groupOrder |-> << "cheap", "frontier" >>, sensitivity |-> None, dataPolicy |-> None, useCases |-> None]
Levels == << "public", "internal", "restricted" >>
Staged == [Base EXCEPT
  !.sensitivity = [levels |-> Levels, unclassified |-> "internal",
                   escalation |-> [c \in {"email", "health"} |-> IF c = "email" THEN "internal" ELSE "restricted"]],
  !.dataPolicy = [l \in {"internal", "restricted"} |->
                    IF l = "internal" THEN NoRule({"EEA", "US"})
                    ELSE [NoRule({"EEA"}) EXCEPT !.requireZdr = TRUE, !.cloudAct = FALSE]],
  !.useCases = [uc \in {"legal", "triage"} |->
                  IF uc = "legal" THEN [minGroup |-> "frontier", evalSet |-> FALSE, eligible |-> {}]
                  ELSE [minGroup |-> None, evalSet |-> TRUE, eligible |-> {"mistral", "large"}]]]
Strict == [Staged EXCEPT !.dataPolicy = [l \in {"public", "internal", "restricted"} |->
                                           [NoRule({"any"}) EXCEPT !.providers = {"eu"}]]]

\* Policies; requests that vary the hints, and ones that vary what is declared
\* and found; targets.
ThePolicies == {Base, Staged, Strict}
AnyCall == [chat |-> TRUE, model |-> "auto", quality |-> None, group |-> None, maxCost |-> None, declared |-> None,
      pii |-> << >>, useCase |-> None, complex |-> FALSE, tokensIn |-> 1, tokensOut |-> 1]
Hinted ==
  {[AnyCall EXCEPT !.quality = q, !.group = g, !.maxCost = c, !.declared = l, !.useCase = uc] :
     q \in {None, "critical", "draft"}, g \in {None, "frontier", "absent"}, c \in {None, 3},
     l \in {None, "restricted"}, uc \in {None, "legal", "triage"}}
Said == {[AnyCall EXCEPT !.model = m, !.declared = l, !.pii = f, !.chat = t] :
           m \in {"auto", "llama", None}, l \in {None, "bogus", "restricted"},
           f \in {<< >>, << "email" >>, << "health", "email" >>}, t \in BOOLEAN}
Asked == Hinted \cup Said
OneTarget(provider, o, d, h) == << [provider |-> provider, override |-> o, deployment |-> d, customHost |-> h] >>
Anywhere ==
  {OneTarget(p, None, None, FALSE) : p \in {"us", "eu"}}
  \cup {OneTarget("us", o, d, FALSE) : o \in {"llama"}, d \in {None, "small"}}
  \cup {OneTarget("us", None, d, TRUE) : d \in {None, "small"}}
  \cup {OneTarget("us", None, None, FALSE) \o OneTarget(p, "llama", None, FALSE) : p \in {"us", "eu"}}
Custom == {"frontier", "absent", "throws"}

(* Budgets: a block and a downgrade budget on one counter, and a block     *)
(* budget on another.                                                      *)
Doc == << [key |-> "unit", limit |-> 2, mode |-> "block"],
          [key |-> "unit", limit |-> 1, mode |-> "downgrade"],
          [key |-> "global", limit |-> 1, mode |-> "block"] >>

(* CallEvent: what bodies and stream lines report.  A Chat Completions     *)
(* total with a cost, Anthropic's message_start with cache counts, its     *)
(* message_delta with the output count only, and one that corrects the     *)
(* cache read.                                                             *)
Absent == -1
U(p, i, r, w, o, c, k) ==
  [prompt |-> p, input |-> i, read |-> r, write |-> w, output |-> o, cached |-> c, cost |-> k]

BilledUsage == U(3, Absent, Absent, Absent, 1, 1, 7)
StartUsage == U(Absent, 2, 1, 1, 1, Absent, Absent)
DeltaUsage == U(Absent, Absent, Absent, Absent, 4, Absent, Absent)
FinalUsage == U(Absent, 3, 2, Absent, 6, Absent, Absent)

Body(counts, s, r, t) == [usage |-> counts, stops |-> s, refusal |-> r, terminal |-> t]

MixedBodies ==
  {Body(StartUsage, <<>>, FALSE, FALSE), Body(DeltaUsage, <<"length">>, FALSE, TRUE),
   Body(FinalUsage, <<"stop">>, FALSE, TRUE), Body(BilledUsage, <<"content_filter">>, TRUE, FALSE),
   Body(None, <<"length">>, FALSE, TRUE)}

(* TargetTree: a root, three targets under it, and a group of two in place *)
(* of the first.  They vary in root mode, mode of node 1, open targets,    *)
(* breaker id at the root, fallback codes, targets without weight,         *)
(* guardrails of the root and of node 1, and default guardrails.           *)
Nodes == 0..5
Trees ==
  { [mode |-> [n \in Nodes |-> CASE n = 0 -> root [] n = 1 -> first [] OTHER -> "leaf"],
     kids |-> [n \in Nodes |-> CASE n = 0 /\ root # "leaf" -> <<1, 2, 3>>
                                 [] n = 1 /\ first # "leaf" -> <<4, 5>>
                                 [] OTHER -> << >>],
     open |-> [n \in Nodes |-> n \in opened],
     cb |-> [n \in Nodes |-> n = 0 /\ opened # {}],
     codes |-> [n \in Nodes |-> IF n = 0 THEN codes ELSE {}],
     weight |-> [n \in Nodes |-> IF n \in lightest THEN 0 ELSE 1],
     guard |-> [n \in Nodes |-> CASE n = 0 -> rootGuard [] n = 1 -> firstGuard [] OTHER -> "none"],
     defaults |-> defaults,
     candidates |-> IF root = "leaf" THEN 2 ELSE 1] :
    root \in {"leaf", "fallback", "loadbalance", "conditional", "single"},
    first \in {"leaf", "fallback", "loadbalance", "conditional"},
    opened \in {{}, {2, 4}, {1, 2, 3}},
    codes \in {{}, {429, 446, 503}},
    lightest \in {{}, {4, 5}},
    rootGuard \in {"none", "deny"}, firstGuard \in {"none", "flag"},
    defaults \in {"none", "deny"} }

(* OidcAdmission: groups that share a rate limit and groups whose users    *)
(* each have their own; allowlists, credentials and targets of every form. *)
Group(name, match, providers, models, limit, per) ==
  [name |-> name, match |-> match, providers |-> providers, models |-> models,
   limit |-> limit, per |-> per]
Ask(subject, groups, headers) ==
  [subject |-> subject, groups |-> groups, provider |-> "openai", headers |-> headers,
   realtime |-> None]
Aim(provider, model, override, deployment, needsModel) ==
  [provider |-> provider, model |-> model, override |-> override, deployment |-> deployment,
   needsModel |-> needsModel]

LimitPolicies ==
  { [default |-> "deny", groups |-> <<Group("a", {"x"}, None, None, 2, "user"),
                                      Group("b", {"x", "y"}, None, None, 2, "group")>>],
    [default |-> "allow", groups |-> <<Group("b", {"y"}, None, None, 1, "group")>>] }
LimitCalls ==
  {Ask("u", {"x"}, {}), Ask("v", {"x", "y"}, {}), Ask("w", {"y"}, {}), Ask("w", {}, {})}

AccessPolicies ==
  { [default |-> "allow", groups |-> <<Group("a", {"x"}, {"openai", "azure"}, {"m"}, None, "user")>>],
    [default |-> "deny", groups |-> <<Group("a", {"x"}, None, {"m", "n"}, None, "user"),
                                      Group("b", {"y"}, {"azure"}, None, None, "user")>>] }
AccessCalls ==
  { Ask("u", {"x"}, {}), Ask("u", {"x"}, {"custom host"}), Ask("v", {"y"}, {"url"}),
    [Ask("v", {"y"}, {"plain"}) EXCEPT !.provider = "other"],
    [Ask("u", {"x"}, {"config"}) EXCEPT !.realtime = Aim("azure", "m", None, "n", FALSE)] }
AccessTargets ==
  { Aim("openai", "m", None, None, TRUE), Aim("openai", "m", "n", None, TRUE),
    Aim("openai", None, None, None, TRUE), Aim("openai", None, None, None, FALSE),
    Aim("azure", "m", None, "n", TRUE), Aim(None, "m", None, None, TRUE) }

(* Pricing: tables of four vendors, with rates left out and given, a band  *)
(* for long contexts, a model's own tiers, audio, units and images.        *)
Name(b) == [base |-> b, region |-> FALSE, dated |-> FALSE]
Dated(b) == [base |-> b, region |-> FALSE, dated |-> TRUE]
Regional(b) == [base |-> b, region |-> TRUE, dated |-> FALSE]
Unnamed == [base |-> "none", region |-> FALSE, dated |-> FALSE]

TokenPrices ==
  <<"openai", Name("gpt")>> :> <<40, 120>>
  @@ <<"openai", Name("mini")>> :> <<20, 60, 10>>
  @@ <<"openai", Dated("gpt")>> :> <<80, 160, 40>>
  @@ <<"anthropic", Name("claude")>> :> <<80, 200>>
  @@ <<"anthropic", Name("haiku")>> :> <<40, 100, 4, 50, 80>>
  @@ <<"bedrock", Name("claude")>> :> <<100, 240, 20>>
LongPrices ==
  <<"openai", Name("gpt")>> :> [threshold |-> 1, rates |-> <<80, 160>>]
  @@ <<"anthropic", Name("claude")>> :> [threshold |-> 1, rates |-> <<160, 300>>]
AudioPrices == <<"openai", Name("gpt")>> :> <<160, 320>>
TierPrices == <<"openai", Name("gpt")>> :> [flex |-> <<20, 60>>, priority |-> <<80, 240, 40>>]
UnitPrices ==
  <<"openai", Name("tts")>> :> [characters |-> 130] @@ <<"anthropic", Name("ocr")>> :> [pages |-> 170]
ImagePrices == <<"openai", Name("dalle")>> :> [hd |-> 270]

Priced(vendor, model, by, tier, unitType, variant) ==
  [vendor |-> vendor, model |-> model, served |-> by, tier |-> tier,
   unit |-> unitType, variant |-> variant]
PricedCalls ==
  {Priced("openai", Name("gpt"), s, t, "none", "none") :
     s \in {Unnamed, Name("mini"), Dated("gpt"), Dated("mini")},
     t \in {"none", "default", "flex", "priority", "batch"}}
  \cup {Priced("azure_openai", Name("deployment"), Name(s), t, "none", "none") :
     s \in {"gpt", "mini"}, t \in {"none", "priority", "batch"}}
  \cup {Priced("anthropic", Name(n), Unnamed, t, "none", "none") :
     n \in {"claude", "haiku"}, t \in {"none", "batch"}}
  \cup {Priced("bedrock", Regional("claude"), s, "none", "none", "none") :
     s \in {Unnamed, Regional("claude")}}
  \cup {Priced("openai", Name("tts"), Unnamed, t, "characters", "none") : t \in {"none", "flex"}}
  \cup {Priced("openai", Name("dalle"), Unnamed, "none", "images", v) : v \in {"hd", "sd"}}

-----------------------------------------------------------------------------
Routing == INSTANCE Router WITH Policies <- ThePolicies, Requests <- Asked,
                                Targets <- Anywhere, Customs <- Custom
Spending == INSTANCE Budgets WITH GatewayCalls <- GatewayCall, SdkCalls <- {},
                                  Document <- Doc, Prices <- {1}, MaxCost <- 2,
                                  OnStoreError <- "closed", MaxFaults <- 1
Shared == INSTANCE Budgets WITH GatewayCalls <- {"g"}, SdkCalls <- {"s"}, Document <- Doc,
                                Prices <- {1}, MaxCost <- 2, OnStoreError <- "open",
                                MaxFaults <- 1
Event == INSTANCE CallEvent WITH Bodies <- MixedBodies, MaxAttempts <- 2, MaxRecords <- 1,
                                 MaxLines <- 2, MaxStopReasons <- 1
Tree == INSTANCE TargetTree WITH LeafAnswers <- {200, 400, 429}
Limits == INSTANCE OidcAdmission WITH Requests <- {"r1", "r2"}, Calls <- LimitCalls,
                                      Targets <- {}, Policies <- LimitPolicies,
                                      ProviderKeys <- {"openai"}, MaxBuckets <- 2,
                                      MaxWindow <- 1, MaxTries <- 0, MaxCalls <- 4
Access == INSTANCE OidcAdmission WITH Requests <- {"r1", "r2"}, Calls <- AccessCalls,
                                      Targets <- AccessTargets, Policies <- AccessPolicies,
                                      ProviderKeys <- {"openai"}, MaxBuckets <- 2,
                                      MaxWindow <- 0, MaxTries <- 2, MaxCalls <- 2
Price == INSTANCE Pricing WITH TokenPricing <- TokenPrices,
                               LongContextPricing <- LongPrices,
                               AudioPricing <- AudioPrices,
                               ServiceTierPricing <- TierPrices, UnitPricing <- UnitPrices,
                               ImagePricing <- ImagePrices, Calls <- PricedCalls,
                               MaxTokens <- 3, MaxSub <- 1, MaxUnits <- 2

(* A unit runs with its own variables; the variables of the others are off. *)
Units == {"router", "budgets", "shared", "event", "tree", "limits", "access", "price"}

Init ==
  \/ /\ unit = "router" /\ Routing!Init
     /\ spent = Off /\ reserved = Off /\ charged = Off /\ excess = Off /\ faults = Off /\
        req = Off /\ pc = Off /\ attempts = Off /\ count = Off /\ served = Off /\
        calls = Off /\ res = Off /\ tracker = Off /\ lines = Off /\ ending = Off /\
        draft = Off /\ events = Off /\ metrics = Off /\ tree = Off /\ denyKey = Off /\
        stack = Off /\ ret = Off /\ visited = Off /\ walk = Off /\ final = Off /\
        policy = Off /\ window = Off /\ buckets = Off /\ arrived = Off /\ ledger = Off /\
        forgotten = Off /\ u = Off
  \/ /\ unit = "budgets" /\ Spending!Init
     /\ active = Off /\ sent = Off /\ req = Off /\ pc = Off /\ attempts = Off /\
        count = Off /\ served = Off /\ calls = Off /\ res = Off /\ tracker = Off /\
        lines = Off /\ ending = Off /\ draft = Off /\ events = Off /\ metrics = Off /\
        tree = Off /\ denyKey = Off /\ stack = Off /\ ret = Off /\ visited = Off /\
        walk = Off /\ final = Off /\ policy = Off /\ window = Off /\ buckets = Off /\
        arrived = Off /\ ledger = Off /\ forgotten = Off /\ u = Off
  \/ /\ unit = "shared" /\ Shared!Init
     /\ active = Off /\ sent = Off /\ req = Off /\ pc = Off /\ attempts = Off /\
        count = Off /\ served = Off /\ calls = Off /\ res = Off /\ tracker = Off /\
        lines = Off /\ ending = Off /\ draft = Off /\ events = Off /\ metrics = Off /\
        tree = Off /\ denyKey = Off /\ stack = Off /\ ret = Off /\ visited = Off /\
        walk = Off /\ final = Off /\ policy = Off /\ window = Off /\ buckets = Off /\
        arrived = Off /\ ledger = Off /\ forgotten = Off /\ u = Off
  \/ /\ unit = "event" /\ Event!Init
     /\ active = Off /\ call = Off /\ sent = Off /\ spent = Off /\ reserved = Off /\
        charged = Off /\ excess = Off /\ faults = Off /\ tree = Off /\ denyKey = Off /\
        stack = Off /\ ret = Off /\ visited = Off /\ walk = Off /\ final = Off /\
        policy = Off /\ window = Off /\ buckets = Off /\ arrived = Off /\ ledger = Off /\
        forgotten = Off /\ u = Off
  \/ /\ unit = "tree" /\ Tree!Init
     /\ active = Off /\ call = Off /\ sent = Off /\ spent = Off /\ reserved = Off /\
        charged = Off /\ excess = Off /\ faults = Off /\ req = Off /\ pc = Off /\
        attempts = Off /\ count = Off /\ served = Off /\ res = Off /\ tracker = Off /\
        lines = Off /\ ending = Off /\ draft = Off /\ events = Off /\ metrics = Off /\
        policy = Off /\ window = Off /\ buckets = Off /\ arrived = Off /\ ledger = Off /\
        forgotten = Off /\ u = Off
  \/ /\ unit = "limits" /\ Limits!Init
     /\ active = Off /\ call = Off /\ spent = Off /\ reserved = Off /\ charged = Off /\
        excess = Off /\ faults = Off /\ pc = Off /\ attempts = Off /\ count = Off /\
        served = Off /\ calls = Off /\ res = Off /\ tracker = Off /\ lines = Off /\
        ending = Off /\ draft = Off /\ events = Off /\ metrics = Off /\ tree = Off /\
        denyKey = Off /\ stack = Off /\ ret = Off /\ visited = Off /\ walk = Off /\
        final = Off /\ u = Off
  \/ /\ unit = "access" /\ Access!Init
     /\ active = Off /\ call = Off /\ spent = Off /\ reserved = Off /\ charged = Off /\
        excess = Off /\ faults = Off /\ pc = Off /\ attempts = Off /\ count = Off /\
        served = Off /\ calls = Off /\ res = Off /\ tracker = Off /\ lines = Off /\
        ending = Off /\ draft = Off /\ events = Off /\ metrics = Off /\ tree = Off /\
        denyKey = Off /\ stack = Off /\ ret = Off /\ visited = Off /\ walk = Off /\
        final = Off /\ u = Off
  \/ /\ unit = "price" /\ Price!Init
     /\ active = Off /\ sent = Off /\ spent = Off /\ reserved = Off /\ charged = Off /\
        excess = Off /\ faults = Off /\ req = Off /\ pc = Off /\ attempts = Off /\
        count = Off /\ served = Off /\ calls = Off /\ res = Off /\ tracker = Off /\
        lines = Off /\ ending = Off /\ draft = Off /\ events = Off /\ metrics = Off /\
        tree = Off /\ denyKey = Off /\ stack = Off /\ ret = Off /\ visited = Off /\
        walk = Off /\ final = Off /\ policy = Off /\ window = Off /\ buckets = Off /\
        arrived = Off /\ ledger = Off /\ forgotten = Off

Next ==
  \/ /\ unit = "router" /\ Routing!Next
     /\ UNCHANGED <<unit, spent, reserved, charged, excess, faults, req, pc, attempts,
                    count, served, calls, res, tracker, lines, ending, draft, events,
                    metrics, tree, denyKey, stack, ret, visited, walk, final, policy,
                    window, buckets, arrived, ledger, forgotten, u>>
  \/ /\ unit = "budgets" /\ Spending!Next
     /\ UNCHANGED <<unit, active, sent, req, pc, attempts, count, served, calls, res,
                    tracker, lines, ending, draft, events, metrics, tree, denyKey, stack,
                    ret, visited, walk, final, policy, window, buckets, arrived, ledger,
                    forgotten, u>>
  \/ /\ unit = "shared" /\ Shared!Next
     /\ UNCHANGED <<unit, active, sent, req, pc, attempts, count, served, calls, res,
                    tracker, lines, ending, draft, events, metrics, tree, denyKey, stack,
                    ret, visited, walk, final, policy, window, buckets, arrived, ledger,
                    forgotten, u>>
  \/ /\ unit = "event" /\ Event!Next
     /\ UNCHANGED <<unit, active, call, sent, spent, reserved, charged, excess, faults,
                    tree, denyKey, stack, ret, visited, walk, final, policy, window,
                    buckets, arrived, ledger, forgotten, u>>
  \/ /\ unit = "tree" /\ Tree!Next
     /\ UNCHANGED <<unit, active, call, sent, spent, reserved, charged, excess, faults,
                    req, pc, attempts, count, served, res, tracker, lines, ending, draft,
                    events, metrics, policy, window, buckets, arrived, ledger, forgotten, u>>
  \/ /\ unit = "limits" /\ Limits!Next
     /\ UNCHANGED <<unit, active, call, spent, reserved, charged, excess, faults, pc,
                    attempts, count, served, calls, res, tracker, lines, ending, draft,
                    events, metrics, tree, denyKey, stack, ret, visited, walk, final, u>>
  \/ /\ unit = "access" /\ Access!Next
     /\ UNCHANGED <<unit, active, call, spent, reserved, charged, excess, faults, pc,
                    attempts, count, served, calls, res, tracker, lines, ending, draft,
                    events, metrics, tree, denyKey, stack, ret, visited, walk, final, u>>
  \/ /\ unit = "price" /\ Price!Next
     /\ UNCHANGED <<unit, active, sent, spent, reserved, charged, excess, faults, req, pc,
                    attempts, count, served, calls, res, tracker, lines, ending, draft,
                    events, metrics, tree, denyKey, stack, ret, visited, walk, final,
                    policy, window, buckets, arrived, ledger, forgotten>>

Spec == Init /\ [][Next]_vars

-----------------------------------------------------------------------------
(* Router, TargetTree and OidcAdmission's access rules.  No call goes to a *)
(* tier dearer than the client's ceiling while an allowed one is cheaper,  *)
(* or below the group a use case demands unless by that ceiling, no        *)
(* fallback is a model that the stages would not have let the decision     *)
(* choose, and every call sent complies with the data policy of its        *)
(* sensitivity.  In a tree of targets a call is reported under the path of *)
(* the target that was called, spares targets whose circuit is open, runs  *)
(* with the guardrails it inherits (which deny in the first walk and no    *)
(* longer in those for the next candidates), and fails only when all were  *)
(* tried.  Only targets that the caller's group allows are called, and no  *)
(* call carries the caller's token upstream.                               *)
DecisionsComply ==
  /\ unit = "router" =>
       /\ Routing!TypeOK
       /\ Routing!CeilingHonoured /\ Routing!BarHolds
       /\ Routing!FallbacksNeverWiden /\ Routing!SentCallsComply
  /\ unit = "tree" =>
       /\ Tree!TypeOK
       /\ Tree!PathNamesTheTarget /\ Tree!OpenTargetsAreSpared
       /\ Tree!GuardrailsAreInherited
       /\ Tree!FailureMeansAllTried /\ Tree!NoAnswerOnlyWithoutWeight
  /\ unit = "access" =>
       Access!TypeOK /\ Access!OnlyAllowedTargets /\ Access!CredentialsStayApart

(* Budgets and OidcAdmission's rate limits.  Concurrent calls overshoot a  *)
(* block budget by no more than what one call costs beyond its             *)
(* reservation; a call is charged once to each of its budgets, through the *)
(* gateway and the SDK on the same counters; a call that is over holds     *)
(* nothing; a store that fails closed sends nothing unchecked; and a key's *)
(* bucket knows every request admitted under it in this minute.            *)
SpendingIsBounded ==
  /\ unit = "budgets" =>
       /\ Spending!TypeOK
       /\ Spending!OvershootIsOneCall /\ Spending!ChargedOnce
       /\ Spending!NothingHeldAfterwards /\ Spending!ClosedIsChecked
  /\ unit = "shared" => Shared!TypeOK /\ Shared!ChargedOnce
  /\ unit = "limits" => Limits!TypeOK /\ Limits!BucketsCount

(* OidcAdmission and Pricing.  No request is admitted over its group's     *)
(* limit, unless its count had to be forgotten, and a call that used more  *)
(* never costs less.                                                       *)
UseIsMetered ==
  [][/\ unit = "limits" => Limits!AdmittedWithinLimit
     /\ unit = "price" => Price!GrowthCosts]_vars

(* CallEvent and Pricing.  There is one event for a call, however its      *)
(* stream ends: its usage is what the lines of the stream said last, its   *)
(* outcome how the call really ended, its attempts add up, the provider it *)
(* names is the one that answered, metrics and event tell the same, and a  *)
(* refused or cached call costs nothing.  No token is charged twice or     *)
(* left out, and the model that served the call sets the price.            *)
EventTellsTheCall ==
  /\ unit = "event" =>
       /\ Event!TypeOK
       /\ Event!OneEventPerCall /\ Event!StreamUsageIsLatest /\ Event!MetricsAgree
       /\ Event!SignalsTellTheEnding /\ Event!AttemptsAddUp /\ Event!ServedIsLastSuccess
       /\ Event!HitsAreFree /\ Event!BlockedCallsNobody
  /\ unit = "price" =>
       /\ Price!TypeOK
       /\ Price!EachTokenOnce /\ Price!ServedPriceWins /\ Price!ProfileIsItsBase

-----------------------------------------------------------------------------
(* The calls of Budgets are interchangeable. *)
Symmetry == Permutations(GatewayCall)
=============================================================================
