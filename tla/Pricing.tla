------------------------------- MODULE Pricing -------------------------------
(***************************************************************************)
(* The cost of one call, from its usage and the price tables               *)
(* (src/gateway/src/middlewares/psPricing.ts, a port of the SDK's          *)
(* pricing.py).  The tables that are generated from the model catalog are  *)
(* constants, indexed by <<vendor, model>>; the multipliers, fees and      *)
(* fallbacks that the file writes out are definitions.  Money is counted   *)
(* in hundredths of the unit that is reported, so that rounding shows.     *)
(*                                                                         *)
(* A behaviour is one call whose usage grows: the counts come from a       *)
(* provider, whose subsets (cache, audio) should lie inside the totals but *)
(* may not.                                                                *)
(***************************************************************************)
EXTENDS Integers, Sequences, FiniteSets

CONSTANTS
  TokenPricing,        \* <<vendor, model>> -> 2 to 5 rates: in, out, cached, write, write 1h
  LongContextPricing,  \* <<vendor, model>> -> [threshold, rates]
  AudioPricing,        \* <<vendor, model>> -> rates in, out
  ServiceTierPricing,  \* <<vendor, model>> -> [tier -> rates in, out, cached]
  UnitPricing,         \* <<vendor, model>> -> [unit type -> rate]
  ImagePricing,        \* <<vendor, model>> -> [variant -> rate]
  Calls,               \* [vendor, model, served, tier, unit, variant] of the calls
  MaxTokens, MaxSub, MaxUnits   \* bounds of the counts

Null == -1

-----------------------------------------------------------------------------
(* Multipliers in percent.                                                 *)
CACHE_READ_MULTIPLIER == [openai |-> 50, anthropic |-> 10, google |-> 25]
CACHE_WRITE_MULTIPLIER == [anthropic |-> 125]
CACHE_WRITE_1H_MULTIPLIER == [anthropic |-> 200]
STANDARD_SERVICE_TIERS == {"default", "standard", "auto"}
SERVICE_TIER_MULTIPLIER ==
  [openai |-> [batch |-> 50, flex |-> 50], anthropic |-> [batch |-> 50], google |-> [batch |-> 50]]
WEB_SEARCH_FEE == [anthropic |-> 1000]
PRICING_VENDOR_FALLBACK == [azure_openai |-> "openai"]

At(table, k, default) == IF k \in DOMAIN table THEN table[k] ELSE default

Percent(x, p) == (x * p) \div 100

Round6(x) == (x + 50) \div 100

NonNeg(x) == IF x > 0 THEN x ELSE 0

Least(x, y) == IF x < y THEN x ELSE y

(* The vendor whose token prices apply, and "none" without any.            *)
LookupVendor(vendor, model) ==
  IF <<vendor, model>> \in DOMAIN TokenPricing THEN vendor
  ELSE LET fallback == At(PRICING_VENDOR_FALLBACK, vendor, "none")
       IN  IF <<fallback, model>> \in DOMAIN TokenPricing THEN fallback ELSE "none"

(* Unit and image prices are looked up without the fallback vendor.        *)
HasPrice(vendor, model) ==
  \/ LookupVendor(vendor, model) # "none"
  \/ <<vendor, model>> \in DOMAIN ImagePricing \cup DOMAIN UnitPricing

-----------------------------------------------------------------------------
(* A model's name is [base, region, dated].                                *)

NoModel == [base |-> "none", region |-> FALSE, dated |-> FALSE]

RECURSIVE Distinct(_)
Distinct(s) ==
  IF s = <<>> THEN <<>>
  ELSE LET rest == Distinct(SubSeq(s, 1, Len(s) - 1)) IN
       IF s[Len(s)] = NoModel \/ \E i \in 1..Len(rest) : rest[i] = s[Len(s)]
         THEN rest ELSE Append(rest, s[Len(s)])

PricingCandidates(model, served) == Distinct(<<served, [served EXCEPT !.dated = FALSE], model>>)

WithBedrockBaseModels(vendor, candidates) ==
  IF vendor # "bedrock" THEN candidates
  ELSE Distinct(candidates \o [i \in DOMAIN candidates |-> [candidates[i] EXCEPT !.region = FALSE]])

ResolvePricingModel(vendor, candidates) ==
  LET priced == {i \in DOMAIN candidates : HasPrice(vendor, candidates[i])}
  IN  IF candidates = <<>> THEN NoModel
      ELSE IF priced = {} THEN candidates[Len(candidates)]
      ELSE candidates[CHOOSE i \in priced : \A j \in priced : i <= j]

-----------------------------------------------------------------------------
(* Token prices.                                                           *)

FullRates(vendor, rates) ==
  LET in == rates[1]
      cached == IF Len(rates) > 2 THEN rates[3]
                ELSE Percent(in, At(CACHE_READ_MULTIPLIER, vendor, 100))
      write == IF Len(rates) > 3 THEN rates[4]
               ELSE Percent(in, At(CACHE_WRITE_MULTIPLIER, vendor, 100))
      write1h == IF Len(rates) > 4 THEN rates[5]
                 ELSE IF vendor \in DOMAIN CACHE_WRITE_1H_MULTIPLIER
                   THEN Percent(in, CACHE_WRITE_1H_MULTIPLIER[vendor])
                 ELSE write
  IN  [in |-> in, out |-> rates[2], cached |-> cached, write |-> write, write1h |-> write1h]

TierMultiplier(vendor, tier) ==
  IF tier = "none" \/ tier \in STANDARD_SERVICE_TIERS THEN 100
  ELSE At(At(SERVICE_TIER_MULTIPLIER, vendor, [none |-> Null]), tier, Null)

(* The rates of a model's own tier; what the tier leaves out is scaled by  *)
(* its input rate over the standard one.                                   *)
TierRates(full, tier) ==
  LET Scaled(rate) == IF full.in = 0 THEN rate ELSE (rate * tier[1]) \div full.in
  IN  [in |-> tier[1], out |-> tier[2],
       cached |-> IF Len(tier) > 2 THEN tier[3] ELSE Scaled(full.cached),
       write |-> Scaled(full.write), write1h |-> Scaled(full.write1h)]

(* Tokens in each class of the price list.  The 1 h writes are among the   *)
(* writes; a remainder is never negative.                                  *)

Split(u) ==
  [in |-> NonNeg(u.tokens_in - u.cached - u.write - u.audio_in),
   cached |-> u.cached, write |-> u.write - Least(u.write1h, u.write), write1h |-> Least(u.write1h, u.write),
   out |-> NonNeg(u.tokens_out - u.audio_out)]

InBand(band, tokens) == tokens > band.threshold

EstimateCost(vendor, model, tier, u) ==
  LET pricing == LookupVendor(vendor, model)
      k == <<pricing, model>>
      long == k \in DOMAIN LongContextPricing /\ InBand(LongContextPricing[k], u.tokens_in)
      full == FullRates(pricing, IF long THEN LongContextPricing[k].rates ELSE TokenPricing[k])
      own == /\ ~long /\ pricing = vendor
             /\ <<vendor, model>> \in DOMAIN ServiceTierPricing
             /\ tier \in DOMAIN ServiceTierPricing[<<vendor, model>>]
      rates == IF own THEN TierRates(full, ServiceTierPricing[<<vendor, model>>][tier]) ELSE full
      times == IF own THEN 100 ELSE TierMultiplier(pricing, tier)
      audio == u.audio_in > 0 \/ u.audio_out > 0
      Audio(i) == LET rate == AudioPricing[k][i]
                  IN  IF own /\ full.in > 0 THEN (rate * rates.in) \div full.in ELSE rate
      n == Split(u)
      tokens == n.in * rates.in + n.cached * rates.cached + n.write * rates.write
                + n.write1h * rates.write1h + n.out * rates.out
                + (IF audio THEN u.audio_in * Audio(1) + u.audio_out * Audio(2) ELSE 0)
  IN  IF \/ model = NoModel \/ u.tokens_in = Null \/ u.tokens_out = Null
         \/ pricing = "none" \/ times = Null
         \/ audio /\ k \notin DOMAIN AudioPricing
        THEN Null
        ELSE Round6(Percent(tokens, times) + u.searches * At(WEB_SEARCH_FEE, pricing, 0))

-----------------------------------------------------------------------------
(* Unit prices.                                                            *)

UnitRate(vendor, model, unit, variant) ==
  IF unit = "images"
    THEN At(At(ImagePricing, <<vendor, model>>, [none |-> Null]), variant, Null)
    ELSE At(At(UnitPricing, <<vendor, model>>, [none |-> Null]), unit, Null)

EstimateUnitCost(vendor, model, call, units) ==
  LET own == UnitRate(vendor, model, call.unit, call.variant)
      rate == IF own = Null /\ vendor \in DOMAIN PRICING_VENDOR_FALLBACK
                THEN UnitRate(PRICING_VENDOR_FALLBACK[vendor], model, call.unit, call.variant)
                ELSE own
  IN  IF \/ model = NoModel \/ call.unit = "none" \/ units = Null \/ rate = Null
         \/ call.tier # "none" /\ call.tier \notin STANDARD_SERVICE_TIERS
        THEN Null ELSE Round6(units * rate)

(* A cost the provider billed wins, then a unit price, then tokens.        *)
UsageCost(vendor, model, call, u) ==
  LET unitCost == EstimateUnitCost(vendor, model, call, u.units)
  IN  IF u.provider_cost # Null THEN Round6(u.provider_cost)
      ELSE IF unitCost # Null THEN unitCost
      ELSE EstimateCost(vendor, model, call.tier, u)

Candidates(call) == WithBedrockBaseModels(call.vendor, PricingCandidates(call.model, call.served))

CostFields(call, u) ==
  UsageCost(call.vendor, ResolvePricingModel(call.vendor, Candidates(call)), call, u)

-----------------------------------------------------------------------------
VARIABLES
  call,   \* vendor, names, tier and unit of the call
  u       \* its usage

vars == <<call, u>>

Cost == CostFields(call, u)

Init ==
  /\ call \in Calls
  /\ u = [tokens_in |-> IF call.unit = "none" THEN 0 ELSE Null,
          tokens_out |-> IF call.unit = "none" THEN 0 ELSE Null, cached |-> 0, write |-> 0, write1h |-> 0,
          audio_in |-> 0, audio_out |-> 0, searches |-> 0,
          units |-> IF call.unit = "none" THEN Null ELSE 0, provider_cost |-> Null]

(* More of the prompt: plain text, or also one of its subsets.             *)
GrowIn ==
  /\ u.provider_cost = Null
  /\ u.tokens_in \in 0..(MaxTokens - 1)
  /\ \/ u' = [u EXCEPT !.tokens_in = @ + 1]
     \/ \E f \in {"cached", "write", "audio_in"} :
          /\ u[f] < MaxSub
          /\ u' = [u EXCEPT !.tokens_in = @ + 1, ![f] = @ + 1]
     \/ /\ u.write < MaxSub
        /\ u' = [u EXCEPT !.tokens_in = @ + 1, !.write = @ + 1, !.write1h = @ + 1]
  /\ UNCHANGED call

GrowOut ==
  /\ u.provider_cost = Null
  /\ u.tokens_out \in 0..(MaxSub - 1)
  /\ \/ u' = [u EXCEPT !.tokens_out = @ + 1]
     \/ u' = [u EXCEPT !.tokens_out = @ + 1, !.audio_out = @ + 1]
  /\ UNCHANGED call

GrowUnits ==
  /\ u.provider_cost = Null
  /\ \/ u.units # Null /\ u.units < MaxUnits /\ u' = [u EXCEPT !.units = @ + 1]
     \/ u.searches = 0 /\ u' = [u EXCEPT !.searches = 1]
  /\ UNCHANGED call

(* A provider that counts a subset outside its total.                      *)
Miscount ==
  /\ u.provider_cost = Null
  /\ call.unit = "none"
  /\ \E f \in {"cached", "write", "write1h", "audio_in", "audio_out"} :
       u[f] < MaxSub /\ u' = [u EXCEPT ![f] = @ + 1]
  /\ UNCHANGED call

(* A provider that reports what it billed, with the last of its counts.    *)
Bill ==
  /\ u.provider_cost = Null
  /\ \E billed \in {0, 149} : u' = [u EXCEPT !.provider_cost = billed]
  /\ UNCHANGED call

Next == GrowIn \/ GrowOut \/ GrowUnits \/ Miscount \/ Bill

Spec == Init /\ [][Next]_vars

-----------------------------------------------------------------------------
(* The call is one of Calls and its cost is never negative, also when the  *)
(* provider's counts contradict each other.                                *)
TypeOK ==
  /\ call \in Calls
  /\ Cost \in Nat \cup {Null}

Consistent ==
  /\ u.cached + u.write + u.audio_in <= u.tokens_in
  /\ u.write1h <= u.write /\ u.audio_out <= u.tokens_out

(* No token is charged twice and none is left out: a call without audio or *)
(* fees costs at least its tokens at the lowest rate that may apply to     *)
(* them, and at most at the highest.                                       *)
EachTokenOnce ==
  LET model == ResolvePricingModel(call.vendor, Candidates(call))
      k == <<LookupVendor(call.vendor, model), model>>
      full == FullRates(k[1], IF k \in DOMAIN LongContextPricing /\ InBand(LongContextPricing[k], u.tokens_in)
                                THEN LongContextPricing[k].rates ELSE TokenPricing[k])
      Ins == {full.in, full.cached, full.write, full.write1h}
      Bound(rate) == Round6(u.tokens_in * rate + u.tokens_out * full.out)
  IN  /\ Consistent /\ u.audio_in = 0 /\ u.audio_out = 0 /\ u.searches = 0
      /\ call.unit = "none" /\ call.tier = "none" /\ u.provider_cost = Null /\ Cost # Null
      => /\ \E rate \in Ins : Cost >= Bound(rate) /\ \A r \in Ins : r >= rate
         /\ \E rate \in Ins : Cost <= Bound(rate) /\ \A r \in Ins : r <= rate

(* A call that used more never costs less, over the threshold of the long  *)
(* context and in every tier that still has a price there.                 *)
GrowthCosts ==
  LET before == CostFields(call, u)
      after == CostFields(call', u')
  IN  (GrowIn \/ GrowOut \/ GrowUnits) /\ Consistent /\ before # Null /\ after # Null
      => after >= before

(* The model that served the call sets the price whenever it has one for   *)
(* this usage, under its own name or without the date.                     *)
ServedPriceWins ==
  LET served == UsageCost(call.vendor, call.served, call, u)
  IN  served # Null => Cost = served

(* A Bedrock inference profile costs what its base model costs.            *)
ProfileIsItsBase ==
  /\ call.vendor = "bedrock" /\ call.model.region /\ call.served = NoModel
  /\ ~HasPrice("bedrock", call.model)
  => Cost = UsageCost("bedrock", [call.model EXCEPT !.region = FALSE], call, u)
==============================================================================
