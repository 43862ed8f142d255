------------------------------ MODULE Budgets ------------------------------
(***************************************************************************)
(* Spend budgets over one shared counter per key: the gateway's psBudget   *)
(* middleware (read, decide, downgrade, reserve, call, settle) and the     *)
(* SDK's BudgetEnforcer (check, call, commit), which keeps no reservation. *)
(* Every script of the store is one step; the keys of a read are read in   *)
(* one step, since nothing compares them.                                  *)
(*                                                                         *)
(* Money is counted in whole units.  A reservation that is not settled     *)
(* lapses after its time; here it may lapse at any moment, as the time is  *)
(* counted from the arrival of the call and calls take any time.           *)
(***************************************************************************)
EXTENDS Integers, Sequences, FiniteSets, FiniteSetsExt, SequencesExt

CONSTANTS
    GatewayCalls,  \* calls through psBudget, on any replica
    SdkCalls,      \* calls through BudgetEnforcer on the same counters
    Document,      \* the budgets in document order: key, limit and mode
    Prices,        \* cost estimates of the tiers a downgrade may pick
    MaxCost,       \* bound: cost and estimate of a call
    OnStoreError,  \* on_store_error
    MaxFaults      \* bound: store errors and replicas that die

Keys == {Document[i].key : i \in 1 .. Len(Document)}
Calls == GatewayCalls \cup SdkCalls
Costs == 0 .. MaxCost

VARIABLES
    spent,    \* the counters
    reserved, \* per key and call: the amount reserved, NoReservation if none
    call,     \* where each call stands
    \* What the properties look at; the code has none of these.
    charged,  \* per call and key: how often its cost was added
    excess,   \* per key: spend that no reservation covered when it was added
    faults    \* what is left of MaxFaults

vars == <<spent, reserved, call, charged, excess, faults>>

NoReservation == -1
NoCall == [at |-> "idle", keys |-> << >>, todo |-> << >>, held |-> {},
           estimate |-> 0, actual |-> 0, fault |-> FALSE]
Places == {"idle", "reserving", "calling", "releasing", "settling", "served", "refused", "dead"}

\* Spending, reservations and what each call is doing.
TypeOK ==
    /\ spent \in [Keys -> Nat]
    /\ reserved \in [Keys -> [GatewayCalls -> Costs \cup {NoReservation}]]
    /\ \A c \in Calls :
          /\ call[c].at \in Places /\ call[c].held \subseteq Keys
          /\ call[c].keys \in Seq(Keys) /\ call[c].todo \in Seq(Keys)
          /\ call[c].estimate \in Costs /\ call[c].actual \in Costs
          /\ call[c].fault \in BOOLEAN
    /\ charged \in [Calls -> [Keys -> Nat]]
    /\ excess \in [Keys -> Nat] /\ faults \in 0 .. MaxFaults

Init ==
    /\ spent = [k \in Keys |-> 0]
    /\ reserved = [k \in Keys |-> [c \in GatewayCalls |-> NoReservation]]
    /\ call = [c \in Calls |-> NoCall]
    /\ charged = [c \in Calls |-> [k \in Keys |-> 0]]
    /\ excess = [k \in Keys |-> 0]
    /\ faults = MaxFaults

-----------------------------------------------------------------------------
\* The store.

Held(k) == {c \in GatewayCalls : reserved[k][c] # NoReservation}
Reserved(k) == MapThenSumSet(LAMBDA c : reserved[k][c], Held(k))
Without(k, c) == [reserved EXCEPT ![k][c] = NoReservation]
Covered(k, c) == IF c \in GatewayCalls /\ reserved[k][c] # NoReservation THEN reserved[k][c] ELSE 0

\* The settle script: drop the reservation and add the cost.
SettleScript(k, c, actual) ==
    /\ reserved' = IF c \in GatewayCalls THEN Without(k, c) ELSE reserved
    /\ spent' = [spent EXCEPT ![k] = @ + actual]
    /\ charged' = [charged EXCEPT ![c][k] = @ + IF actual > 0 THEN 1 ELSE 0]
    /\ excess' = [excess EXCEPT ![k] = @ + Max({actual - Covered(k, c), 0})]

Fault == faults > 0 /\ faults' = faults - 1

-----------------------------------------------------------------------------
\* matchBudgets and decide.

\* The budgets that apply to a call with these counters, in document order.
Matching(ks) == SelectSeq(Document, LAMBDA b : b.key \in ks)

\* The distinct keys of the matching budgets, in document order.
KeysOf(ks) ==
    LET bs == Matching(ks)
        firsts == {i \in 1 .. Len(bs) : \A j \in 1 .. i - 1 : bs[j].key # bs[i].key}
        order == SetToSortSeq(firsts, <)
    IN  [i \in 1 .. Len(order) |-> bs[order[i]].key]

Limits(k, mode) == {Document[i].limit : i \in {j \in 1 .. Len(Document) :
                                                  Document[j].key = k /\ Document[j].mode = mode}}
Blocking(ks) == {k \in ks : Limits(k, "block") # {}}
Tightest(k) == Min(Limits(k, "block"))

\* decide: with used[k] the counter plus live reservations, whether an exhausted
\* block budget refuses the call, and the ceilings of the downgrade budgets.
Refuses(ks, used) == \E k \in Blocking(ks) : \E l \in Limits(k, "block") : used[k] >= l
Ceilings(ks, used) ==
    UNION {{Max({l - used[k], 0}) : l \in Limits(k, "downgrade")} : k \in ks}

\* pickDowngrade: the dearest cheaper tier that fits, else the cheapest one.
PickDowngrade(estimate, ceiling) ==
    LET cheaper == {p \in Prices : p < estimate}
        fitting == {p \in cheaper : p <= ceiling}
    IN  IF fitting # {} THEN Max(fitting)
        ELSE IF cheaper # {} THEN Min(cheaper) ELSE estimate

\* Only a chat request is downgraded.
Clamped(estimate, ceilings, chat) ==
    IF chat /\ ceilings # {} /\ estimate > Min(ceilings)
    THEN PickDowngrade(estimate, Min(ceilings)) ELSE estimate

-----------------------------------------------------------------------------
\* psBudget

Goto(c, at) == call' = [call EXCEPT ![c].at = at]
Over(c, at) == call' = [call EXCEPT ![c].at = at, ![c].estimate = 0, ![c].todo = << >>, ![c].held = {}]

Started(ks, estimate) ==
    [NoCall EXCEPT !.at = "reserving", !.keys = KeysOf(ks), !.todo = KeysOf(ks), !.estimate = estimate]

\* Steps 1 to 3: read, decide, downgrade.
Arrive(c) ==
    /\ call[c].at = "idle"
    /\ \E ks \in SUBSET Keys \ {{}}, estimate \in Costs, chat \in BOOLEAN :
          LET used == [k \in Keys |-> spent[k] + Reserved(k)]
          IN  call' = [call EXCEPT ![c] =
                  IF Refuses(ks, used) THEN [NoCall EXCEPT !.at = "refused"]
                  ELSE Started(ks, Clamped(estimate, Ceilings(ks, used), chat))]
    /\ UNCHANGED <<spent, reserved, charged, excess, faults>>

\* The read fails: nothing is reserved; with closed, unreadable budgets are exhausted.
ArriveBlind(c) ==
    /\ call[c].at = "idle" /\ Fault
    /\ \E ks \in SUBSET Keys \ {{}}, estimate \in Costs, chat \in BOOLEAN :
          LET closed == OnStoreError = "closed"
              ceilings == IF closed /\ \E k \in ks : Limits(k, "downgrade") # {} THEN {0} ELSE {}
          IN  call' = [call EXCEPT ![c] =
                  [Started(ks, Clamped(estimate, ceilings, chat)) EXCEPT
                      !.at = IF closed /\ Blocking(ks) # {} THEN "refused" ELSE "calling",
                      !.fault = TRUE]]
    /\ UNCHANGED <<spent, reserved, charged, excess>>

\* Step 4, one key after the other: the check and the reservation are one script.
Full(k) == Blocking({k}) # {} /\ spent[k] + Reserved(k) >= Tightest(k)

Reserve(c) ==
    /\ call[c].at = "reserving" /\ call[c].todo # << >>
    /\ LET k == Head(call[c].todo)
       IN  IF Full(k) THEN Goto(c, "releasing") /\ UNCHANGED reserved
           ELSE /\ call' = [call EXCEPT ![c].todo = Tail(@), ![c].held = @ \cup {k}]
                /\ reserved' = [reserved EXCEPT ![k][c] = call[c].estimate]
    /\ UNCHANGED <<spent, charged, excess, faults>>

\* The store fails before or after the script has run.
ReserveFails(c) ==
    /\ call[c].at = "reserving" /\ call[c].todo # << >> /\ Fault
    /\ LET k == Head(call[c].todo)
       IN  /\ \/ UNCHANGED reserved
              \/ ~Full(k) /\ reserved' = [reserved EXCEPT ![k][c] = call[c].estimate]
           /\ call' = [call EXCEPT ![c].todo = Tail(@), ![c].fault = TRUE,
                          ![c].at = IF OnStoreError = "closed" /\ Blocking({k}) # {}
                                    THEN "releasing" ELSE @]
    /\ UNCHANGED <<spent, charged, excess>>

Reserving(c) ==
    /\ call[c].at = "reserving" /\ call[c].todo = << >>
    /\ Goto(c, "calling")
    /\ UNCHANGED <<spent, reserved, charged, excess, faults>>

\* Mutant: a reservation stays with the budget.
MutRelease(c) ==
    /\ call[c].at = "releasing"
    /\ Over(c, "refused") /\ UNCHANGED <<spent, reserved, charged, excess, faults>>

\* release(): settle with no cost whatever was reserved, errors ignored.
Release(c) ==
    /\ call[c].at = "releasing"
    /\ IF call[c].held = {} THEN Over(c, "refused") /\ UNCHANGED <<spent, reserved, charged, excess, faults>>
       ELSE \E k \in call[c].held :
               \/ /\ SettleScript(k, c, 0)
                  /\ call' = [call EXCEPT ![c].held = @ \ {k}]
                  /\ UNCHANGED faults
               \/ /\ Fault
                  /\ call' = [call EXCEPT ![c].held = @ \ {k}, ![c].fault = TRUE]
                  /\ UNCHANGED <<spent, reserved, charged, excess>>

\* Step 5: next() throws; or it is a cache hit or failed (no cost), is priced,
\* or is unpriced and costs its estimate.
CallEnds(c) ==
    /\ call[c].at = "calling"
    /\ \/ /\ c \in GatewayCalls
          /\ Goto(c, "releasing")
       \/ \E actual \in Costs :
             call' = [call EXCEPT ![c].at = "settling", ![c].actual = actual, ![c].todo = call[c].keys]
    /\ UNCHANGED <<spent, reserved, charged, excess, faults>>

\* settle (and the SDK's commit), key by key; a failed write is not repeated.
Settle(c) ==
    /\ call[c].at = "settling" /\ call[c].todo # << >>
    /\ \/ /\ SettleScript(Head(call[c].todo), c, call[c].actual)
          /\ call' = [call EXCEPT ![c].todo = Tail(@), ![c].held = @ \ {Head(call[c].todo)}]
          /\ UNCHANGED faults
       \/ /\ Fault
          /\ call' = [call EXCEPT ![c].todo = Tail(@), ![c].fault = TRUE]
          /\ UNCHANGED <<spent, reserved, charged, excess>>

Settled(c) ==
    /\ call[c].at = "settling" /\ call[c].todo = << >>
    /\ Over(c, "served")
    /\ UNCHANGED <<spent, reserved, charged, excess, faults>>

\* The replica dies in the middle of a call.
Dies(c) ==
    /\ call[c].at \in {"reserving", "calling", "releasing", "settling"} /\ Fault
    /\ Over(c, "dead")
    /\ UNCHANGED <<spent, reserved, charged, excess>>

\* PS_BUDGET_RESERVATION_TTL_MS is over.
Lapse(k, c) ==
    /\ reserved[k][c] # NoReservation
    /\ reserved' = Without(k, c)
    /\ UNCHANGED <<spent, call, charged, excess, faults>>

-----------------------------------------------------------------------------
\* BudgetEnforcer: it sees the counters without the gateway's reservations.

Check(c) ==
    /\ call[c].at = "idle"
    /\ \E ks \in SUBSET Keys \ {{}} :
          call' = [call EXCEPT ![c] =
              [Started(ks, 0) EXCEPT !.at = IF Refuses(ks, spent) THEN "refused" ELSE "calling"]]
    /\ UNCHANGED <<spent, reserved, charged, excess, faults>>

CheckBlind(c) ==
    /\ call[c].at = "idle" /\ Fault
    /\ \E ks \in SUBSET Keys \ {{}} :
          call' = [call EXCEPT ![c] =
              [Started(ks, 0) EXCEPT
                  !.at = IF OnStoreError = "closed" /\ Blocking(ks) # {} THEN "refused" ELSE "calling",
                  !.fault = TRUE]]
    /\ UNCHANGED <<spent, reserved, charged, excess>>

Next ==
    \/ \E c \in GatewayCalls : \/ Arrive(c) \/ ArriveBlind(c) \/ Reserve(c) \/ ReserveFails(c)
                               \/ Reserving(c) \/ Release(c) \/ Dies(c)
                               \/ \E k \in Keys : Lapse(k, c)
    \/ \E c \in SdkCalls : Check(c) \/ CheckBlind(c)
    \/ \E c \in Calls : CallEnds(c) \/ Settle(c) \/ Settled(c)

Spec == Init /\ [][Next]_vars

-----------------------------------------------------------------------------
\* Properties.

\* "calls racing on several replicas see each other": but for spend that was
\* never reserved (SDK calls, a cost above its estimate, a lapsed reservation,
\* an unreadable store), a block budget is overshot by less than one call.
OvershootIsOneCall ==
    \A k \in Blocking(Keys) :
        spent[k] + Reserved(k) <= Max({Tightest(k) - 1, 0}) + MaxCost + excess[k]

\* "A call's cost is added once to each distinct key among its matching
\* budgets": never twice, and never forgotten unless the store failed.
ChargedOnce ==
    \A c \in Calls, k \in Keys :
        /\ charged[c][k] <= 1
        /\ (call[c].at = "served" /\ ~call[c].fault /\ call[c].actual > 0)
               => charged[c][k] = IF k \in Range(call[c].keys) THEN 1 ELSE 0

\* A call that is over holds no budget: refused half way through its keys or
\* thrown out of next(), its reservations are gone unless the store failed.
NothingHeldAfterwards ==
    \A c \in GatewayCalls, k \in Keys :
        call[c].at \in {"served", "refused"} /\ ~call[c].fault => reserved[k][c] = NoReservation

\* "Choose closed when overspend is worse than an outage": no gateway call is
\* sent unless each of its block budgets was checked and reserved.
ClosedIsChecked ==
    OnStoreError = "closed" =>
        \A c \in GatewayCalls :
            call[c].at = "calling" => Blocking(Range(call[c].keys)) \subseteq call[c].held
=============================================================================
