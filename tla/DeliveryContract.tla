-------------------------- MODULE DeliveryContract --------------------------
(***************************************************************************)
(* What the webhook outbox promises about a queued delivery: it stays      *)
(* queued until the receiver has taken it or the collector gives up, the   *)
(* receiver only ever gets it while it is queued, and only the admin puts  *)
(* a settled one back in the queue.                                        *)
(*                                                                         *)
(* The promise rests on the claim of the worker that sends it.  Of a       *)
(* delivery that a worker may be sending without a claim, less is left: it *)
(* may be received and settled once more, but is still never queued again  *)
(* by anybody but the admin.                                               *)
(***************************************************************************)
EXTENDS Integers

CONSTANT Deliveries

VARIABLES
    status,   \* per delivery
    accepted, \* deliveries the receiver took since they were last queued
    unheld    \* deliveries that a worker may have sent without a claim

vars == <<status, accepted, unheld>>

Settled == {"succeeded", "dead"}
Statuses == {"none", "pending", "deleted"} \cup Settled

Init ==
    /\ status = [d \in Deliveries |-> "none"]
    /\ accepted = {} /\ unheld = {}

Queue(d) ==
    /\ status[d] = "none"
    /\ status' = [status EXCEPT ![d] = "pending"]
    /\ UNCHANGED <<accepted, unheld>>

Receive(d) ==
    /\ status[d] \in {"pending", "deleted"} \/ d \in unheld
    /\ accepted' = accepted \cup {d}
    /\ UNCHANGED <<status, unheld>>

Succeed(d) ==
    /\ status[d] = "pending"
    /\ d \in accepted \cup unheld
    /\ status' = [status EXCEPT ![d] = "succeeded"]
    /\ UNCHANGED <<accepted, unheld>>

GiveUp(d) ==
    /\ status[d] = "pending"
    /\ status' = [status EXCEPT ![d] = "dead"]
    /\ UNCHANGED <<accepted, unheld>>

\* A worker without a claim settles what another has settled before.
SettleAgain(d) ==
    /\ d \in unheld /\ status[d] \in Settled
    /\ status' \in {[status EXCEPT ![d] = s] : s \in Settled}
    /\ UNCHANGED <<accepted, unheld>>

LoseClaims ==
    /\ unheld' \in SUBSET Deliveries /\ unheld \subseteq unheld'
    /\ UNCHANGED <<status, accepted>>

Redeliver(d) ==
    /\ status[d] \in Settled
    /\ status' = [status EXCEPT ![d] = "pending"]
    /\ accepted' = accepted \ {d}
    /\ UNCHANGED unheld

\* Settled deliveries are purged; all of them go with their subscription.
Remove ==
    /\ \E gone \in SUBSET Deliveries :
          /\ gone # {}
          /\ \A d \in gone : status[d] # "deleted"
          /\ status' = [d \in Deliveries |-> IF d \in gone THEN "deleted" ELSE status[d]]
    /\ UNCHANGED <<accepted, unheld>>

Next ==
    \/ \E d \in Deliveries :
          Queue(d) \/ Receive(d) \/ Succeed(d) \/ GiveUp(d) \/ SettleAgain(d) \/ Redeliver(d)
    \/ LoseClaims \/ Remove

Spec == Init /\ [][Next]_vars

\* Nothing stays queued for good.
FairSpec == Spec /\ \A d \in Deliveries : WF_vars(Succeed(d) \/ GiveUp(d))
=============================================================================
