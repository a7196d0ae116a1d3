-------------------------- MODULE ReliableDelivery --------------------------
(***************************************************************************)
(* What the event transport promises (event.types.ts: "Delivery is         *)
(* at-least-once"): once an event is committed, each interested subscriber *)
(* is owed it, and is either run to completion on it or has its failure    *)
(* settled for good.  A debt is never forgotten.                           *)
(***************************************************************************)
CONSTANTS Deliveries,            \* <<event, subscriber>> pairs
          EventOf(_)             \* the event of a pair

VARIABLE outcome                 \* [Deliveries -> Outcomes]

Outcomes == {"none", "owed", "handled", "failed"}

Init == outcome = [d \in Deliveries |-> "none"]

Announce(e) ==
    /\ \A d \in Deliveries : EventOf(d) = e => outcome[d] = "none"
    /\ outcome' = [d \in Deliveries |->
                     IF EventOf(d) = e THEN "owed" ELSE outcome[d]]

\* A failed delivery may still be run later, by hand or by a late redelivery.
Settle(d) ==
    \/ /\ outcome[d] \in {"owed", "failed"}
       /\ outcome' = [outcome EXCEPT ![d] = "handled"]
    \/ /\ outcome[d] = "owed"
       /\ outcome' = [outcome EXCEPT ![d] = "failed"]

SettleDebt(d) == outcome[d] = "owed" /\ Settle(d)

Next == \/ \E d \in Deliveries : Announce(EventOf(d))
        \/ \E d \in Deliveries : Settle(d)

Spec == /\ Init
        /\ [][Next]_outcome
        /\ \A d \in Deliveries : WF_outcome(SettleDebt(d))
=============================================================================
