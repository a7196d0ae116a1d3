--------------------------- MODULE MCEventDelivery ---------------------------
(* TLC instances of EventDelivery: the audit journal's wildcard subscriber *)
(* and a subscriber of one event type.                                     *)
EXTENDS EventDelivery, TLC

CONSTANTS journal, other

OneEvent == {1}
BothSubscribers == {journal, other}

MCInterested == [e \in Events |-> BothSubscribers]
=============================================================================
