---------------------------- MODULE MCEventBus ----------------------------
(* Instances of EventBus for TLC. *)
EXTENDS EventBus, TLC

CONSTANTS e1, e2, deal

OneEvent == {e1}
TwoEvents == {e1, e2}

\* One event, or two of one deal.
OneDeal == [e \in OneEvent |-> deal]
SameDeal == [e \in TwoEvents |-> deal]

Second == {e2}

Symmetry == Permutations(Consumers) \cup Permutations(Relays)
===========================================================================
