------------------------- MODULE MCEventToWebhook -------------------------
(* Instances of EventToWebhook for TLC. *)
EXTENDS EventToWebhook, TLC

CONSTANTS e1, deal

OneEvent == {e1}
OneDeal == [e \in OneEvent |-> deal]

Symmetry == Permutations(Consumers)
===========================================================================
