------------------------ MODULE MCWebhookDelivery ------------------------
(* Instances of WebhookDelivery for TLC. *)
EXTENDS WebhookDelivery, TLC

Symmetry == Permutations(Consumers) \cup Permutations(Sweepers) \cup Permutations(Owners)
==========================================================================
