-------------------------- MODULE WebhookLifecycle --------------------------
(***************************************************************************)
(* What a webhook delivery promises, with no claims, leases or processes:  *)
(* one row, one budget of attempts that is spent one recorded attempt at a *)
(* time, and no way back from visibility_revoked.  WebhookDelivery shows   *)
(* that the senders, racing for leases, implement it.                      *)
(***************************************************************************)
EXTENDS Naturals

CONSTANTS Deliveries, MaxAttempts

VARIABLES
    status,  \* webhook_delivery.status, or "none" before there is a row
    used     \* attempts recorded in the current budget

vars == <<status, used>>

Init ==
    /\ status = [d \in Deliveries |-> "none"]
    /\ used = [d \in Deliveries |-> 0]

\* A matching event creates the row, for several subscriptions in one
\* transaction; a body that cannot be rendered parks its row at once.
FannedOut ==
    \E D \in SUBSET Deliveries :
        /\ \A d \in D : status[d] = "none"
        /\ \E s \in [D -> {"pending", "dead_lettered"}] :
             status' = [d \in Deliveries |-> IF d \in D THEN s[d] ELSE status[d]]
        /\ UNCHANGED used

Open(d) == status[d] \in {"pending", "retrying"}

Delivered(d) ==
    /\ Open(d)
    /\ status' = [status EXCEPT ![d] = "delivered"]
    /\ used' = [used EXCEPT ![d] = @ + 1]

AttemptFailed(d) ==
    /\ Open(d)
    /\ used' = [used EXCEPT ![d] = @ + 1]
    /\ status' = [status EXCEPT ![d] =
                    IF used[d] + 1 = MaxAttempts THEN "dead_lettered" ELSE "retrying"]

\* A person replays it: a fresh budget. A delivery never attempted has none.
Reopened(d) ==
    /\ status[d] \in {"retrying", "dead_lettered"}
    /\ used[d] > 0
    /\ status' = [status EXCEPT ![d] = "pending"]
    /\ used' = [used EXCEPT ![d] = 0]

\* The owner may no longer see the subject. The budget is told no more.
Revoked(d) ==
    /\ status[d] \notin {"none", "visibility_revoked"}
    /\ status' = [status EXCEPT ![d] = "visibility_revoked"]
    /\ used' = [used EXCEPT ![d] = 0]

Next ==
    \/ FannedOut
    \/ \E d \in Deliveries :
         Delivered(d) \/ AttemptFailed(d) \/ Reopened(d) \/ Revoked(d)

Spec == Init /\ [][Next]_vars
=============================================================================
