---------------------------- MODULE MCApprovals ----------------------------
(***************************************************************************)
(* Small instances of Approvals: two cards about one record, two requests. *)
(***************************************************************************)
EXTENDS Approvals, TLC

CONSTANTS c1, c2, w1, w2, x, y

\* One card of a server's or an agent's, and one of a server's.
Mixed == c1 :> {"pinned", "stepup", "call"} @@ c2 :> {"pinned", "split"}

\* A step-up alone.
OnlyStepUp == c1 :> {"stepup"}
=============================================================================
