----------------------------- MODULE MCDataTask -----------------------------
(***************************************************************************)
(* Small instances of DataTask.  Release 1 is the one being replaced: the  *)
(* shell still runs it.  Release 2, which the worker and the operator run, *)
(* changes the review rules of the first step, a reviewed one, and raises  *)
(* the version of the second, an automatic one.                            *)
(***************************************************************************)
EXTENDS DataTask, TLC

CONSTANTS w1, c1, o1

Rolling == w1 :> 2 @@ o1 :> 2 @@ c1 :> 1
Versions == (1 :> <<1, 1>>) @@ (2 :> <<1, 2>>)
Rules == (1 :> <<1, 1>>) @@ (2 :> <<2, 1>>)

\* A reviewed step of two rows and an automatic one of one, or of two.
LongReview == <<2, 1>>
LongCorrection == <<1, 2>>
Ones == <<1, 1>>
Twos == <<2, 2>>
=============================================================================
