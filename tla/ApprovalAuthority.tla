------------------------- MODULE ApprovalAuthority -------------------------
(***************************************************************************)
(* What an approval promises, with nothing of how it keeps it: a question  *)
(* is asked once and gets one verdict; only a yes can be spent, and only   *)
(* once; and what was agreed to is settled when the yes is given, whatever *)
(* happens afterwards.  Several cards may move in one step.                *)
(***************************************************************************)
CONSTANTS Cards, Changes

VARIABLES
    verdict,  \* where each card has got to
    terms     \* the change it stands for

Verdicts == {"none", "open", "granted", "refused", "closed", "spent"}

\* The moves a card may make.  "closed" is a question nobody answered.
Moves == {<<"none", "open">>, <<"open", "granted">>, <<"open", "refused">>,
          <<"open", "closed">>, <<"granted", "spent">>}

Init ==
    /\ verdict = [c \in Cards |-> "none"]
    /\ terms \in [Cards -> Changes]

\* The terms are the asker's until the question is out, and the answerer's
\* until the answer is.
MayChangeTerms(c) ==
    \/ verdict[c] = "none"
    \/ verdict[c] = "open" /\ verdict'[c] = "granted"

CardStep(c) ==
    /\ verdict'[c] = verdict[c] \/ <<verdict[c], verdict'[c]>> \in Moves
    /\ terms'[c] = terms[c] \/ MayChangeTerms(c)

Next ==
    /\ verdict' \in [Cards -> Verdicts]
    /\ terms' \in [Cards -> Changes]
    /\ \A c \in Cards : CardStep(c)

Spec == Init /\ [][Next]_<<verdict, terms>>
=============================================================================
