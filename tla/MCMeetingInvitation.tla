------------------------ MODULE MCMeetingInvitation ------------------------
(***************************************************************************)
(* A small instance of MeetingInvitation that begins where the interesting *)
(* cases do: one meeting is booked, delivered and in the calendar, and the *)
(* other invitation has yet to be made.  Every state of it is one that     *)
(* Init reaches, with the budget of changes and faults still unspent.      *)
(***************************************************************************)
EXTENDS MeetingInvitation

CONSTANTS i1, s1

Booked == [Absent EXCEPT !.status = "confirmed", !.slot = s1, !.receipt = TRUE]
OnlyFirst(booked, other) == [i \in Invites |-> IF i = i1 THEN booked ELSE other]
No == [i \in Invites |-> FALSE]

BookedInit ==
    /\ row = OnlyFirst(Booked, Absent)
    /\ meeting = OnlyFirst(s1, None)
    /\ event = OnlyFirst(s1, None)
    /\ work = [w \in Workers |-> Idle]
    /\ episode = [n |-> 0, open |-> FALSE]
    /\ host = [accepts |-> TRUE, granted |-> FALSE, outages |-> 0]
    /\ used = [changes |-> 0, faults |-> 0]
    /\ moved = No /\ edited = No /\ lapsed = No /\ lost = No

BookedSpec == BookedInit /\ [][Next]_vars /\ Fairness
=============================================================================
