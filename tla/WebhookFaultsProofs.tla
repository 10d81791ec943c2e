------------------------- MODULE WebhookFaultsProofs -------------------------
(***************************************************************************)
(* What faults may cost a webhook delivery, for any number of processes    *)
(* and any bounds: senders at once, POSTs beyond the budget, and whether   *)
(* an owed delivery can be skipped.                                        *)
(*                                                                         *)
(* The argument counts.  A sender is engaged while it may still POST       *)
(* without another look at the row.  One engaged sender at most is held,   *)
(* that is, the row waits for it under a claim that stands; every other    *)
(* one was paid for by a fault.  And each POST made or still to come is    *)
(* covered by a recorded attempt, by a fault, or by the sender held.       *)
(***************************************************************************)
EXTENDS WebhookDeliveryProofs, FiniteSetTheorems

Eager(p, d) ==
    /\ AtWorkOn(p, d)
    /\ at[p].pc # "revoke"
    /\ p \in Replayers => at[p].pc \in {"post", "record"}

\* The senders that may POST, or have posted and not recorded, and those yet to.
Engaged(d) == {p \in Senders : Eager(p, d)}
Yet(d) == {p \in Senders : Eager(p, d) /\ at[p].pc # "record"}

\* The row waits for this sender, under a claim that stands or a first attempt's.
Held(d) ==
    \E p \in Engaged(d) : at[p].claim = row[d].claim /\ (row[d].live \/ row[d].claim = 0)

Revoked(d) == row[d].status = "visibility_revoked"

EngagedCount(d) == Cardinality(Engaged(d))
Posts(d) == sent[d] + Cardinality(Yet(d))
Grace(d) == IF Held(d) THEN 1 ELSE 0

Paid(d) ==
    /\ IsFiniteSet(Engaged(d))
    /\ Revoked(d) => EngagedCount(d) <= 1 + faults /\ Posts(d) <= MaxAttempts + faults
    /\ ~Revoked(d) => /\ EngagedCount(d) <= Grace(d) + faults
                      /\ Posts(d) <= Used(d) + Grace(d) + faults

PaidInv == \A d \in Deliveries : Paid(d)

\* What a consumer knows of a delivery that is owed, on the way to its row.
Candidate(d) == <<d[1], sub[d[1]].owner>>

InView(c, d) ==
    fan[c].pc # "idle" /\ fan[c].event = d[2] =>
        /\ fan[c].pc = "check" =>
             fan[c].err \/ Candidate(d) \in fan[c].todo \/ Candidate(d) \in fan[c].visible
        /\ fan[c].pc = "attempt" => fan[c].err \/ row[d].status # "none"

OwedInv ==
    /\ \A d \in steady : Eligible(d)
    /\ \A c \in Consumers : fan[c].pc # "idle" => bus[fan[c].event] # "unpublished"
    /\ \A c \in Consumers, d \in steady : InView(c, d)
    /\ NothingOwedIsLost

-----------------------------------------------------------------------------
(* Counting.                                                               *)

\* The counts of a delivery are natural numbers.
LEMMA CountTypes ==
    ASSUME TypeOK, NEW d \in Deliveries, IsFiniteSet(Engaged(d))
    PROVE  /\ EngagedCount(d) \in Nat /\ Posts(d) \in Nat /\ Used(d) \in Nat
           /\ Grace(d) \in {0, 1} /\ faults \in Nat /\ sent[d] \in Nat
           /\ IsFiniteSet(Yet(d)) /\ Cardinality(Yet(d)) \in Nat
           /\ Cardinality(Yet(d)) <= EngagedCount(d)
<1>1. Yet(d) \in SUBSET Engaged(d)
  BY DEF Yet, Engaged
<1>2. IsFiniteSet(Yet(d)) /\ Cardinality(Yet(d)) <= Cardinality(Engaged(d))
  BY <1>1, FS_Subset
<1>3. Cardinality(Yet(d)) \in Nat /\ Cardinality(Engaged(d)) \in Nat
  BY <1>2, FS_CardinalityType
<1>4. sent[d] \in Nat /\ faults \in Nat /\ Used(d) \in Nat
  BY BoundsAssumption DEF TypeOK, Delivery, Used
<1> QED
  BY <1>2, <1>3, <1>4 DEF EngagedCount, Posts, Grace

LEMMA CountTypesNext ==
    ASSUME TypeOK', NEW d \in Deliveries, IsFiniteSet(Engaged(d)')
    PROVE  /\ EngagedCount(d)' \in Nat /\ Posts(d)' \in Nat /\ Used(d)' \in Nat
           /\ Grace(d)' \in {0, 1} /\ faults' \in Nat /\ sent'[d] \in Nat
           /\ IsFiniteSet(Yet(d)') /\ Cardinality(Yet(d)') \in Nat
           /\ Cardinality(Yet(d)') <= EngagedCount(d)'
<1>1. Yet(d)' \in SUBSET Engaged(d)'
  BY DEF Yet, Engaged
<1>2. IsFiniteSet(Yet(d)') /\ Cardinality(Yet(d)') <= Cardinality(Engaged(d)')
  BY <1>1, FS_Subset
<1>3. Cardinality(Yet(d)') \in Nat /\ Cardinality(Engaged(d)') \in Nat
  BY <1>2, FS_CardinalityType
<1>4. sent'[d] \in Nat /\ faults' \in Nat /\ Used(d)' \in Nat
  BY BoundsAssumption DEF TypeOK, Delivery, Used
<1> QED
  BY <1>2, <1>3, <1>4 DEF EngagedCount, Posts, Grace

\* A set that changes by one sender at most changes its size accordingly.
LEMMA OneMoves ==
    ASSUME NEW S, NEW T, NEW p, IsFiniteSet(S), S \ {p} = T \ {p}
    PROVE  /\ IsFiniteSet(T)
           /\ Cardinality(S) \in Nat /\ Cardinality(T) \in Nat
           /\ p \in S /\ p \notin T => Cardinality(T) = Cardinality(S) - 1
           /\ p \notin S /\ p \in T => Cardinality(T) = Cardinality(S) + 1
           /\ (p \in S <=> p \in T) => T = S
<1>1. CASE p \in S /\ p \notin T
  <2>1. T = S \ {p}
    BY <1>1
  <2> QED
    BY <1>1, <2>1, FS_RemoveElement, FS_CardinalityType
<1>2. CASE p \notin S /\ p \in T
  <2>1. T = S \cup {p}
    BY <1>2
  <2> QED
    BY <1>2, <2>1, FS_AddElement, FS_CardinalityType
<1>3. CASE p \in S <=> p \in T
  <2>1. T = S
    BY <1>3
  <2> QED
    BY <1>3, <2>1, FS_CardinalityType
<1> QED
  BY <1>1, <1>2, <1>3

\* One sender moves: what that does to the two sets.
LEMMA Counting ==
    ASSUME NEW d \in Deliveries, IsFiniteSet(Engaged(d)),
           NEW p \in Senders, \A q \in Senders \ {p} : at'[q] = at[q]
    PROVE  /\ IsFiniteSet(Engaged(d)')
           /\ Eager(p, d) /\ ~Eager(p, d)' => EngagedCount(d)' = EngagedCount(d) - 1
           /\ ~Eager(p, d) /\ Eager(p, d)' => EngagedCount(d)' = EngagedCount(d) + 1
           /\ (Eager(p, d) <=> Eager(p, d)') => Engaged(d)' = Engaged(d)
           /\ p \in Yet(d) /\ p \notin Yet(d)' => Cardinality(Yet(d)') = Cardinality(Yet(d)) - 1
           /\ p \notin Yet(d) /\ p \in Yet(d)' => Cardinality(Yet(d)') = Cardinality(Yet(d)) + 1
           /\ (p \in Yet(d) <=> p \in Yet(d)') => Yet(d)' = Yet(d)
<1>1. \A q \in Senders \ {p} : Eager(q, d)' <=> Eager(q, d)
  BY DEF Eager, AtWorkOn
<1>2. Engaged(d) \ {p} = Engaged(d)' \ {p} /\ Yet(d) \ {p} = Yet(d)' \ {p}
  BY <1>1 DEF Engaged, Yet
<1>3. IsFiniteSet(Yet(d))
  <2>1. Yet(d) \in SUBSET Engaged(d)
    BY DEF Yet, Engaged
  <2> QED
    BY <2>1, FS_Subset
<1>4. (p \in Engaged(d) <=> Eager(p, d)) /\ (p \in Engaged(d)' <=> Eager(p, d)')
  BY DEF Engaged
<1>5. /\ IsFiniteSet(Engaged(d)')
      /\ p \in Engaged(d) /\ p \notin Engaged(d)' => EngagedCount(d)' = EngagedCount(d) - 1
      /\ p \notin Engaged(d) /\ p \in Engaged(d)' => EngagedCount(d)' = EngagedCount(d) + 1
      /\ (p \in Engaged(d) <=> p \in Engaged(d)') => Engaged(d)' = Engaged(d)
  <2> DEFINE S == Engaged(d)
             T == Engaged(d)'
  <2>1. S \ {p} = T \ {p} /\ IsFiniteSet(S)
    BY <1>2
  <2>2. EngagedCount(d) = Cardinality(S) /\ EngagedCount(d)' = Cardinality(T)
    BY DEF EngagedCount
  <2> HIDE DEF S, T
  <2>3. /\ IsFiniteSet(T)
        /\ p \in S /\ p \notin T => Cardinality(T) = Cardinality(S) - 1
        /\ p \notin S /\ p \in T => Cardinality(T) = Cardinality(S) + 1
        /\ (p \in S <=> p \in T) => T = S
    BY <2>1, OneMoves
  <2> QED
    BY <2>2, <2>3 DEF S, T
<1>6. /\ p \in Yet(d) /\ p \notin Yet(d)' => Cardinality(Yet(d)') = Cardinality(Yet(d)) - 1
      /\ p \notin Yet(d) /\ p \in Yet(d)' => Cardinality(Yet(d)') = Cardinality(Yet(d)) + 1
      /\ (p \in Yet(d) <=> p \in Yet(d)') => Yet(d)' = Yet(d)
  <2> DEFINE S == Yet(d)
             T == Yet(d)'
  <2>1. S \ {p} = T \ {p} /\ IsFiniteSet(S)
    BY <1>2, <1>3
  <2> HIDE DEF S, T
  <2>3. /\ p \in S /\ p \notin T => Cardinality(T) = Cardinality(S) - 1
        /\ p \notin S /\ p \in T => Cardinality(T) = Cardinality(S) + 1
        /\ (p \in S <=> p \in T) => T = S
    BY <2>1, OneMoves
  <2> QED
    BY <2>3 DEF S, T
<1> QED
  BY <1>4, <1>5, <1>6

\* A step that lets nobody in, under a row that keeps its standing.
LEMMA Relaxes ==
    ASSUME TypeOK, TypeOK', NEW d \in Deliveries, Paid(d), IsFiniteSet(Engaged(d)'),
           EngagedCount(d)' <= EngagedCount(d), Posts(d)' <= Posts(d),
           Revoked(d)' <=> Revoked(d), Used(d)' >= Used(d), faults' >= faults,
           Revoked(d) \/ (Held(d) => Held(d)')
    PROVE  Paid(d)'
<1>1. /\ EngagedCount(d) \in Nat /\ Posts(d) \in Nat /\ Used(d) \in Nat
      /\ Grace(d) \in {0, 1} /\ faults \in Nat
  BY CountTypes DEF Paid
<1>2. /\ EngagedCount(d)' \in Nat /\ Posts(d)' \in Nat /\ Used(d)' \in Nat
      /\ Grace(d)' \in {0, 1} /\ faults' \in Nat
  BY CountTypesNext
<1>3. CASE Revoked(d)
  BY <1>1, <1>2, <1>3, AttemptsAssumption DEF Paid
<1>4. CASE ~Revoked(d)
  <2>1. Grace(d)' >= Grace(d)
    BY <1>4 DEF Grace
  <2> QED
    BY <1>1, <1>2, <1>4, <2>1 DEF Paid
<1> QED
  BY <1>3, <1>4

\* A step in which a fault pays for whoever the row no longer waits for.
LEMMA FaultPays ==
    ASSUME TypeOK, TypeOK', NEW d \in Deliveries, Paid(d), IsFiniteSet(Engaged(d)'),
           EngagedCount(d)' <= EngagedCount(d), Posts(d)' <= Posts(d),
           Revoked(d)' <=> Revoked(d), Used(d)' >= Used(d), faults' = faults + 1
    PROVE  Paid(d)'
<1>1. /\ EngagedCount(d) \in Nat /\ Posts(d) \in Nat /\ Used(d) \in Nat
      /\ Grace(d) \in {0, 1} /\ faults \in Nat
  BY CountTypes DEF Paid
<1>2. /\ EngagedCount(d)' \in Nat /\ Posts(d)' \in Nat /\ Used(d)' \in Nat
      /\ Grace(d)' \in {0, 1} /\ faults' \in Nat
  BY CountTypesNext
<1> QED
  BY <1>1, <1>2, AttemptsAssumption DEF Paid

\* A sender leaves, and its POST is not owed any more or is now on record.
LEMMA OneLeaves ==
    ASSUME TypeOK, TypeOK', NEW d \in Deliveries, Paid(d), IsFiniteSet(Engaged(d)'),
           EngagedCount(d)' = EngagedCount(d) - 1,
           \/ Posts(d)' <= Posts(d) - 1 /\ Used(d)' >= Used(d)
           \/ Posts(d)' <= Posts(d) /\ Used(d)' >= Used(d) + 1,
           ~Revoked(d), ~Revoked(d)', faults' >= faults
    PROVE  Paid(d)'
<1>1. /\ EngagedCount(d) \in Nat /\ Posts(d) \in Nat /\ Used(d) \in Nat
      /\ Grace(d) \in {0, 1} /\ faults \in Nat
  BY CountTypes DEF Paid
<1>2. /\ EngagedCount(d)' \in Nat /\ Posts(d)' \in Nat /\ Used(d)' \in Nat
      /\ Grace(d)' \in {0, 1} /\ faults' \in Nat
  BY CountTypesNext
<1> QED
  BY <1>1, <1>2, AttemptsAssumption DEF Paid

\* A sender joins a row that waited for nobody, and the row waits for it now.
LEMMA OneJoins ==
    ASSUME TypeOK, TypeOK', NEW d \in Deliveries, Paid(d), IsFiniteSet(Engaged(d)'),
           EngagedCount(d)' = EngagedCount(d) + 1,
           Posts(d)' <= Posts(d) + 1 \/ Posts(d)' <= EngagedCount(d) + 1,
           Used(d)' = Used(d) \/ (Used(d)' = 0 /\ Posts(d)' <= EngagedCount(d) + 1),
           ~Revoked(d), ~Revoked(d)', ~Held(d), Held(d)', faults' = faults
    PROVE  Paid(d)'
<1>1. /\ EngagedCount(d) \in Nat /\ Posts(d) \in Nat /\ Used(d) \in Nat
      /\ Grace(d) = 0 /\ faults \in Nat
  BY CountTypes DEF Paid, Grace
<1>2. /\ EngagedCount(d)' \in Nat /\ Posts(d)' \in Nat /\ Used(d)' \in Nat
      /\ Grace(d)' = 1 /\ faults' \in Nat
  BY CountTypesNext DEF Grace
<1> QED
  BY <1>1, <1>2, AttemptsAssumption DEF Paid

-----------------------------------------------------------------------------
(* Whom a row waits for.                                                   *)

\* Only the consumer of a first attempt is held without a claim.
LEMMA HeldUnclaimed ==
    ASSUME IInv, NEW d \in Deliveries, Held(d), row[d].claim = 0
    PROVE  \E c \in Consumers : AtWorkOn(c, d)
<1>1. PICK p \in Engaged(d) : at[p].claim = 0
  BY DEF Held
<1>2. p \in Senders /\ AtWorkOn(p, d) /\ (p \in Replayers => at[p].pc \in {"post", "record"})
  BY DEF Engaged, Eager
<1>3. p \notin Sweepers /\ p \notin Replayers
  BY <1>1, <1>2 DEF IInv, ClaimInv, AtWorkOn
<1> QED
  BY <1>2, <1>3 DEF Senders

\* A row that is free to be taken, or not there, or closed, waits for nobody.
LEMMA FreeIsUnheld ==
    ASSUME IInv, NEW d \in Deliveries,
           \/ row[d].status \in {"retrying", "dead_lettered"} /\ ~row[d].live
           \/ row[d].status \in {"none", "delivered", "dead_lettered"}
    PROVE  ~Held(d)
<1> SUFFICES ASSUME Held(d) PROVE FALSE
  OBVIOUS
<1>1. row[d].claim = 0
  BY DEF Held, IInv, CountInv, RestingUnclaimed
<1>2. PICK c \in Consumers : AtWorkOn(c, d)
  BY <1>1, HeldUnclaimed
<1>3. row[d].status = "pending"
  BY <1>2 DEF IInv, FirstInv, First
<1> QED
  BY <1>3

\* A first attempt that has not begun is nobody's.
LEMMA TargetIsUnheld ==
    ASSUME IInv, NEW c \in Consumers, NEW d \in Deliveries, Target(c, d)
    PROVE  ~Held(d) /\ row[d].status = "pending" /\ row[d].claim = 0
<1>1. row[d].status = "pending" /\ row[d].claim = 0
  BY DEF IInv, FirstInv, First
<1>2. ASSUME Held(d) PROVE FALSE
  <2>1. PICK q \in Consumers : AtWorkOn(q, d)
    BY <1>1, <1>2, HeldUnclaimed
  <2> QED
    BY <2>1 DEF IInv, FirstInv, First
<1> QED
  BY <1>1, <1>2

\* What the row has used, and the sender it waits for, fit in the budget.
LEMMA HeldFits ==
    ASSUME IInv, AttemptedInv, NEW d \in Deliveries, ~Revoked(d)
    PROVE  Used(d) + Grace(d) <= MaxAttempts
<1>1. row[d] \in Delivery
  BY DEF IInv, TypeInv, TypeOK
<1>2. row[d].attempts \in Nat /\ row[d].attempts <= MaxAttempts /\ row[d].status \in States
  BY <1>1 DEF Delivery, IInv, CountInv, CountsInBudget
<1>3. CASE row[d].status \in {"none", "delivered", "dead_lettered"}
  BY <1>2, <1>3, FreeIsUnheld DEF Grace, Used
<1>4. CASE row[d].status = "retrying"
  <2>1. row[d].attempts \in 1 .. MaxAttempts - 1
    BY <1>4 DEF IInv, CountInv, CountsInBudget
  <2> QED
    BY <2>1, <1>4, AttemptsAssumption DEF Grace, Used
<1>5. CASE row[d].status = "pending"
  BY <1>5, AttemptsAssumption DEF Grace, Used
<1> QED
  BY <1>2, <1>3, <1>4, <1>5 DEF States, Revoked

\* Whoever was waited for still is, if the row stands and nobody left.
LEMMA HeldStays ==
    ASSUME NEW d \in Deliveries, NEW p \in Senders,
           \A q \in Senders \ {p} : at'[q] = at[q],
           row'[d].claim = row[d].claim, row[d].live => row'[d].live,
           Eager(p, d) => Eager(p, d)' /\ at'[p].claim = at[p].claim,
           Held(d)
    PROVE  Held(d)'
<1>1. PICK q \in Engaged(d) : at[q].claim = row[d].claim /\ (row[d].live \/ row[d].claim = 0)
  BY DEF Held
<1>2. q \in Senders /\ Eager(q, d)
  BY <1>1 DEF Engaged
<1>3. Eager(q, d)' /\ at'[q].claim = at[q].claim
  BY <1>2 DEF Eager, AtWorkOn
<1>4. q \in Engaged(d)'
  BY <1>2, <1>3 DEF Engaged
<1> QED
  BY <1>1, <1>3, <1>4 DEF Held

-----------------------------------------------------------------------------
(* The steps.                                                              *)

\* A step of an attempt that writes no row lets nobody in, and whoever leaves
\* without having posted is owed no POST, or leaves by a fault.
LEMMA MoveEffect ==
    ASSUME TypeInv, NEW d \in Deliveries, NEW p \in Senders,
           \/ LoadTarget(p) \/ StillOwner(p) \/ StillSees(p) \/ CheckFails(p)
           \/ Post(p) \/ FailUnsent(p) \/ Abandon(p)
    PROVE  /\ faults' \in {faults, faults + 1}
           /\ Eager(p, d)' => Eager(p, d) /\ at'[p].claim = at[p].claim
           /\ p \in Yet(d)' => p \in Yet(d)
           /\ \/ sent'[d] = sent[d]
              \/ /\ sent'[d] = sent[d] + 1
                 /\ p \in Yet(d) /\ p \notin Yet(d)' /\ Eager(p, d)'
           /\ Eager(p, d) /\ ~Eager(p, d)' => faults' = faults + 1 \/ p \in Yet(d)
<1> USE DEF Eager, AtWorkOn, Yet, TypeInv, TypeOK, AttemptTarget, ghosts
<1>1. CASE LoadTarget(p)
  BY <1>1 DEF LoadTarget
<1>2. CASE StillOwner(p)
  BY <1>2 DEF StillOwner
<1>3. CASE StillSees(p)
  <2>1. at'[p].pc \in {"revoke", "reset", "post"} /\ (p \in Replayers => at'[p].pc # "post")
    BY <1>3 DEF StillSees
  <2>2. at'[p].d = at[p].d /\ at'[p].claim = at[p].claim
    BY <1>3 DEF StillSees
  <2>3. p \notin Replayers => at'[p].pc # "reset"
    BY <1>3 DEF StillSees
  <2>4. at[p].pc = "see" /\ UNCHANGED <<faults, sent>>
    BY <1>3 DEF StillSees
  <2> QED
    BY <2>1, <2>2, <2>3, <2>4
<1>4. CASE CheckFails(p)
  <2>1. CASE p \in Replayers
    BY <1>4, <2>1 DEF CheckFails, Idle, NewAttempt
  <2>2. CASE p \notin Replayers
    BY <1>4, <2>2 DEF CheckFails
  <2> QED
    BY <2>1, <2>2
<1>5. CASE Post(p)
  <2>1. PICK res \in {"ok", "fail"} :
          at' = [at EXCEPT ![p] = [@ EXCEPT !.pc = "record", !.res = res]]
    BY <1>5 DEF Post
  <2>2. at'[p].pc = "record" /\ at'[p].d = at[p].d /\ at'[p].claim = at[p].claim
    BY <2>1
  <2>3. at[p].pc = "post" /\ faults' = faults /\ sent' = [sent EXCEPT ![at[p].d] = @ + 1]
    BY <1>5 DEF Post
  <2> QED
    BY <2>2, <2>3
<1>6. CASE FailUnsent(p)
  BY <1>6 DEF FailUnsent
<1>7. CASE Abandon(p)
  BY <1>7 DEF Abandon, Idle, NewAttempt
<1> QED
  BY <1>1, <1>2, <1>3, <1>4, <1>5, <1>6, <1>7

LEMMA MoveIsPaid ==
    ASSUME IInv, TypeOK', NEW d \in Deliveries, Paid(d), NEW p \in Senders,
           \/ LoadTarget(p) \/ StillOwner(p) \/ StillSees(p) \/ CheckFails(p)
           \/ Post(p) \/ FailUnsent(p) \/ Abandon(p)
    PROVE  Paid(d)'
<1>0. TypeInv /\ TypeOK /\ IsFiniteSet(Engaged(d))
  BY DEF IInv, TypeInv, Paid
<1>1. row' = row /\ \A q \in Senders \ {p} : at'[q] = at[q]
  BY <1>0, MoveShape DEF Moves
<1>2. /\ faults' \in {faults, faults + 1}
      /\ Eager(p, d)' => Eager(p, d) /\ at'[p].claim = at[p].claim
      /\ p \in Yet(d)' => p \in Yet(d)
      /\ \/ sent'[d] = sent[d]
         \/ /\ sent'[d] = sent[d] + 1
            /\ p \in Yet(d) /\ p \notin Yet(d)' /\ Eager(p, d)'
      /\ Eager(p, d) /\ ~Eager(p, d)' => faults' = faults + 1 \/ p \in Yet(d)
  BY <1>0, MoveEffect
<1>3. /\ IsFiniteSet(Engaged(d)')
      /\ Eager(p, d) /\ ~Eager(p, d)' => EngagedCount(d)' = EngagedCount(d) - 1
      /\ (Eager(p, d) <=> Eager(p, d)') => Engaged(d)' = Engaged(d)
      /\ p \in Yet(d) /\ p \notin Yet(d)' => Cardinality(Yet(d)') = Cardinality(Yet(d)) - 1
      /\ (p \in Yet(d) <=> p \in Yet(d)') => Yet(d)' = Yet(d)
  BY <1>0, <1>1, Counting
<1>4. /\ EngagedCount(d) \in Nat /\ sent[d] \in Nat /\ Cardinality(Yet(d)) \in Nat
      /\ faults \in Nat /\ Used(d) \in Nat
  BY <1>0, CountTypes
<1>5. (Revoked(d)' <=> Revoked(d)) /\ Used(d)' = Used(d)
  BY <1>1 DEF Revoked, Used
<1>6. Posts(d)' <= Posts(d) /\ EngagedCount(d)' <= EngagedCount(d) /\ faults' >= faults
  BY <1>2, <1>3, <1>4 DEF Posts, EngagedCount
<1>7. CASE Eager(p, d) => Eager(p, d)'
  <2>1. Held(d) => Held(d)'
    BY <1>1, <1>2, <1>7, HeldStays
  <2> QED
    BY <1>0, <1>3, <1>4, <1>5, <1>6, <2>1, Relaxes
<1>8. CASE Eager(p, d) /\ ~Eager(p, d)' /\ faults' = faults + 1
  BY <1>0, <1>3, <1>4, <1>5, <1>6, <1>8, FaultPays
<1>9. CASE Eager(p, d) /\ ~Eager(p, d)' /\ p \in Yet(d)
  <2>1. p \notin Yet(d)'
    BY <1>9 DEF Yet
  <2>2. Posts(d)' <= Posts(d) - 1
    BY <1>2, <1>3, <1>4, <1>9, <2>1 DEF Posts
  <2>3. CASE Revoked(d)
    BY <1>0, <1>3, <1>4, <1>5, <1>6, <2>3, Relaxes
  <2>4. CASE ~Revoked(d)
    BY <1>0, <1>3, <1>4, <1>5, <1>6, <1>9, <2>2, <2>4, OneLeaves
  <2> QED
    BY <2>3, <2>4
<1> QED
  BY <1>2, <1>7, <1>8, <1>9

\* A step that moves no sender in or out, and changes no row's standing.
LEMMA StandsStill ==
    ASSUME IInv, TypeOK', NEW d \in Deliveries, Paid(d), NEW p \in Senders,
           \A q \in Senders \ {p} : at'[q] = at[q],
           Eager(p, d)' <=> Eager(p, d), p \in Yet(d)' <=> p \in Yet(d),
           Eager(p, d) => at'[p].claim = at[p].claim,
           row'[d].status = row[d].status, row'[d].attempts = row[d].attempts,
           row'[d].claim = row[d].claim, row'[d].live = row[d].live,
           sent'[d] = sent[d], faults' \in {faults, faults + 1}
    PROVE  Paid(d)'
<1>1. TypeOK /\ IsFiniteSet(Engaged(d))
  BY DEF IInv, TypeInv, Paid
<1>2. Engaged(d)' = Engaged(d) /\ Yet(d)' = Yet(d)
  BY <1>1, Counting
<1>3. Held(d) => Held(d)'
  BY HeldStays
<1>4. (Revoked(d)' <=> Revoked(d)) /\ Used(d)' = Used(d)
  BY DEF Revoked, Used
<1>5. /\ EngagedCount(d) \in Nat /\ Posts(d) \in Nat /\ Used(d) \in Nat
      /\ faults \in Nat
  BY <1>1, CountTypes
<1>6. EngagedCount(d)' = EngagedCount(d) /\ Posts(d)' = Posts(d)
  BY <1>2 DEF EngagedCount, Posts
<1> QED
  BY <1>1, <1>2, <1>3, <1>4, <1>5, <1>6, Relaxes

\* A revocation fits whatever it finds: the row waits for nobody after it.
LEMMA RevokeIsPaid ==
    ASSUME IInv, AttemptedInv, TypeOK', NEW d \in Deliveries, Paid(d), NEW p \in Senders,
           MarkVisibilityRevoked(p)
    PROVE  Paid(d)'
<1>1. TypeInv /\ TypeOK /\ IsFiniteSet(Engaged(d))
  BY DEF IInv, TypeInv, Paid
<1>2. /\ at[p].pc = "revoke" /\ at'[p] = Idle /\ \A q \in Senders \ {p} : at'[q] = at[q]
      /\ sent' = sent /\ faults' = faults /\ at[p].d \in Deliveries
  BY <1>1 DEF MarkVisibilityRevoked, ghosts, TypeInv, TypeOK, PlaceInv
<1>3. ~Eager(p, d) /\ ~Eager(p, d)' /\ p \notin Yet(d) /\ p \notin Yet(d)'
  BY <1>2 DEF Eager, AtWorkOn, Yet, Idle, NewAttempt
<1>4. CASE row'[d] = row[d]
  BY <1>1, <1>2, <1>3, <1>4, StandsStill
<1>5. CASE row'[d] # row[d]
  <2>1. d = at[p].d /\ ~Revoked(d) /\ Revoked(d)'
    BY <1>1, <1>2, <1>5 DEF MarkVisibilityRevoked, Revoked, TypeOK, Delivery
  <2>2. Engaged(d)' = Engaged(d) /\ Yet(d)' = Yet(d)
    BY <1>1, <1>2, <1>3, Counting
  <2>3. EngagedCount(d)' = EngagedCount(d) /\ Posts(d)' = Posts(d)
    BY <1>2, <2>2 DEF EngagedCount, Posts
  <2>4. Used(d) + Grace(d) <= MaxAttempts
    BY <2>1, HeldFits
  <2>5. /\ EngagedCount(d) \in Nat /\ Posts(d) \in Nat /\ Used(d) \in Nat
        /\ Grace(d) \in {0, 1} /\ faults \in Nat
    BY <1>1, CountTypes
  <2>6. EngagedCount(d) <= Grace(d) + faults /\ Posts(d) <= Used(d) + Grace(d) + faults
    BY <2>1 DEF Paid
  <2>7. EngagedCount(d)' <= 1 + faults' /\ Posts(d)' <= MaxAttempts + faults'
    BY <1>2, <2>3, <2>4, <2>5, <2>6, AttemptsAssumption
  <2> QED
    BY <1>1, <2>1, <2>2, <2>7 DEF Paid
<1> QED
  BY <1>4, <1>5

\* An outcome that is written counts the POST that was made; one that is not
\* comes from a sender the row did not wait for.
LEMMA RecordIsPaid ==
    ASSUME IInv, TypeOK', NEW d \in Deliveries, Paid(d), NEW p \in Senders, RecordOutcome(p)
    PROVE  Paid(d)'
<1>1. TypeInv /\ TypeOK /\ IsFiniteSet(Engaged(d))
  BY DEF IInv, TypeInv, Paid
<1>2. /\ at[p].pc = "record" /\ at'[p] = Idle /\ \A q \in Senders \ {p} : at'[q] = at[q]
      /\ sent' = sent /\ faults' = faults /\ at[p].d \in Deliveries
      /\ row' = IF StillHolds(p)
                   THEN [row EXCEPT ![at[p].d] = Outcome(at[p].res, at[p].prior + 1)]
                   ELSE row
  BY <1>1 DEF RecordOutcome, ghosts, TypeInv, TypeOK, PlaceInv
<1>3. ~Eager(p, d)' /\ p \notin Yet(d) /\ p \notin Yet(d)'
  BY <1>2 DEF Eager, AtWorkOn, Yet, Idle, NewAttempt
<1>4. CASE d # at[p].d
  <2>1. ~Eager(p, d) /\ row'[d] = row[d]
    BY <1>2, <1>4 DEF Eager, AtWorkOn
  <2> QED
    BY <1>1, <1>2, <1>3, <2>1, StandsStill
<1>5. CASE d = at[p].d
  <2>1. Eager(p, d) /\ AtWorkOn(p, d)
    BY <1>2, <1>5 DEF Eager, AtWorkOn
  <2>2. /\ IsFiniteSet(Engaged(d)') /\ EngagedCount(d)' = EngagedCount(d) - 1
        /\ Yet(d)' = Yet(d)
    BY <1>1, <1>2, <1>3, <2>1, Counting
  <2>3. /\ EngagedCount(d) \in Nat /\ Posts(d) \in Nat /\ Used(d) \in Nat
        /\ faults \in Nat
    BY <1>1, CountTypes
  <2>4. Posts(d)' = Posts(d) /\ EngagedCount(d)' <= EngagedCount(d)
    BY <1>2, <2>2, <2>3 DEF Posts
  <2>5. CASE StillHolds(p)
    <3>1. /\ row[d].status # "visibility_revoked" /\ row[d].claim = at[p].claim
          /\ row'[d] = Outcome(at[p].res, at[p].prior + 1)
      BY <1>1, <1>2, <1>5, <2>5 DEF StillHolds, TypeOK
    <3>2. /\ at[p].prior + 1 \in 1 .. MaxAttempts
          /\ row[d].status \in {"pending", "retrying"}
          /\ row[d].status = "retrying" => at[p].prior = row[d].attempts
          /\ row[d].status = "pending" => at[p].prior = 0
      BY <1>2, <2>1, <3>1, OutcomeInBudget
    <3>3. /\ row'[d].status \in {"delivered", "dead_lettered", "retrying"}
          /\ row'[d].attempts = at[p].prior + 1
      BY <3>1, <3>2, OutcomeShape
    <3>4. Used(d) = at[p].prior /\ Used(d)' = at[p].prior + 1
      BY <3>2, <3>3 DEF Used
    <3>5. ~Revoked(d) /\ ~Revoked(d)'
      BY <3>1, <3>3 DEF Revoked
    <3> QED
      BY <1>1, <1>2, <2>2, <2>3, <2>4, <3>4, <3>5, OneLeaves
  <2>6. CASE ~StillHolds(p)
    <3>1. row' = row
      BY <1>2, <2>6
    <3>2. Revoked(d) \/ row[d].claim # at[p].claim
      BY <1>5, <2>6 DEF StillHolds, Revoked
    <3>3. ASSUME ~Revoked(d), Held(d) PROVE Held(d)'
      <4>1. PICK q \in Engaged(d) : at[q].claim = row[d].claim /\ (row[d].live \/ row[d].claim = 0)
        BY <3>3 DEF Held
      <4>2. q # p /\ q \in Senders /\ Eager(q, d)
        BY <3>2, <3>3, <4>1 DEF Engaged
      <4>3. at'[q] = at[q] /\ Eager(q, d)'
        BY <1>2, <4>2 DEF Eager, AtWorkOn
      <4>4. q \in Engaged(d)'
        BY <4>2, <4>3 DEF Engaged
      <4> QED
        BY <3>1, <4>1, <4>3, <4>4 DEF Held
    <3>4. (Revoked(d)' <=> Revoked(d)) /\ Used(d)' = Used(d)
      BY <3>1 DEF Revoked, Used
    <3> QED
      BY <1>1, <1>2, <2>2, <2>3, <2>4, <3>3, <3>4, Relaxes
  <2> QED
    BY <2>5, <2>6
<1> QED
  BY <1>4, <1>5

\* Whoever takes a row that waits for nobody is waited for.
LEMMA JoinIsPaid ==
    ASSUME IInv, TypeOK', NEW d \in Deliveries, Paid(d), NEW p \in Senders,
           \A q \in Senders \ {p} : at'[q] = at[q],
           ~Eager(p, d), Eager(p, d)', at'[p].pc # "record",
           at'[p].claim = row'[d].claim, row'[d].live \/ row'[d].claim = 0,
           ~Held(d), ~Revoked(d), ~Revoked(d)', faults' = faults,
           \/ sent'[d] = sent[d] /\ Used(d)' = Used(d)
           \/ sent'[d] = 0 /\ Used(d)' = 0
    PROVE  Paid(d)'
<1>1. TypeOK /\ IsFiniteSet(Engaged(d))
  BY DEF IInv, TypeInv, Paid
<1>2. p \notin Yet(d) /\ p \in Yet(d)'
  BY DEF Yet
<1>3. /\ IsFiniteSet(Engaged(d)') /\ EngagedCount(d)' = EngagedCount(d) + 1
      /\ Cardinality(Yet(d)') = Cardinality(Yet(d)) + 1
  BY <1>1, <1>2, Counting
<1>4. Held(d)'
  BY DEF Held, Engaged
<1>5. /\ EngagedCount(d) \in Nat /\ Posts(d) \in Nat /\ Used(d) \in Nat
      /\ Cardinality(Yet(d)) \in Nat /\ Cardinality(Yet(d)) <= EngagedCount(d)
      /\ sent[d] \in Nat
  BY <1>1, CountTypes
<1>6. CASE sent'[d] = sent[d] /\ Used(d)' = Used(d)
  <2>1. Posts(d)' <= Posts(d) + 1
    BY <1>3, <1>5, <1>6 DEF Posts
  <2> QED
    BY <1>1, <1>3, <1>4, <1>6, <2>1, OneJoins
<1>7. CASE sent'[d] = 0 /\ Used(d)' = 0
  <2>1. Posts(d)' <= EngagedCount(d) + 1
    BY <1>3, <1>5, <1>7 DEF Posts
  <2> QED
    BY <1>1, <1>3, <1>4, <1>7, <2>1, OneJoins
<1> QED
  BY <1>6, <1>7

LEMMA ClaimIsPaid ==
    ASSUME IInv, TypeOK', NEW d \in Deliveries, Paid(d),
           NEW p \in Sweepers, NEW d1 \in Deliveries, ClaimDueRetry(p, d1)
    PROVE  Paid(d)'
<1>1. TypeInv /\ p \in Senders /\ p \notin Replayers
  BY ProcessAssumption DEF IInv, Senders
<1>2. /\ at[p] = Idle /\ at'[p] = NewAttempt("load", d1, issued[d1] + 1, None)
      /\ \A q \in Senders \ {p} : at'[q] = at[q]
      /\ row[d1].status = "retrying" /\ row'[d1].status = "retrying"
      /\ row'[d1].attempts = row[d1].attempts
      /\ row'[d1].claim = issued[d1] + 1 /\ row'[d1].live
      /\ \A d2 \in Deliveries \ {d1} : row'[d2] = row[d2]
  BY <1>1, ClaimShape
<1>3. sent' = sent /\ faults' = faults /\ ~row[d1].live
  BY DEF ClaimDueRetry, ghosts, Unclaimed
<1>4. ~Eager(p, d) /\ p \notin Yet(d)
  BY <1>2 DEF Eager, AtWorkOn, Idle, NewAttempt, Yet
<1>5. CASE d # d1
  <2>1. ~Eager(p, d)' /\ p \notin Yet(d)'
    BY <1>2, <1>5 DEF Eager, AtWorkOn, NewAttempt, Yet
  <2> QED
    BY <1>1, <1>2, <1>3, <1>4, <1>5, <2>1, StandsStill
<1>6. CASE d = d1
  <2>1. ~Held(d) /\ ~Revoked(d) /\ ~Revoked(d)' /\ Used(d)' = Used(d)
    BY <1>2, <1>3, <1>6, FreeIsUnheld DEF Revoked, Used
  <2>2. Eager(p, d)' /\ at'[p].pc # "record" /\ at'[p].claim = row'[d].claim
    BY <1>1, <1>2, <1>6 DEF Eager, AtWorkOn, NewAttempt
  <2> QED
    BY <1>1, <1>2, <1>3, <1>4, <1>6, <2>1, <2>2, JoinIsPaid
<1> QED
  BY <1>5, <1>6

\* A replay begins a budget anew, and owes for whoever is still at work on the
\* old one, whom faults have paid for.
LEMMA ResetIsPaid ==
    ASSUME IInv, TypeOK', NEW d \in Deliveries, Paid(d), NEW p \in Senders, ResetForReplay(p)
    PROVE  Paid(d)'
<1>1. TypeInv /\ TypeOK
  BY DEF IInv, TypeInv
<1>2. PICK d1 \in Deliveries :
             /\ p \in Replayers /\ at[p].pc = "reset"
             /\ at[p].d = d1
             /\ \A q \in Senders \ {p} : at'[q] = at[q]
             /\ \A d2 \in Deliveries \ {d1} : row'[d2] = row[d2]
             /\ \/ at'[p] = Idle /\ row'[d1] = row[d1]
                \/ /\ row[d1].status \in {"dead_lettered", "retrying"}
                   /\ row'[d1].status = "pending"
                   /\ row'[d1].claim = issued[d1] + 1 /\ row'[d1].live
                   /\ at'[p].pc = "post" /\ at'[p].d = d1
                   /\ at'[p].claim = issued[d1] + 1
  BY <1>1, ResetShape
<1>3. ~Eager(p, d) /\ p \notin Yet(d) /\ faults' = faults
  BY <1>2 DEF Eager, Yet, ResetForReplay
<1>4. CASE at' = [at EXCEPT ![p] = Idle] /\ UNCHANGED <<row, issued, sent>>
  <2>1. ~Eager(p, d)' /\ p \notin Yet(d)'
    BY <1>1, <1>4 DEF Eager, AtWorkOn, Idle, NewAttempt, Yet, TypeOK
  <2> QED
    BY <1>2, <1>3, <1>4, <2>1, StandsStill
<1>5. CASE /\ row[d1].status \in {"dead_lettered", "retrying"} /\ ~row[d1].live
           /\ at' = [at EXCEPT ![p] = [@ EXCEPT !.pc = "post", !.prior = 0,
                                               !.claim = Token(d1)]]
           /\ sent' = [sent EXCEPT ![d1] = 0]
  <2>1. at'[p].pc = "post" /\ at'[p].d = d1
    BY <1>1, <1>2, <1>5 DEF TypeOK
  <2>2. /\ row'[d1].status = "pending" /\ row'[d1].live
        /\ at'[p].claim = row'[d1].claim
    BY <1>2, <2>1 DEF Idle, NewAttempt
  <2>3. CASE d # d1
    <3>1. ~Eager(p, d)' /\ p \notin Yet(d)'
      BY <2>1, <2>3 DEF Eager, AtWorkOn, Yet
    <3>2. sent'[d] = sent[d] /\ row'[d] = row[d]
      BY <1>1, <1>2, <1>5, <2>3 DEF TypeOK
    <3> QED
      BY <1>2, <1>3, <3>1, <3>2, StandsStill
  <2>4. CASE d = d1
    <3>1. ~Held(d) /\ ~Revoked(d) /\ ~Revoked(d)' /\ Used(d)' = 0
      BY <1>5, <2>2, <2>4, FreeIsUnheld DEF Revoked, Used
    <3>2. Eager(p, d)' /\ at'[p].pc # "record"
      BY <2>1, <2>4 DEF Eager, AtWorkOn
    <3>3. sent'[d] = 0
      BY <1>1, <1>5, <2>4 DEF TypeOK
    <3> QED
      BY <1>2, <1>3, <2>2, <2>4, <3>1, <3>2, <3>3, JoinIsPaid
  <2> QED
    BY <2>3, <2>4
<1> QED
  BY <1>2, <1>4, <1>5 DEF ResetForReplay, Unclaimed

LEMMA FirstIsPaid ==
    ASSUME IInv, TypeOK', NEW d \in Deliveries, Paid(d), NEW c \in Consumers, AttemptFirst(c)
    PROVE  Paid(d)'
<1>1. c \in Senders /\ c \notin Replayers
  BY ProcessAssumption DEF Senders
<1>2. PICK d1 \in Deliveries :
             /\ Target(c, d1)
             /\ row' = row
             /\ at'[c].pc = "owner" /\ at'[c].d = d1 /\ at'[c].claim = 0
             /\ \A p \in Senders \ {c} : at'[p] = at[p]
  BY AttemptFirstShape
<1>3. sent' = sent /\ faults' = faults /\ at[c] = Idle
  BY DEF AttemptFirst, ghosts
<1>4. ~Eager(c, d) /\ c \notin Yet(d)
  BY <1>3 DEF Eager, AtWorkOn, Idle, NewAttempt, Yet
<1>5. CASE d # d1
  <2>1. ~Eager(c, d)' /\ c \notin Yet(d)'
    BY <1>2, <1>5 DEF Eager, AtWorkOn, Yet
  <2> QED
    BY <1>1, <1>2, <1>3, <1>4, <2>1, StandsStill
<1>6. CASE d = d1
  <2>1. ~Held(d) /\ row[d].status = "pending" /\ row[d].claim = 0
    BY <1>2, <1>6, TargetIsUnheld
  <2>2. ~Revoked(d) /\ ~Revoked(d)' /\ Used(d)' = Used(d)
    BY <1>2, <2>1 DEF Revoked, Used
  <2>3. Eager(c, d)' /\ at'[c].pc # "record"
    BY <1>1, <1>2, <1>6 DEF Eager, AtWorkOn
  <2> QED
    BY <1>1, <1>2, <1>3, <1>4, <2>1, <2>2, <2>3, JoinIsPaid
<1> QED
  BY <1>5, <1>6

\* A step no sender takes part in: the row waits for the same sender, or for
\* nobody any more, and then a fault has paid.
LEMMA RestIsPaid ==
    ASSUME IInv, TypeOK', NEW d \in Deliveries, Paid(d),
           at' = at, sent'[d] = sent[d], faults' \in {faults, faults + 1},
           Revoked(d)' <=> Revoked(d), Used(d)' >= Used(d),
           (Held(d) => Held(d)') \/ faults' = faults + 1
    PROVE  Paid(d)'
<1>1. TypeOK /\ IsFiniteSet(Engaged(d))
  BY DEF IInv, TypeInv, Paid
<1>2. Engaged(d)' = Engaged(d) /\ Yet(d)' = Yet(d)
  BY DEF Engaged, Yet, Eager, AtWorkOn
<1>3. EngagedCount(d)' = EngagedCount(d) /\ Posts(d)' = Posts(d)
  BY <1>2 DEF EngagedCount, Posts
<1>4. /\ EngagedCount(d) \in Nat /\ Posts(d) \in Nat /\ faults \in Nat
  BY <1>1, CountTypes
<1>5. CASE Held(d) => Held(d)'
  BY <1>1, <1>2, <1>3, <1>4, <1>5, Relaxes
<1>6. CASE faults' = faults + 1
  BY <1>1, <1>2, <1>3, <1>4, <1>6, FaultPays
<1> QED
  BY <1>5, <1>6

\* With the rows untouched.
LEMMA IdleIsPaid ==
    ASSUME IInv, TypeOK', NEW d \in Deliveries, Paid(d),
           at' = at, row' = row, sent' = sent, faults' \in {faults, faults + 1}
    PROVE  Paid(d)'
<1>1. TypeOK /\ IsFiniteSet(Engaged(d))
  BY DEF IInv, TypeInv, Paid
<1>2. (Revoked(d)' <=> Revoked(d)) /\ Used(d)' = Used(d) /\ Used(d) \in Nat
  BY <1>1, CountTypes DEF Revoked, Used
<1>3. Held(d) => Held(d)'
  BY DEF Held, Engaged, Eager, AtWorkOn
<1> QED
  BY <1>2, <1>3, RestIsPaid

LEMMA EnqueueIsPaid ==
    ASSUME IInv, AttemptedInv, TypeOK', NEW d \in Deliveries, Paid(d),
           NEW c \in Consumers, Enqueue(c)
    PROVE  Paid(d)'
<1>1. TypeInv /\ TypeOK /\ IsFiniteSet(Engaged(d))
  BY DEF IInv, TypeInv, Paid
<1>2. /\ at' = at /\ sent' = sent /\ faults' = faults
  BY Zenon DEF Enqueue, ghosts
<1>3. \/ row'[d] = row[d]
      \/ row[d].status = "none" /\ row'[d] \in {NewRow("pending"), NewRow("dead_lettered")}
  BY <1>1, EnqueueShape
<1>4. CASE row'[d] = row[d]
  <2>1. (Revoked(d)' <=> Revoked(d)) /\ Used(d)' = Used(d) /\ Used(d) \in Nat
    BY <1>1, <1>4, CountTypes DEF Revoked, Used
  <2>2. Held(d) => Held(d)'
    BY <1>2, <1>4 DEF Held, Engaged, Eager, AtWorkOn
  <2> QED
    BY <1>2, <2>1, <2>2, RestIsPaid
<1>5. CASE row[d].status = "none" /\ row'[d] \in {NewRow("pending"), NewRow("dead_lettered")}
  <2>1. ~Held(d)
    BY <1>5, FreeIsUnheld
  <2>2. ~Revoked(d) /\ ~Revoked(d)' /\ Used(d) = 0 /\ Used(d)' = 0
    BY <1>5 DEF Revoked, Used, NewRow, AttemptedInv
  <2> QED
    BY <1>2, <2>1, <2>2, RestIsPaid
<1> QED
  BY <1>3, <1>4, <1>5

LEMMA RequireIsPaid ==
    ASSUME IInv, TypeOK', NEW d \in Deliveries, Paid(d),
           NEW p \in Replayers, NEW d1 \in Deliveries, RequireReplay(p, d1)
    PROVE  Paid(d)'
<1>1. TypeInv /\ p \in Senders
  BY DEF IInv, Senders
<1>2. /\ row' = row /\ at[p] = Idle /\ at'[p] = NewAttempt("load", d1, 0, None)
      /\ \A q \in Senders \ {p} : at'[q] = at[q]
  BY <1>1, RequireShape
<1>3. sent' = sent /\ faults' = faults
  BY DEF RequireReplay, ghosts
<1>4. /\ ~Eager(p, d) /\ p \notin Yet(d) /\ ~Eager(p, d)' /\ p \notin Yet(d)'
  BY <1>2 DEF Eager, AtWorkOn, Idle, NewAttempt, Yet
<1> QED
  BY <1>1, <1>2, <1>3, <1>4, StandsStill

\* The end of a consumer is one sender's leaving, and a fault.
LEMMA DiesIsPaid ==
    ASSUME IInv, TypeOK', NEW d \in Deliveries, Paid(d), NEW c \in Consumers, ConsumerDies(c)
    PROVE  Paid(d)'
<1>1. /\ TypeInv /\ TypeOK /\ IsFiniteSet(Engaged(d)) /\ c \in Senders
  BY DEF IInv, TypeInv, Paid, Senders
<1>2. /\ row' = row /\ at'[c] = Idle /\ sent' = sent /\ faults' = faults + 1
      /\ \A q \in Senders \ {c} : at'[q] = at[q]
  BY <1>1 DEF ConsumerDies, ghosts, TypeOK
<1>3. ~Eager(c, d)' /\ c \notin Yet(d)'
  BY <1>2 DEF Eager, AtWorkOn, Idle, NewAttempt, Yet
<1>4. /\ IsFiniteSet(Engaged(d)')
      /\ Eager(c, d) => EngagedCount(d)' = EngagedCount(d) - 1
      /\ ~Eager(c, d) => Engaged(d)' = Engaged(d)
      /\ c \in Yet(d) => Cardinality(Yet(d)') = Cardinality(Yet(d)) - 1
      /\ c \notin Yet(d) => Yet(d)' = Yet(d)
  BY <1>1, <1>2, <1>3, Counting
<1>5. /\ EngagedCount(d) \in Nat /\ sent[d] \in Nat /\ Cardinality(Yet(d)) \in Nat
      /\ Used(d) \in Nat /\ faults \in Nat
  BY <1>1, CountTypes
<1>6. EngagedCount(d)' <= EngagedCount(d) /\ Posts(d)' <= Posts(d)
  BY <1>2, <1>4, <1>5 DEF EngagedCount, Posts
<1>7. (Revoked(d)' <=> Revoked(d)) /\ Used(d)' = Used(d)
  BY <1>2 DEF Revoked, Used
<1> QED
  BY <1>1, <1>2, <1>4, <1>5, <1>6, <1>7, FaultPays

\* A lease that passes leaves its holder behind, and that is a fault.
LEMMA TimeIsPaid ==
    ASSUME IInv, TypeOK', NEW d \in Deliveries, Paid(d),
           NEW d1 \in Deliveries, BackoffElapses(d1) \/ LeaseLapses(d1)
    PROVE  Paid(d)'
<1>1. TypeInv /\ TypeOK /\ IsFiniteSet(Engaged(d)) /\ faults \in Nat
  BY BoundsAssumption DEF IInv, TypeInv, TypeOK, Paid
<1>2. at' = at /\ sent' = sent /\ faults' \in {faults, faults + 1}
  BY DEF BackoffElapses, LeaseLapses, ghosts
<1>3. /\ row'[d].status = row[d].status /\ row'[d].attempts = row[d].attempts
      /\ row'[d].claim = row[d].claim
  BY <1>1 DEF BackoffElapses, LeaseLapses, TypeOK, Delivery
<1>4. (Revoked(d)' <=> Revoked(d)) /\ Used(d)' = Used(d) /\ Used(d) \in Nat
  BY <1>1, <1>3, CountTypes DEF Revoked, Used
<1>5. CASE row'[d].live = row[d].live
  <2>1. Held(d) => Held(d)'
    BY <1>2, <1>3, <1>5 DEF Held, Engaged, Eager, AtWorkOn
  <2> QED
    BY <1>2, <1>4, <2>1, RestIsPaid
<1>6. CASE row'[d].live # row[d].live
  <2>1. d = d1 /\ LeaseLapses(d)
    BY <1>1, <1>6 DEF BackoffElapses, LeaseLapses, TypeOK, Delivery
  <2>2. row[d].claim # 0
    BY <2>1 DEF LeaseLapses, IInv, CountInv
  <2>3. CASE \A p \in Senders : AtWorkOn(p, d) => at[p].claim # row[d].claim
    <3>1. ~Held(d)
      BY <2>3 DEF Held, Engaged, Eager
    <3> QED
      BY <1>2, <1>4, <3>1, RestIsPaid
  <2>4. CASE faults' = faults + 1
    BY <1>2, <1>4, <2>4, RestIsPaid
  <2> QED
    BY <2>1, <2>3, <2>4 DEF LeaseLapses
<1> QED
  BY <1>5, <1>6

LEMMA PaidStep == IInv /\ AttemptedInv /\ PaidInv /\ [Next]_vars => PaidInv'
<1> SUFFICES ASSUME IInv, AttemptedInv, [Next]_vars, NEW d \in Deliveries, Paid(d)
             PROVE  Paid(d)'
  BY DEF PaidInv
<1>1. TypeOK'
  BY TypeStep DEF IInv, TypeInv
<1>2. TypeInv /\ TypeOK /\ faults \in Nat
  BY BoundsAssumption DEF IInv, TypeInv, TypeOK
<1>3. CASE Admin \/ (\E e \in Events : PublishEvent(e) \/ MarkLapses(e)) \/ UNCHANGED vars
  <2>1. at' = at /\ row' = row /\ sent' = sent /\ faults' \in {faults, faults + 1}
    BY <1>3 DEF Admin, CreateSubscription, UpdateSubscription, ArchiveSubscription,
      ChangeSight, PublishEvent, MarkLapses, ghosts, vars
  <2> QED
    BY <1>1, <2>1, IdleIsPaid
<1>4. ASSUME NEW c \in Consumers, FanOut(c) PROVE Paid(d)'
  <2>1. CASE \/ \E e \in Events : HandleEvent(c, e)
             \/ CheckOwner(c) \/ CheckOwnerFails(c) \/ Handled(c)
    <3>1. at' = at /\ row' = row /\ sent' = sent /\ faults' \in {faults, faults + 1}
      BY <2>1, Zenon DEF HandleEvent, CheckOwner, CheckOwnerFails, Handled, ghosts
    <3> QED
      BY <1>1, <3>1, IdleIsPaid
  <2> QED
    BY <1>1, <1>4, <2>1, EnqueueIsPaid, FirstIsPaid, DiesIsPaid DEF FanOut
<1>5. ASSUME NEW p \in Sweepers, NEW d1 \in Deliveries, ClaimDueRetry(p, d1) PROVE Paid(d)'
  BY <1>1, <1>5, ClaimIsPaid
<1>6. ASSUME NEW p \in Replayers, NEW d1 \in Deliveries, RequireReplay(p, d1) PROVE Paid(d)'
  BY <1>1, <1>6, RequireIsPaid
<1>7. ASSUME NEW p \in Senders, Attempt(p) \/ CheckFails(p) \/ Abandon(p) PROVE Paid(d)'
  BY <1>1, <1>7, MoveIsPaid, RevokeIsPaid, RecordIsPaid, ResetIsPaid DEF Attempt
<1>8. CASE Time
  BY <1>1, <1>8, TimeIsPaid DEF Time
<1> QED
  BY <1>3, <1>4, <1>5, <1>6, <1>7, <1>8 DEF Next

LEMMA InitPaid == Init => PaidInv
<1> SUFFICES ASSUME Init, NEW d \in Deliveries PROVE Paid(d)
  BY DEF PaidInv
<1>1. \A p \in Senders : ~Eager(p, d)
  BY DEF Init, Eager, AtWorkOn, Idle, NewAttempt
<1>2. Engaged(d) = {} /\ Yet(d) = {}
  BY <1>1 DEF Engaged, Yet
<1>3. ~Held(d) /\ ~Revoked(d) /\ Used(d) = 0 /\ sent[d] = 0 /\ faults = 0
  BY <1>2 DEF Held, Revoked, Used, Init, NoRow, NewRow
<1> QED
  BY <1>2, <1>3, FS_EmptySet DEF Paid, EngagedCount, Posts, Grace

LEMMA EveryPostIsPaid == Spec => [](IInv /\ AttemptedInv /\ PaidInv)
BY InitPaid, PaidStep, Inductive, Attempted, PTL DEF Spec

-----------------------------------------------------------------------------
(* The theorems.                                                           *)

\* However many sweeps, replays and consumers there are, a delivery has one
\* sender between POST and record, and one more for each fault at most.
THEOREM OneSenderInFlight == Spec => []OneInFlight
<1>1. IInv /\ PaidInv => OneInFlight
  <2> SUFFICES ASSUME IInv, PaidInv, NEW d \in Deliveries
               PROVE  Cardinality({p \in Senders : Sending(p, d)}) <= 1 + faults
    BY DEF OneInFlight
  <2>1. TypeOK /\ Paid(d) /\ IsFiniteSet(Engaged(d))
    BY DEF PaidInv, Paid, IInv, TypeInv
  <2>2. {p \in Senders : Sending(p, d)} \in SUBSET Engaged(d)
    BY DEF Sending, Engaged, Eager, AtWorkOn
  <2>3. /\ Cardinality({p \in Senders : Sending(p, d)}) <= EngagedCount(d)
        /\ Cardinality({p \in Senders : Sending(p, d)}) \in Nat
    <3> DEFINE S == {p \in Senders : Sending(p, d)}
    <3>1. S \in SUBSET Engaged(d)
      BY <2>2
    <3> HIDE DEF S
    <3>2. IsFiniteSet(S) /\ Cardinality(S) <= Cardinality(Engaged(d))
      BY <2>1, <3>1, FS_Subset
    <3>3. Cardinality(S) \in Nat
      BY <3>2, FS_CardinalityType
    <3> QED
      BY <3>2, <3>3 DEF EngagedCount, S
  <2>4. EngagedCount(d) \in Nat /\ Grace(d) \in {0, 1} /\ faults \in Nat
    BY <2>1, CountTypes
  <2>5. EngagedCount(d) <= 1 + faults
    BY <2>1, <2>4 DEF Paid
  <2> QED
    BY <2>3, <2>4, <2>5
<1> QED
  BY <1>1, EveryPostIsPaid, PTL

\* A budget is overdrawn by faults alone, by one POST each, whoever sends.
THEOREM BudgetIsKept == Spec => []BudgetHolds
<1>1. IInv /\ AttemptedInv /\ PaidInv => BudgetHolds
  <2> SUFFICES ASSUME IInv, AttemptedInv, PaidInv, NEW d \in Deliveries
               PROVE  sent[d] <= MaxAttempts + faults
    BY DEF BudgetHolds
  <2>1. TypeOK /\ Paid(d) /\ IsFiniteSet(Engaged(d))
    BY DEF PaidInv, Paid, IInv, TypeInv
  <2>2. /\ sent[d] \in Nat /\ Cardinality(Yet(d)) \in Nat /\ Grace(d) \in {0, 1}
        /\ faults \in Nat /\ Used(d) \in Nat
    BY <2>1, CountTypes
  <2>3. Posts(d) <= MaxAttempts + faults
    <3>1. CASE Revoked(d)
      BY <2>1, <3>1 DEF Paid
    <3>2. CASE ~Revoked(d)
      <4>1. Posts(d) <= Used(d) + Grace(d) + faults /\ Used(d) + Grace(d) <= MaxAttempts
        BY <2>1, <3>2, HeldFits DEF Paid
      <4> QED
        BY <2>2, <4>1, AttemptsAssumption DEF Posts
    <3> QED
      BY <3>1, <3>2
  <2> QED
    BY <2>2, <2>3, AttemptsAssumption DEF Posts
<1> QED
  BY <1>1, EveryPostIsPaid, PTL

-----------------------------------------------------------------------------
(* What is owed. An owed candidate stays in the view of every consumer that  *)
(* handles its event, or is remembered as an error, until its row is there.  *)

\* A row that is there stays.
LEMMA RowsStay ==
    ASSUME IInv, AttemptedInv, [Next]_vars, NEW d \in Deliveries, row[d].status # "none"
    PROVE  row'[d].status # "none"
<1>1. TypeInv
  BY DEF IInv
<1>2. CASE Admin \/ (\E e \in Events : PublishEvent(e) \/ MarkLapses(e)) \/ UNCHANGED vars
  BY <1>2, EnvShape
<1>3. ASSUME NEW c \in Consumers, FanOut(c) PROVE row'[d].status # "none"
  <2>1. CASE \/ \E e \in Events : HandleEvent(c, e)
             \/ CheckOwner(c) \/ CheckOwnerFails(c) \/ AttemptFirst(c)
             \/ Handled(c) \/ ConsumerDies(c)
    BY <2>1, Zenon DEF HandleEvent, CheckOwner, CheckOwnerFails, AttemptFirst, Handled, ConsumerDies
  <2>2. CASE Enqueue(c)
    BY <1>1, <2>2, EnqueueShape DEF NewRow
  <2> QED
    BY <1>3, <2>1, <2>2 DEF FanOut
<1>4. ASSUME NEW p \in Sweepers, NEW d1 \in Deliveries, ClaimDueRetry(p, d1)
      PROVE  row'[d].status # "none"
  BY <1>1, <1>4, ClaimShape
<1>5. ASSUME NEW p \in Replayers, NEW d1 \in Deliveries, RequireReplay(p, d1)
      PROVE  row'[d].status # "none"
  BY <1>1, <1>5, RequireShape
<1>6. ASSUME NEW p \in Senders, Attempt(p) \/ CheckFails(p) \/ Abandon(p)
      PROVE  row'[d].status # "none"
  <2>1. CASE MarkVisibilityRevoked(p) \/ RecordOutcome(p)
    <3>1. \A res, used : Outcome(res, used).status # "none"
      BY DEF Outcome
    <3>2. PICK d1 \in Deliveries :
             /\ \A d2 \in Deliveries \ {d1} : row'[d2] = row[d2]
             /\ \/ row'[d1] = row[d1]
                \/ row'[d1].status = "visibility_revoked"
                \/ row'[d1] = Outcome(at[p].res, at[p].prior + 1)
      BY <1>1, <2>1, SettleShape
    <3>3. CASE d = d1
      BY <3>1, <3>2, <3>3
    <3>4. CASE d # d1
      BY <3>2, <3>4
    <3> QED
      BY <3>3, <3>4
  <2>2. CASE ResetForReplay(p)
    BY <1>1, <2>2, ResetShape
  <2>3. CASE \/ LoadTarget(p) \/ StillOwner(p) \/ StillSees(p) \/ CheckFails(p)
             \/ Post(p) \/ FailUnsent(p) \/ Abandon(p)
    BY <1>1, <2>3, MoveShape DEF Moves
  <2> QED
    BY <1>6, <2>1, <2>2, <2>3 DEF Attempt
<1>7. CASE Time
  BY <1>1, <1>7, TimeShape
<1> QED
  BY <1>2, <1>3, <1>4, <1>5, <1>6, <1>7 DEF Next

\* An edit ends what is owed, or leaves it as it was.
LEMMA OwedByEdit ==
    ASSUME TypeInv, OwedInv, Admin
    PROVE  OwedInv'
<1>1. /\ bus' = bus /\ row' = row /\ fan' = fan /\ steady' = StillSteady
  BY DEF Admin, CreateSubscription, UpdateSubscription, ArchiveSubscription, ChangeSight
<1>2. \A d \in steady' : d \in steady /\ Eligible(d)' /\ Candidate(d)' = Candidate(d)
  BY <1>1 DEF StillSteady, Candidate
<1> QED
  BY <1>1, <1>2 DEF OwedInv, InView, NothingOwedIsLost

LEMMA OwedByPublication ==
    ASSUME TypeInv, OwedInv, NEW e \in Events, PublishEvent(e)
    PROVE  OwedInv'
<1>1. /\ bus[e] = "unpublished" /\ bus' = [bus EXCEPT ![e] = "ready"]
      /\ steady' = steady \cup {d \in Deliveries : d[2] = e /\ Eligible(d)}
      /\ UNCHANGED <<sub, sees, row, fan>>
  BY DEF PublishEvent
<1>2. bus'[e] = "ready" /\ \A x \in Events \ {e} : bus'[x] = bus[x]
  BY <1>1 DEF TypeInv, TypeOK
<1>3. \A d \in steady' : Eligible(d)'
  BY <1>1 DEF OwedInv, Eligible, Active, MaySee
<1>4. \A c \in Consumers : fan[c].pc # "idle" => fan[c].event \in Events \ {e}
  BY <1>1 DEF OwedInv, TypeInv, PlaceInv
<1>5. \A c \in Consumers : fan'[c].pc # "idle" => bus'[fan'[c].event] # "unpublished"
  BY <1>1, <1>2, <1>4 DEF OwedInv
<1>6. \A d \in steady' : d \in steady \/ d[2] = e
  BY <1>1
<1>7. \A c \in Consumers, d \in steady' : InView(c, d)'
  BY <1>1, <1>4, <1>6 DEF OwedInv, InView, Candidate
<1>8. NothingOwedIsLost'
  <2> SUFFICES ASSUME NEW d \in steady', bus'[d[2]] = "acked"
               PROVE  row'[d].status # "none"
    BY DEF NothingOwedIsLost
  <2>1. d \in Deliveries /\ d[2] \in Events
    BY <1>1 DEF TypeInv, TypeOK, Deliveries
  <2>2. d[2] # e /\ d \in steady
    BY <1>2, <1>6
  <2> QED
    BY <1>1, <1>2, <2>1, <2>2 DEF OwedInv, NothingOwedIsLost
<1> QED
  BY <1>3, <1>5, <1>7, <1>8 DEF OwedInv

\* A lapsed mark ends no consumer's view.
LEMMA OwedByLapse ==
    ASSUME TypeInv, OwedInv, NEW e \in Events, MarkLapses(e)
    PROVE  OwedInv'
<1>1. UNCHANGED <<sub, sees, row, fan, steady>> /\ bus' = [bus EXCEPT ![e] = "ready"]
  BY DEF MarkLapses, env, ghosts
<1>2. \A x \in Events : bus'[x] = bus[x] \/ bus'[x] = "ready"
  BY <1>1 DEF TypeInv, TypeOK
<1>3. \A d \in steady : Eligible(d)' /\ Candidate(d)' = Candidate(d)
  BY <1>1 DEF OwedInv, Eligible, Active, MaySee, Candidate
<1>4. \A c \in Consumers, d \in steady : InView(c, d)'
  BY <1>1, <1>3 DEF OwedInv, InView
<1>5. \A c \in Consumers : fan'[c].pc # "idle" => bus'[fan'[c].event] # "unpublished"
  BY <1>1, <1>2 DEF OwedInv, TypeInv, PlaceInv
<1>6. NothingOwedIsLost'
  <2>1. \A d \in steady : d[2] \in Events
    BY DEF TypeInv, TypeOK, Deliveries
  <2> QED
    BY <1>1, <1>2, <2>1 DEF OwedInv, NothingOwedIsLost
<1> QED
  BY <1>1, <1>3, <1>4, <1>5, <1>6 DEF OwedInv

\* A step of one consumer that keeps its own candidates in view.
LEMMA OwedByConsumer ==
    ASSUME TypeInv, OwedInv, NEW c \in Consumers,
           UNCHANGED <<sub, sees, bus, row, steady>>,
           \A x \in Consumers \ {c} : fan'[x] = fan[x],
           fan'[c].pc # "idle" => bus[fan'[c].event] # "unpublished",
           \A d \in steady : InView(c, d)'
    PROVE  OwedInv'
<1>1. \A d \in steady : Eligible(d)' /\ Candidate(d)' = Candidate(d)
  BY DEF OwedInv, Eligible, Active, MaySee, Candidate
<1>2. \A x \in Consumers, d \in steady : InView(x, d)'
  BY <1>1 DEF OwedInv, InView
<1> QED
  BY <1>1, <1>2 DEF OwedInv, NothingOwedIsLost

LEMMA OwedByFanOut ==
    ASSUME TypeInv, OwedInv, NEW c \in Consumers, FanOut(c)
    PROVE  OwedInv'
<1>0. /\ fan \in [Consumers -> EventInHand] /\ row \in [Deliveries -> Delivery]
      /\ steady \subseteq Deliveries /\ bus \in [Events -> {"unpublished", "ready", "acked"}]
  BY DEF TypeInv, TypeOK
<1>1. ASSUME NEW e \in Events, HandleEvent(c, e) PROVE OwedInv'
  <2>1. /\ UNCHANGED <<sub, sees, bus, row, steady>> /\ bus[e] = "ready"
        /\ fan'[c].pc = "check" /\ fan'[c].event = e
        /\ fan'[c].todo = {<<s, sub[s].owner>> : s \in {t \in Subs : Active(t) /\ sub[t].listens}}
        /\ \A x \in Consumers \ {c} : fan'[x] = fan[x]
    BY <1>0, <1>1 DEF HandleEvent, Match, IdleFan, env, ghosts
  <2>2. \A d \in steady : InView(c, d)'
    <3> SUFFICES ASSUME NEW d \in steady PROVE Candidate(d)' \in fan'[c].todo
      BY <2>1 DEF InView
    <3>1. d[1] \in Subs /\ Active(d[1]) /\ sub[d[1]].listens
      BY <1>0 DEF OwedInv, Eligible, Deliveries
    <3> QED
      BY <2>1, <3>1 DEF Candidate
  <2> QED
    BY <2>1, <2>2, OwedByConsumer
<1>2. CASE CheckOwner(c)
  <2>1. PICK x \in fan[c].todo :
           fan' = [fan EXCEPT ![c].todo = @ \ {x},
                              ![c].visible = IF MaySee(x[2], fan[c].event)
                                               THEN @ \cup {x} ELSE @]
    BY <1>2 DEF CheckOwner
  <2>2. /\ fan'[c].pc = "check" /\ fan[c].pc = "check" /\ fan'[c].event = fan[c].event
        /\ fan'[c].err = fan[c].err /\ fan'[c].todo = fan[c].todo \ {x}
        /\ fan'[c].visible = IF MaySee(x[2], fan[c].event)
                               THEN fan[c].visible \cup {x} ELSE fan[c].visible
        /\ \A y \in Consumers \ {c} : fan'[y] = fan[y]
    <3>1. fan[c] \in EventInHand /\ fan[c].pc = "check"
      BY <1>0, <1>2 DEF CheckOwner
    <3>2. fan'[c] = [fan[c] EXCEPT !.todo = fan[c].todo \ {x},
                                   !.visible = IF MaySee(x[2], fan[c].event)
                                                 THEN fan[c].visible \cup {x} ELSE fan[c].visible]
      BY <1>0, <2>1
    <3>3. \A y \in Consumers \ {c} : fan'[y] = fan[y]
      BY <1>0, <2>1
    <3> QED
      BY <3>1, <3>2, <3>3 DEF EventInHand
  <2>3. UNCHANGED <<sub, sees, bus, row, steady>>
    BY <1>2 DEF CheckOwner, env, ghosts
  <2>4. \A d \in steady : InView(c, d)'
    <3> SUFFICES ASSUME NEW d \in steady, fan[c].event = d[2]
                 PROVE  \/ fan'[c].err \/ Candidate(d)' \in fan'[c].todo
                        \/ Candidate(d)' \in fan'[c].visible
      BY <2>2 DEF InView
    <3>1. Candidate(d)' = Candidate(d) /\ (x = Candidate(d) => MaySee(x[2], fan[c].event))
      BY <2>3 DEF Candidate, OwedInv, Eligible
    <3>2. fan[c].err \/ Candidate(d) \in fan[c].todo \/ Candidate(d) \in fan[c].visible
      BY <2>2 DEF OwedInv, InView
    <3> QED
      BY <2>2, <3>1, <3>2
  <2>5. bus[fan'[c].event] # "unpublished"
    BY <2>2 DEF OwedInv
  <2> QED
    BY <2>2, <2>3, <2>4, <2>5, OwedByConsumer
<1>3. CASE CheckOwnerFails(c)
  <2>1. PICK x \in fan[c].todo :
           fan' = [fan EXCEPT ![c].todo = @ \ {x}, ![c].err = TRUE]
    BY <1>3 DEF CheckOwnerFails
  <2>2. /\ fan'[c].pc = "check" /\ fan[c].pc = "check" /\ fan'[c].event = fan[c].event
        /\ fan'[c].err
        /\ \A y \in Consumers \ {c} : fan'[y] = fan[y]
    BY <1>0, <1>3, <2>1 DEF CheckOwnerFails, EventInHand
  <2>3. UNCHANGED <<sub, sees, bus, row, steady>>
    BY <1>3 DEF CheckOwnerFails, env, ghosts
  <2>4. \A d \in steady : InView(c, d)'
    BY <2>2 DEF InView
  <2>5. bus[fan'[c].event] # "unpublished"
    BY <2>2 DEF OwedInv
  <2> QED
    BY <2>2, <2>3, <2>4, <2>5, OwedByConsumer
<1>4. CASE Enqueue(c)
  <2>1. PICK bad \in SUBSET Created(c) :
          /\ row' = [d \in Deliveries |->
                      IF d[2] = fan[c].event /\ Named(Created(c), d)
                        THEN NewRow(IF Named(bad, d) THEN "dead_lettered" ELSE "pending")
                        ELSE row[d]]
          /\ fan' = [fan EXCEPT ![c] = [@ EXCEPT !.pc = "attempt", !.visible = {},
                                               !.targets = Created(c) \ bad]]
    BY <1>4 DEF Enqueue
  <2>2. /\ fan[c].pc = "check" /\ fan[c].todo = {} /\ UNCHANGED <<sub, sees, bus, steady>>
        /\ fan'[c].pc = "attempt" /\ fan'[c].event = fan[c].event /\ fan'[c].err = fan[c].err
        /\ \A y \in Consumers \ {c} : fan'[y] = fan[y]
    BY <1>0, <1>4, <2>1 DEF Enqueue, EventInHand, env, ghosts
  <2>3. \A d \in Deliveries : row[d].status # "none" => row'[d].status # "none"
    BY <2>1 DEF NewRow
  <2>4. \A d \in steady : Eligible(d)' /\ Candidate(d)' = Candidate(d) /\ d \in Deliveries
    BY <1>0, <2>2 DEF OwedInv, Eligible, Active, MaySee, Candidate
  <2>5. \A d \in steady : InView(c, d)'
    <3> SUFFICES ASSUME NEW d \in steady, fan[c].event = d[2], ~fan[c].err
                 PROVE  row'[d].status # "none"
      BY <2>2 DEF InView
    <3>1. Candidate(d) \in fan[c].visible /\ Active(d[1])
      BY <2>2 DEF OwedInv, InView, Eligible
    <3>2. d = <<d[1], d[2]>> /\ d \in Deliveries
      BY <1>0 DEF Deliveries
    <3>3. CASE row[d].status # "none"
      BY <2>3, <3>2, <3>3
    <3>4. CASE row[d].status = "none"
      <4>1. Candidate(d) \in Created(c)
        BY <3>1, <3>2, <3>4 DEF Created, Candidate
      <4>2. Named(Created(c), d)
        BY <4>1 DEF Named, Candidate
      <4> QED
        BY <2>1, <3>2, <4>2 DEF NewRow
    <3> QED
      BY <3>3, <3>4
  <2>6. \A x \in Consumers, d \in steady : InView(x, d)'
    BY <2>2, <2>3, <2>4, <2>5 DEF OwedInv, InView
  <2>7. \A x \in Consumers : fan'[x].pc # "idle" => bus'[fan'[x].event] # "unpublished"
    BY <2>2 DEF OwedInv
  <2>8. NothingOwedIsLost'
    BY <2>2, <2>3, <2>4 DEF OwedInv, NothingOwedIsLost
  <2> QED
    BY <2>2, <2>4, <2>6, <2>7, <2>8 DEF OwedInv
<1>5. CASE AttemptFirst(c)
  <2>1. PICK x \in fan[c].targets : fan' = [fan EXCEPT ![c].targets = @ \ {x}]
    BY <1>5 DEF AttemptFirst
  <2>2. /\ fan'[c].pc = fan[c].pc /\ fan'[c].event = fan[c].event /\ fan'[c].err = fan[c].err
        /\ fan'[c].todo = fan[c].todo /\ fan'[c].visible = fan[c].visible
        /\ \A y \in Consumers \ {c} : fan'[y] = fan[y]
    BY <1>0, <2>1 DEF EventInHand
  <2>3. UNCHANGED <<sub, sees, bus, row, steady>>
    BY <1>5, Zenon DEF AttemptFirst, env, ghosts
  <2>4. \A d \in steady : InView(c, d)'
    BY <2>2, <2>3 DEF OwedInv, InView, Candidate
  <2>5. fan'[c].pc # "idle" => bus[fan'[c].event] # "unpublished"
    BY <2>2 DEF OwedInv
  <2> QED
    BY <2>2, <2>3, <2>4, <2>5, OwedByConsumer
<1>6. CASE Handled(c)
  <2>1. /\ fan[c].pc = "attempt" /\ fan' = [fan EXCEPT ![c] = IdleFan]
        /\ bus' = IF fan[c].err THEN bus ELSE [bus EXCEPT ![fan[c].event] = "acked"]
        /\ UNCHANGED <<sub, sees, row, steady>>
    BY <1>6 DEF Handled, env, ghosts
  <2>2. \A x \in Consumers : fan'[x].pc # "idle" => x # c /\ fan'[x] = fan[x]
    BY <1>0, <2>1 DEF IdleFan
  <2>3. \A e \in Events : bus[e] # "unpublished" => bus'[e] # "unpublished"
    BY <1>0, <2>1
  <2>4. \A x \in Consumers : fan'[x].pc # "idle" => bus'[fan'[x].event] # "unpublished"
    BY <2>2, <2>3 DEF OwedInv, TypeInv, PlaceInv
  <2>5. \A d \in steady : Eligible(d)' /\ Candidate(d)' = Candidate(d)
    BY <2>1 DEF OwedInv, Eligible, Active, MaySee, Candidate
  <2>6. \A x \in Consumers, d \in steady : InView(x, d)'
    BY <2>1, <2>2, <2>5 DEF OwedInv, InView
  <2>7. NothingOwedIsLost'
    <3> SUFFICES ASSUME NEW d \in steady, bus'[d[2]] = "acked"
                 PROVE  row[d].status # "none"
      BY <2>1 DEF NothingOwedIsLost
    <3>1. CASE bus[d[2]] = "acked"
      BY <3>1 DEF OwedInv, NothingOwedIsLost
    <3>2. CASE bus[d[2]] # "acked"
      <4>1. fan[c].event = d[2] /\ ~fan[c].err
        BY <1>0, <2>1, <3>2 DEF Deliveries
      <4> QED
        BY <2>1, <4>1 DEF OwedInv, InView
    <3> QED
      BY <3>1, <3>2
  <2> QED
    BY <2>1, <2>4, <2>5, <2>6, <2>7 DEF OwedInv
<1>7. CASE ConsumerDies(c)
  <2>1. /\ fan'[c].pc = "idle" /\ \A y \in Consumers \ {c} : fan'[y] = fan[y]
        /\ UNCHANGED <<sub, sees, bus, row, steady>>
    BY <1>0, <1>7 DEF ConsumerDies, IdleFan, env, ghosts
  <2>2. \A d \in steady : InView(c, d)'
    BY <2>1 DEF InView
  <2> QED
    BY <2>1, <2>2, OwedByConsumer
<1> QED
  BY <1>1, <1>2, <1>3, <1>4, <1>5, <1>6, <1>7 DEF FanOut

LEMMA OwedStep == IInv /\ AttemptedInv /\ OwedInv /\ [Next]_vars => OwedInv'
<1> SUFFICES ASSUME IInv, AttemptedInv, OwedInv, [Next]_vars PROVE OwedInv'
  OBVIOUS
<1>0. TypeInv /\ steady \subseteq Deliveries
  BY DEF IInv, TypeInv, TypeOK
<1>1. CASE Admin
  BY <1>0, <1>1, OwedByEdit
<1>2. CASE \E e \in Events : PublishEvent(e) \/ MarkLapses(e)
  BY <1>0, <1>2, OwedByPublication, OwedByLapse
<1>3. CASE \E c \in Consumers : FanOut(c)
  BY <1>0, <1>3, OwedByFanOut
<1>4. CASE UNCHANGED <<sub, sees, bus, fan, steady>>
  <2>1. \A d \in steady : Eligible(d)' /\ Candidate(d)' = Candidate(d)
    BY <1>4 DEF OwedInv, Eligible, Active, MaySee, Candidate
  <2>2. \A d \in steady : row[d].status # "none" => row'[d].status # "none"
    BY <1>0, RowsStay
  <2> QED
    BY <1>4, <2>1, <2>2 DEF OwedInv, InView, NothingOwedIsLost
<1>5. ASSUME NEW p \in Sweepers, NEW d \in Deliveries, ClaimDueRetry(p, d) PROVE OwedInv'
  BY <1>4, <1>5 DEF ClaimDueRetry, env, ghosts
<1>6. ASSUME NEW p \in Replayers, NEW d \in Deliveries, RequireReplay(p, d) PROVE OwedInv'
  BY <1>4, <1>6 DEF RequireReplay, env, ghosts
<1>7. ASSUME NEW p \in Senders, Attempt(p) \/ CheckFails(p) \/ Abandon(p) PROVE OwedInv'
  <2>1. UNCHANGED <<sub, sees, bus, fan, steady>>
    BY <1>7 DEF Attempt, LoadTarget, StillOwner, StillSees, CheckFails, MarkVisibilityRevoked,
      ResetForReplay, Post, FailUnsent, RecordOutcome, Abandon, env, ghosts
  <2> QED
    BY <1>4, <2>1
<1>8. CASE Time
  BY <1>4, <1>8 DEF Time, BackoffElapses, LeaseLapses, env, ghosts
<1>9. CASE UNCHANGED vars
  BY <1>4, <1>9 DEF vars
<1> QED
  BY <1>1, <1>2, <1>3, <1>5, <1>6, <1>7, <1>8, <1>9 DEF Next

LEMMA OwedInductive == Spec => []OwedInv
<1>1. Init => OwedInv
  BY DEF Init, OwedInv, NothingOwedIsLost, IdleFan
<1> QED
  BY <1>1, OwedStep, Inductive, Attempted, PTL DEF Spec

\* An event is acknowledged only with a row for every subscription that was owed
\* it since its publication: a check that failed is an error, and a consumer that
\* died or skipped a row left it to the one that made it.
THEOREM OwedIsKept == Spec => []NothingOwedIsLost
<1>1. OwedInv => NothingOwedIsLost
  BY DEF OwedInv
<1> QED
  BY <1>1, OwedInductive, PTL
=============================================================================
