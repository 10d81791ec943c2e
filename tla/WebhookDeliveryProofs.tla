----------------------- MODULE WebhookDeliveryProofs -----------------------
(* Proofs about WebhookDelivery, for any numbers of subscriptions, events,  *)
(* consumers, sweeps and replays, and any bounds.                           *)
EXTENDS WebhookDelivery, TLAPS

----------------------------------------------------------------------------
(* Type correctness. A sender that is not idle is at work on a delivery, and *)
(* a consumer that is not idle handles an event.                             *)

PlaceInv ==
    /\ \A p \in Senders :
         /\ at[p].pc = "idle" => at[p] = Idle
         /\ at[p].pc # "idle" => at[p].d \in Deliveries
         /\ at[p].pc = "record" => at[p].res # "none"
         /\ at[p].pc = "load" => p \notin Consumers
         /\ at[p].pc = "reset" => p \in Replayers
    /\ \A c \in Consumers :
         /\ fan[c].pc = "idle" => fan[c] = IdleFan
         /\ fan[c].pc # "idle" => fan[c].event \in Events

TypeInv == TypeOK /\ PlaceInv

LEMMA InitType == Init => TypeInv
<1> SUFFICES ASSUME Init PROVE TypeInv
  OBVIOUS
<1> USE BoundsAssumption DEF Init
<1>1. NoRow \in Delivery
  BY DEF NoRow, NewRow, Delivery, States
<1>2. IdleFan \in EventInHand
  BY DEF IdleFan, EventInHand
<1>3. Idle \in AttemptTarget
  BY DEF Idle, NewAttempt, AttemptTarget
<1>4. sub \in [Subs -> Subscription]
  BY DEF Subscription
<1>5. TypeOK
  BY <1>1, <1>2, <1>3, <1>4 DEF TypeOK
<1>6. PlaceInv
  BY DEF PlaceInv, Idle, NewAttempt, IdleFan
<1> QED
  BY <1>5, <1>6 DEF TypeInv

(* A step of the environment leaves rows and processes alone. *)
LEMMA AdminType == TypeInv /\ Admin => TypeInv'
<1> SUFFICES ASSUME TypeInv, Admin PROVE TypeInv'
  OBVIOUS
<1> USE BoundsAssumption DEF TypeInv, TypeOK
<1>1. PlaceInv'
  BY DEF PlaceInv, Admin, CreateSubscription, UpdateSubscription,
    ArchiveSubscription, ChangeSight
<1>2. StillSteady \subseteq steady
  BY DEF StillSteady
<1>3. ASSUME NEW s \in Subs, NEW o \in Owners, CreateSubscription(s, o) PROVE TypeOK'
  <2>1. [state |-> "active", owner |-> o, listens |-> TRUE] \in Subscription
    BY DEF Subscription
  <2> QED
    BY <1>2, <1>3, <2>1 DEF CreateSubscription
<1>4. ASSUME NEW s \in Subs, NEW o \in Owners, NEW state \in {"active", "paused"},
             NEW listens \in BOOLEAN, UpdateSubscription(s, state, o, listens)
      PROVE  TypeOK'
  <2>1. [state |-> state, owner |-> o, listens |-> listens] \in Subscription
    BY DEF Subscription
  <2> QED
    BY <1>2, <1>4, <2>1 DEF UpdateSubscription
<1>5. ASSUME NEW s \in Subs, ArchiveSubscription(s) PROVE TypeOK'
  <2>1. [sub[s] EXCEPT !.state = "archived"] \in Subscription
    BY DEF Subscription
  <2> QED
    BY <1>2, <1>5, <2>1 DEF ArchiveSubscription
<1>6. ASSUME NEW o \in Owners, NEW e \in Events, ChangeSight(o, e) PROVE TypeOK'
  BY <1>2, <1>6 DEF ChangeSight
<1> QED
  BY <1>1, <1>3, <1>4, <1>5, <1>6 DEF Admin

LEMMA BusType ==
    ASSUME NEW e \in Events, TypeInv, PublishEvent(e) \/ MarkLapses(e) PROVE TypeInv'
BY BoundsAssumption DEF TypeInv, TypeOK, PlaceInv, PublishEvent, MarkLapses, env, ghosts

(* A step of one consumer's HandleEvent. *)
LEMMA FanOutType ==
    ASSUME NEW c \in Consumers, TypeInv, FanOut(c) PROVE TypeInv'
<1> USE BoundsAssumption DEF TypeInv, TypeOK, env, ghosts
<1>1. ASSUME NEW e \in Events, HandleEvent(c, e) PROVE TypeInv'
  <2> DEFINE todo == {<<s, sub[s].owner>> : s \in {t \in Subs : Active(t) /\ sub[t].listens}}
  <2>1. todo \in SUBSET Candidates
    BY DEF Candidates, Subscription
  <2>2. fan'[c] = [pc |-> "check", event |-> e, todo |-> todo, visible |-> {},
                   targets |-> {}, err |-> FALSE]
    BY <1>1 DEF HandleEvent, Match, IdleFan
  <2> HIDE DEF todo
  <2>3. fan'[c] \in EventInHand /\ fan'[c].event \in Events /\ fan'[c].pc # "idle"
    BY <2>1, <2>2 DEF EventInHand
  <2>4. fan' \in [Consumers -> EventInHand]
    BY <1>1, <2>3 DEF HandleEvent, Match
  <2>5. TypeOK'
    BY <1>1, <2>4 DEF HandleEvent
  <2>6. PlaceInv'
    BY <1>1, <2>3 DEF HandleEvent, Match, PlaceInv
  <2> QED
    BY <2>5, <2>6
<1>2. CASE CheckOwner(c)
  <2>1. PICK x \in fan[c].todo :
           fan' = [fan EXCEPT ![c].todo = @ \ {x},
                              ![c].visible = IF MaySee(x[2], fan[c].event)
                                               THEN @ \cup {x} ELSE @]
    BY <1>2 DEF CheckOwner
  <2>2. fan'[c] \in EventInHand /\ fan'[c].event = fan[c].event /\ fan'[c].pc = fan[c].pc
    BY <2>1 DEF EventInHand
  <2>3. PlaceInv'
    BY <1>2, <2>2 DEF CheckOwner, PlaceInv
  <2>4. TypeOK'
    BY <1>2, <2>2 DEF CheckOwner
  <2> QED
    BY <2>3, <2>4
<1>3. CASE CheckOwnerFails(c)
  <2>1. PICK x \in fan[c].todo :
           fan' = [fan EXCEPT ![c].todo = @ \ {x}, ![c].err = TRUE]
    BY <1>3 DEF CheckOwnerFails
  <2>2. fan'[c] \in EventInHand /\ fan'[c].event = fan[c].event /\ fan'[c].pc = fan[c].pc
    BY <2>1 DEF EventInHand
  <2>3. PlaceInv'
    BY <1>3, <2>2 DEF CheckOwnerFails, PlaceInv
  <2>4. TypeOK'
    BY <1>3, <2>2 DEF CheckOwnerFails
  <2> QED
    BY <2>3, <2>4
<1>4. CASE Enqueue(c)
  <2>1. PICK bad \in SUBSET Created(c) :
          /\ row' = [d \in Deliveries |->
                      IF d[2] = fan[c].event /\ Named(Created(c), d)
                        THEN NewRow(IF Named(bad, d) THEN "dead_lettered" ELSE "pending")
                        ELSE row[d]]
          /\ fan' = [fan EXCEPT ![c] = [@ EXCEPT !.pc = "attempt", !.visible = {},
                                               !.targets = Created(c) \ bad]]
    BY <1>4 DEF Enqueue
  <2>2. Created(c) \subseteq Candidates
    BY DEF Created, EventInHand
  <2>a. fan[c].pc = "check" /\ Created(c) \ bad \in SUBSET Candidates
    BY <1>4, <2>2 DEF Enqueue
  <2>3. /\ fan'[c] \in EventInHand /\ fan'[c].pc = "attempt"
        /\ fan'[c].event = fan[c].event /\ fan[c].pc = "check"
    BY <2>1, <2>a DEF EventInHand
  <2>4. NewRow("dead_lettered") \in Delivery /\ NewRow("pending") \in Delivery
    BY DEF NewRow, Delivery, States
  <2>5. row' \in [Deliveries -> Delivery]
    <3> SUFFICES ASSUME NEW d \in Deliveries PROVE row'[d] \in Delivery
      BY <2>1
    <3> QED
      BY <2>1, <2>4
  <2>6. PlaceInv'
    BY <1>4, <2>1, <2>3 DEF Enqueue, PlaceInv
  <2>7. fan' \in [Consumers -> EventInHand]
    BY <2>1, <2>3
  <2>8. TypeOK'
    BY <1>4, <2>5, <2>7 DEF Enqueue
  <2> QED
    BY <2>6, <2>8
<1>5. CASE AttemptFirst(c)
  <2>1. PICK x \in fan[c].targets :
          /\ fan' = [fan EXCEPT ![c].targets = @ \ {x}]
          /\ at' = [at EXCEPT ![c] = 
                    NewAttempt("owner", <<x[1], fan[c].event>>, 0, x[2])]
    BY <1>5 DEF AttemptFirst
  <2>2. x \in Candidates /\ fan[c].event \in Events /\ fan[c].pc = "attempt"
    BY <1>5, <2>1 DEF EventInHand, PlaceInv, AttemptFirst
  <2>3. at'[c] \in AttemptTarget /\ at'[c].d \in Deliveries /\ at'[c].pc = "owner"
    BY <2>1, <2>2 DEF AttemptTarget, NewAttempt, Deliveries, Candidates, Senders
  <2>4. fan'[c] \in EventInHand /\ fan'[c].pc = "attempt" /\ fan'[c].event \in Events
    BY <2>1, <2>2 DEF EventInHand
  <2>5. PlaceInv'
    BY <1>5, <2>1, <2>3, <2>4 DEF AttemptFirst, PlaceInv
  <2>6. TypeOK'
    BY <1>5, <2>1, <2>3, <2>4 DEF AttemptFirst
  <2> QED
    BY <2>5, <2>6
<1>6. CASE Handled(c)
  BY <1>6 DEF Handled, IdleFan, EventInHand, PlaceInv
<1>7. CASE ConsumerDies(c)
  BY <1>7 DEF ConsumerDies, Idle, NewAttempt, IdleFan, EventInHand, AttemptTarget, PlaceInv, Senders
<1> QED
  BY <1>1, <1>2, <1>3, <1>4, <1>5, <1>6, <1>7 DEF FanOut

LEMMA RevokedRow ==
    ASSUME NEW r \in Delivery
    PROVE  [r EXCEPT !.status = "visibility_revoked", !.due = FALSE,
                     !.claim = 0, !.live = FALSE] \in Delivery
<1>1. 0 \in 0 .. MaxClaims
  BY BoundsAssumption
<1> QED
  BY <1>1 DEF Delivery, States

(* A sender takes up a row, or does a step of its attempt, or gives up. *)
LEMMA SenderType ==
    ASSUME TypeInv,
           \/ \E p \in Sweepers, d \in Deliveries : ClaimDueRetry(p, d)
           \/ \E p \in Replayers, d \in Deliveries : RequireReplay(p, d)
           \/ \E p \in Senders : Attempt(p) \/ CheckFails(p) \/ Abandon(p)
    PROVE  TypeInv'
<1> USE BoundsAssumption DEF TypeInv, TypeOK, env, ghosts
<1>0. Idle \in AttemptTarget
  BY DEF Idle, NewAttempt, AttemptTarget
<1>1. ASSUME NEW p \in Sweepers, NEW d \in Deliveries, ClaimDueRetry(p, d) PROVE TypeInv'
  <2>1. p \in Senders /\ p \notin Consumers /\ Token(d) \in 0 .. MaxClaims
    BY <1>1, ProcessAssumption DEF Senders, ClaimDueRetry, Token
  <2>2. at'[p] \in AttemptTarget /\ at'[p].d = d /\ at'[p].pc = "load"
    BY <1>1, <2>1 DEF ClaimDueRetry, NewAttempt, AttemptTarget
  <2>3. row'[d] \in Delivery
    BY <1>1, <2>1 DEF ClaimDueRetry, TakeClaim, Delivery
  <2>4. PlaceInv'
    BY <1>1, <2>1, <2>2 DEF ClaimDueRetry, PlaceInv
  <2>5. issued'[d] \in 0 .. MaxClaims
    BY <1>1 DEF ClaimDueRetry
  <2> QED
    BY <1>1, <2>2, <2>3, <2>4, <2>5 DEF ClaimDueRetry
<1>2. ASSUME NEW p \in Replayers, NEW d \in Deliveries, RequireReplay(p, d) PROVE TypeInv'
  <2>1. p \in Senders /\ p \notin Consumers
    BY ProcessAssumption DEF Senders
  <2>2. at'[p] \in AttemptTarget /\ at'[p].d = d /\ at'[p].pc = "load"
    BY <1>2, <2>1 DEF RequireReplay, NewAttempt, AttemptTarget
  <2>3. PlaceInv'
    BY <1>2, <2>1, <2>2 DEF RequireReplay, PlaceInv
  <2> QED
    BY <1>2, <2>2, <2>3 DEF RequireReplay
<1>3. ASSUME NEW p \in Senders, Attempt(p) \/ CheckFails(p) \/ Abandon(p) PROVE TypeInv'
  <2>0. at[p] \in AttemptTarget /\ (at[p].pc # "idle" => at[p].d \in Deliveries)
    BY DEF PlaceInv
  <2>1. CASE LoadTarget(p)
    <3>1. at'[p] \in AttemptTarget /\ at'[p].d \in Deliveries /\ at'[p].pc = "owner"
      BY <2>0, <2>1 DEF LoadTarget, AttemptTarget, Delivery, Subscription, Deliveries
    <3>2. PlaceInv'
      BY <2>1, <3>1 DEF LoadTarget, PlaceInv
    <3> QED
      BY <2>1, <3>1, <3>2 DEF LoadTarget
  <2>2. CASE StillOwner(p)
    <3>1. at'[p] \in AttemptTarget /\ at'[p].d \in Deliveries /\ at'[p].pc \in {"see", "revoke"}
      BY <2>0, <2>2 DEF StillOwner, AttemptTarget
    <3>2. PlaceInv'
      BY <2>2, <3>1 DEF StillOwner, PlaceInv
    <3> QED
      BY <2>2, <3>1, <3>2 DEF StillOwner
  <2>3. CASE StillSees(p)
    <3>1. at'[p] \in AttemptTarget /\ at'[p].d \in Deliveries
      BY <2>0, <2>3 DEF StillSees, AttemptTarget
    <3>2. at'[p].pc \in {"revoke", "post"} \/ (at'[p].pc = "reset" /\ p \in Replayers)
      BY <2>0, <2>3 DEF StillSees, AttemptTarget
    <3>3. PlaceInv'
      BY <2>3, <3>1, <3>2 DEF StillSees, PlaceInv
    <3> QED
      BY <2>3, <3>1, <3>3 DEF StillSees
  <2>4. CASE MarkVisibilityRevoked(p)
    <3>1. at[p].d \in Deliveries
      BY <2>0, <2>4 DEF MarkVisibilityRevoked
    <3>2. row' \in [Deliveries -> Delivery]
      BY <2>4, <3>1, RevokedRow DEF MarkVisibilityRevoked
    <3>3. PlaceInv'
      BY <1>0, <2>4 DEF MarkVisibilityRevoked, PlaceInv, Idle, NewAttempt
    <3> QED
      BY <1>0, <2>4, <3>2, <3>3 DEF MarkVisibilityRevoked
  <2>5. CASE ResetForReplay(p)
    <3>1. at[p].d \in Deliveries /\ at[p].pc = "reset"
      BY <2>0, <2>5 DEF ResetForReplay
    <3>2. CASE at' = [at EXCEPT ![p] = Idle] /\ UNCHANGED <<row, issued, sent>>
      <4>1. PlaceInv'
        BY <1>0, <2>5, <3>2 DEF ResetForReplay, PlaceInv, Idle, NewAttempt
      <4> QED
        BY <1>0, <2>5, <3>2, <4>1 DEF ResetForReplay
    <3>3. CASE /\ issued[at[p].d] < MaxClaims
               /\ row' = [row EXCEPT ![at[p].d] = TakeClaim(at[p].d, [@ EXCEPT
                                          !.status = "pending", !.due = FALSE])]
               /\ issued' = [issued EXCEPT ![at[p].d] = @ + 1]
               /\ at' = [at EXCEPT ![p] = [@ EXCEPT !.pc = "post", !.prior = 0,
                                               !.claim = Token(at[p].d)]]
               /\ sent' = [sent EXCEPT ![at[p].d] = 0]
      <4>1. Token(at[p].d) \in 0 .. MaxClaims
        BY <3>1, <3>3 DEF Token
      <4>2. at'[p] \in AttemptTarget /\ at'[p].d \in Deliveries /\ at'[p].pc = "post"
        BY <2>0, <3>1, <3>3, <4>1 DEF AttemptTarget
      <4>a. row[at[p].d] \in Delivery
        BY <3>1
      <4>b. row'[at[p].d] = [row[at[p].d] EXCEPT !.status = "pending", !.due = FALSE,
                               !.claim = Token(at[p].d), !.live = TRUE]
        BY <3>1, <3>3 DEF TakeClaim
      <4>3. row'[at[p].d] \in Delivery
        BY <4>1, <4>a, <4>b DEF Delivery, States
      <4>4. PlaceInv'
        BY <2>5, <3>3, <4>2 DEF ResetForReplay, PlaceInv
      <4>5. issued' \in [Deliveries -> 0 .. MaxClaims]
        BY <3>1, <3>3
      <4> QED
        BY <2>5, <3>1, <3>3, <4>2, <4>3, <4>4, <4>5 DEF ResetForReplay
    <3> QED
      BY <2>5, <3>2, <3>3 DEF ResetForReplay
  <2>6. CASE Post(p) \/ FailUnsent(p)
    <3>1. at'[p] \in AttemptTarget /\ at'[p].d \in Deliveries
          /\ at'[p].pc = "record" /\ at'[p].res # "none"
      <4>1. CASE Post(p)
        <5>1. PICK res \in {"ok", "fail"} :
                at' = [at EXCEPT ![p] = [@ EXCEPT !.pc = "record", !.res = res]]
          BY <4>1 DEF Post
        <5>2. at[p].d \in Deliveries
          BY <2>0, <4>1 DEF Post
        <5> QED
          BY <2>0, <5>1, <5>2 DEF AttemptTarget
      <4>2. CASE FailUnsent(p)
        BY <2>0, <4>2 DEF FailUnsent, AttemptTarget
      <4> QED
        BY <2>6, <4>1, <4>2
    <3>2. PlaceInv'
      BY <2>6, <3>1 DEF Post, FailUnsent, PlaceInv
    <3> QED
      BY <2>6, <3>1, <3>2 DEF Post, FailUnsent
  <2>7. CASE RecordOutcome(p)
    <3>1. at[p].d \in Deliveries /\ at[p].prior \in Nat
      BY <2>0, <2>7 DEF RecordOutcome, AttemptTarget
    <3>2. Outcome(at[p].res, at[p].prior + 1) \in Delivery
      BY <3>1 DEF Outcome, Delivery, States
    <3>3. row' \in [Deliveries -> Delivery]
      BY <2>7, <3>1, <3>2 DEF RecordOutcome
    <3>4. PlaceInv'
      BY <1>0, <2>7 DEF RecordOutcome, PlaceInv, Idle, NewAttempt
    <3> QED
      BY <1>0, <2>7, <3>3, <3>4 DEF RecordOutcome
  <2>8. CASE CheckFails(p)
    <3>1. /\ at'[p] \in AttemptTarget
          /\ \/ at'[p] = Idle
             \/ at'[p].d \in Deliveries /\ at'[p].pc = "record" /\ at'[p].res # "none"
      BY <1>0, <2>0, <2>8 DEF CheckFails, AttemptTarget
    <3>2. PlaceInv'
      BY <2>8, <3>1 DEF CheckFails, PlaceInv, Idle, NewAttempt
    <3>3. at' \in [Senders -> AttemptTarget]
      BY <2>8, <3>1 DEF CheckFails
    <3>4. /\ faults < MaxFaults /\ faults' = faults + 1
          /\ UNCHANGED <<sub, sees, edits, bus, row, issued, fan, firsts, sent, steady>>
      BY <2>8, Zenon DEF CheckFails
    <3>5. TypeOK'
      BY <3>3, <3>4
    <3> QED
      BY <3>2, <3>5
  <2>9. CASE Abandon(p)
    BY <1>0, <2>9 DEF Abandon, PlaceInv, Idle, NewAttempt
  <2> QED
    BY <1>3, <2>1, <2>2, <2>3, <2>4, <2>5, <2>6, <2>7, <2>8, <2>9 DEF Attempt
<1> QED
  BY <1>1, <1>2, <1>3

LEMMA TimeType == TypeInv /\ Time => TypeInv'
<1> SUFFICES ASSUME TypeInv, NEW d \in Deliveries, BackoffElapses(d) \/ LeaseLapses(d)
             PROVE  TypeInv'
  BY DEF Time
<1>a. row[d] \in Delivery
  BY DEF TypeInv, TypeOK
<1>1. row'[d] \in Delivery
  <2>1. row'[d] = [row[d] EXCEPT !.due = TRUE] \/ row'[d] = [row[d] EXCEPT !.live = FALSE]
    BY DEF TypeInv, TypeOK, BackoffElapses, LeaseLapses
  <2> QED
    BY <1>a, <2>1 DEF Delivery
<1>2. row' \in [Deliveries -> Delivery]
  BY <1>1 DEF TypeInv, TypeOK, BackoffElapses, LeaseLapses
<1>3. faults' \in 0 .. MaxFaults
  <2>1. faults' = faults \/ (faults < MaxFaults /\ faults' = faults + 1)
    BY DEF BackoffElapses, LeaseLapses
  <2> QED
    BY <2>1, BoundsAssumption DEF TypeInv, TypeOK
<1>4. UNCHANGED <<env, bus, issued, fan, at, ghosts>>
  BY DEF BackoffElapses, LeaseLapses
<1> QED
  BY <1>2, <1>3, <1>4 DEF TypeInv, TypeOK, PlaceInv, env, ghosts

LEMMA TypeStep == TypeInv /\ [Next]_vars => TypeInv'
<1>1. TypeInv /\ UNCHANGED vars => TypeInv'
  BY DEF TypeInv, TypeOK, PlaceInv, vars
<1> QED
  BY <1>1, AdminType, BusType, FanOutType, SenderType, TimeType DEF Next

\* Rows, claims, senders and consumers stay well-formed: no attempt works on a
\* row that is not one, no status the table's CHECK refuses is written.
THEOREM TypeCorrect == Spec => []TypeOK
<1>1. TypeInv => TypeOK
  BY DEF TypeInv
<1> QED
  BY InitType, TypeStep, <1>1, PTL DEF Spec

----------------------------------------------------------------------------
(* The strengthening the safety invariants need.                            *)
(*                                                                         *)
(* A first attempt holds no claim: its row must be kept from everybody else *)
(* in another way. It is: only the consumer that created the row has it,    *)
(* and until that consumer is done the row is pending, which no sweep       *)
(* claims and no replay takes. After that, claims do it: a token is only    *)
(* ever given to one sender.                                                *)

Target(c, d) == fan[c].event = d[2] /\ Named(fan[c].targets, d)
First(c, d) == Target(c, d) \/ AtWorkOn(c, d)
Claimers == Sweepers \cup Replayers

\* Whose first attempt a delivery is.
FirstInv ==
    /\ \A c \in Consumers, d \in Deliveries :
         First(c, d) => row[d].status = "pending" /\ row[d].claim = 0
    /\ \A c1, c2 \in Consumers, d \in Deliveries :
         First(c1, d) /\ First(c2, d) => c1 = c2
    /\ \A c \in Consumers, d \in Deliveries : ~(Target(c, d) /\ AtWorkOn(c, d))
    /\ \A c \in Consumers : \A x, y \in fan[c].targets : x[1] = y[1] => x = y
    /\ \A p \in Claimers, d \in Deliveries :
         AtWorkOn(p, d) => /\ row[d].status # "none"
                           /\ \A c \in Consumers : ~First(c, d)

\* How often a first attempt was made.
FirstsInv ==
    \A d \in Deliveries :
        /\ firsts[d] <= 1
        /\ row[d].status = "none" => firsts[d] = 0
        /\ \A c \in Consumers : Target(c, d) => firsts[d] = 0
        /\ \A c \in Consumers : AtWorkOn(c, d) /\ at[c].pc # "record" => firsts[d] = 0

\* Who holds which claim.
ClaimInv ==
    /\ \A c \in Consumers : at[c].claim = 0 /\ at[c].prior = 0
    /\ \A p \in Sweepers : at[p].pc # "idle" => at[p].claim # 0
    /\ \A p \in Replayers : at[p].claim # 0 <=> at[p].pc \in {"post", "record"}
    /\ \A d \in Deliveries : row[d].claim <= issued[d]
    /\ \A p \in Senders, d \in Deliveries : AtWorkOn(p, d) => at[p].claim <= issued[d]
    /\ \A p, q \in Senders, d \in Deliveries :
         AtWorkOn(p, d) /\ AtWorkOn(q, d) /\ at[p].claim = at[q].claim /\ at[p].claim # 0
           => p = q

\* What a row, and the sender the row waits for, say of the attempts so far.
CountInv ==
    /\ RestingUnclaimed
    /\ CountsInBudget
    /\ \A d \in Deliveries : row[d].claim = 0 => ~row[d].live
    /\ \A p \in Sweepers, d \in Deliveries :
         AtWorkOn(p, d) /\ at[p].claim = row[d].claim
           => /\ row[d].status = "retrying"
              /\ at[p].pc # "load" => at[p].prior = row[d].attempts
    /\ \A p \in Replayers, d \in Deliveries :
         AtWorkOn(p, d) /\ at[p].claim # 0
           => /\ at[p].prior = 0
              /\ at[p].claim = row[d].claim => row[d].status = "pending"

IInv == TypeInv /\ FirstInv /\ FirstsInv /\ ClaimInv /\ CountInv

LEMMA InitIInv == Init => IInv
<1> SUFFICES ASSUME Init PROVE IInv
  OBVIOUS
<1>1. TypeInv
  BY InitType
<1>2. /\ \A p \in Senders : at[p] = Idle
      /\ \A c \in Consumers : fan[c] = IdleFan
      /\ \A d \in Deliveries : row[d] = NoRow /\ issued[d] = 0 /\ firsts[d] = 0
  BY DEF Init
<1>3. \A c \in Consumers, d \in Deliveries : ~First(c, d)
  BY <1>2 DEF First, Target, AtWorkOn, Named, Senders, Idle, NewAttempt, IdleFan
<1>4. FirstInv
  BY <1>2, <1>3 DEF FirstInv, First, AtWorkOn, Claimers, Senders, Idle, NewAttempt, IdleFan
<1>5. FirstsInv
  BY <1>2 DEF FirstsInv, Target, Named, IdleFan, AtWorkOn, Senders, Idle, NewAttempt
<1>6. ClaimInv
  BY <1>2 DEF ClaimInv, AtWorkOn, Senders, Idle, NewAttempt, NoRow, NewRow
<1>7. CountInv
  BY <1>2, AttemptsAssumption
  DEF CountInv, RestingUnclaimed, CountsInBudget, AtWorkOn, Senders, Idle, NewAttempt,
      NoRow, NewRow
<1> QED
  BY <1>1, <1>4, <1>5, <1>6, <1>7 DEF IInv

(* Checking owners leaves the targets of every consumer alone. *)
LEMMA CheckKeepsTargets ==
    ASSUME TypeInv, NEW c \in Consumers, CheckOwner(c) \/ CheckOwnerFails(c)
    PROVE  /\ UNCHANGED <<row, issued, at, firsts>>
           /\ \A c1 \in Consumers : /\ fan'[c1].targets = fan[c1].targets
                                    /\ fan'[c1].event = fan[c1].event
                                    /\ fan'[c1].pc = fan[c1].pc
<1> USE DEF TypeInv, TypeOK, EventInHand, env, ghosts
<1>1. CASE CheckOwner(c)
  <2>1. PICK x \in fan[c].todo :
           fan' = [fan EXCEPT ![c].todo = @ \ {x},
                              ![c].visible = IF MaySee(x[2], fan[c].event)
                                               THEN @ \cup {x} ELSE @]
    BY <1>1 DEF CheckOwner
  <2>2. UNCHANGED <<row, issued, at, firsts>>
    BY <1>1, Zenon DEF CheckOwner
  <2> QED
    BY <2>1, <2>2
<1>2. CASE CheckOwnerFails(c)
  <2>1. PICK x \in fan[c].todo :
           fan' = [fan EXCEPT ![c].todo = @ \ {x}, ![c].err = TRUE]
    BY <1>2 DEF CheckOwnerFails
  <2>2. UNCHANGED <<row, issued, at, firsts>>
    BY <1>2, Zenon DEF CheckOwnerFails
  <2> QED
    BY <2>1, <2>2
<1> QED
  BY <1>1, <1>2

(* What the steps of an attempt that write no row have in common: the sender *)
(* goes on with the same delivery and the same claim, or stops.              *)
Moves(p) ==
    /\ UNCHANGED <<row, issued, fan>>
    /\ \A q \in Senders \ {p} : at'[q] = at[q]
    /\ at[p].pc # "idle"
    /\ \/ at'[p] = Idle
       \/ /\ at'[p].d = at[p].d /\ at'[p].claim = at[p].claim
          /\ at'[p].pc \in {"owner", "see", "revoke", "reset", "post", "record"}
          /\ at'[p].pc # "record" => at[p].pc # "record"
          /\ p \in Replayers =>
               (at'[p].pc \in {"post", "record"} <=> at[p].pc \in {"post", "record"})
          /\ at[p].pc # "load" => at'[p].prior = at[p].prior
          /\ at[p].pc = "load" => at'[p].prior = row[at[p].d].attempts

LEMMA MoveShape ==
    ASSUME TypeInv, NEW p \in Senders,
           \/ LoadTarget(p) \/ StillOwner(p) \/ StillSees(p) \/ CheckFails(p)
           \/ Post(p) \/ FailUnsent(p) \/ Abandon(p)
    PROVE  Moves(p)
<1> USE DEF Moves, TypeInv, TypeOK, AttemptTarget
<1>1. CASE LoadTarget(p)
  BY <1>1 DEF LoadTarget
<1>2. CASE StillOwner(p)
  BY <1>2 DEF StillOwner
<1>3. CASE StillSees(p)
  <2>1. at'[p].pc \in {"revoke", "reset", "post"} /\ (p \in Replayers => at'[p].pc # "post")
    BY <1>3 DEF StillSees
  <2> QED
    BY <1>3, <2>1 DEF StillSees
<1>4. CASE CheckFails(p)
  BY <1>4 DEF CheckFails
<1>5. CASE Post(p)
  BY <1>5 DEF Post
<1>6. CASE FailUnsent(p)
  BY <1>6 DEF FailUnsent
<1>7. CASE Abandon(p)
  BY <1>7 DEF Abandon, PlaceInv
<1> QED
  BY <1>1, <1>2, <1>3, <1>4, <1>5, <1>6, <1>7

(* Enqueue only creates rows; the consumer's targets are rows it created. *)
LEMMA EnqueueShape ==
    ASSUME TypeInv, NEW c \in Consumers, Enqueue(c)
    PROVE  /\ UNCHANGED <<at, issued, firsts>>
           /\ \A d \in Deliveries :
                \/ row'[d] = row[d]
                \/ /\ row[d].status = "none"
                   /\ row'[d] \in {NewRow("pending"), NewRow("dead_lettered")}
           /\ \A d \in Deliveries :
                Target(c, d)' => row[d].status = "none" /\ row'[d] = NewRow("pending")
           /\ \A c1 \in Consumers \ {c} : fan'[c1] = fan[c1]
           /\ \A x, y \in fan'[c].targets : x[1] = y[1] => x = y
<1>1. PICK bad \in SUBSET Created(c) :
        /\ row' = [d \in Deliveries |->
                    IF d[2] = fan[c].event /\ Named(Created(c), d)
                      THEN NewRow(IF Named(bad, d) THEN "dead_lettered" ELSE "pending")
                      ELSE row[d]]
        /\ fan' = [fan EXCEPT ![c] = [@ EXCEPT !.pc = "attempt", !.visible = {},
                                             !.targets = Created(c) \ bad]]
  BY DEF Enqueue
<1>2. UNCHANGED <<at, issued, firsts>>
  BY Zenon DEF Enqueue, ghosts
<1>3. /\ fan'[c].targets = Created(c) \ bad
      /\ fan'[c].event = fan[c].event
      /\ \A c1 \in Consumers \ {c} : fan'[c1] = fan[c1]
  BY <1>1 DEF TypeInv, TypeOK, EventInHand
<1>4. \A x, y \in Created(c) : x[1] = y[1] => x = y
  BY DEF Created, TypeInv, TypeOK, EventInHand, Candidates
<1>5. \A d \in Deliveries :
        d[2] = fan[c].event /\ Named(Created(c), d) => row[d].status = "none"
  <2>1. \A d \in Deliveries : d = <<d[1], d[2]>>
    BY DEF Deliveries
  <2> QED
    BY <2>1 DEF Created, Named
<1>6. \A d \in Deliveries :
        \/ row'[d] = row[d]
        \/ row[d].status = "none" /\ row'[d] \in {NewRow("pending"), NewRow("dead_lettered")}
  BY <1>1, <1>5
<1>7. ASSUME NEW d \in Deliveries, Target(c, d)'
      PROVE  row[d].status = "none" /\ row'[d] = NewRow("pending")
  <2>1. PICK x \in Created(c) \ bad : x[1] = d[1] /\ fan[c].event = d[2]
    BY <1>3, <1>7 DEF Target, Named
  <2>2. ~Named(bad, d) /\ Named(Created(c), d)
    BY <1>4, <2>1 DEF Named
  <2> QED
    BY <1>1, <1>5, <2>1, <2>2
<1> QED
  BY <1>2, <1>3, <1>4, <1>6, <1>7

(* A consumer takes one of its targets in hand. *)
LEMMA AttemptFirstShape ==
    ASSUME IInv, NEW c \in Consumers, AttemptFirst(c)
    PROVE  \E d \in Deliveries :
             /\ Target(c, d) /\ ~Target(c, d)'
             /\ UNCHANGED <<row, issued, firsts>>
             /\ at'[c].pc = "owner" /\ at'[c].d = d
             /\ at'[c].claim = 0 /\ at'[c].prior = 0
             /\ \A p \in Senders \ {c} : at'[p] = at[p]
             /\ \A c1 \in Consumers, d1 \in Deliveries : Target(c1, d1)' => Target(c1, d1)
             /\ \A c1 \in Consumers : fan'[c1].targets \subseteq fan[c1].targets
<1> USE DEF IInv
<1>1. PICK x \in fan[c].targets :
        /\ fan' = [fan EXCEPT ![c].targets = @ \ {x}]
        /\ at' = [at EXCEPT ![c] = NewAttempt("owner", <<x[1], fan[c].event>>, 0, x[2])]
  BY DEF AttemptFirst
<1>2. PICK d \in Deliveries : d = <<x[1], fan[c].event>>
  BY <1>1 DEF AttemptFirst, TypeInv, TypeOK, PlaceInv, EventInHand, Candidates, Deliveries
<1>3. /\ fan'[c].targets = fan[c].targets \ {x}
      /\ fan'[c].event = fan[c].event
      /\ \A c1 \in Consumers \ {c} : fan'[c1] = fan[c1]
  BY <1>1 DEF TypeInv, TypeOK, EventInHand
<1>4. /\ at'[c] = NewAttempt("owner", d, 0, x[2])
      /\ \A p \in Senders \ {c} : at'[p] = at[p]
  BY <1>1, <1>2 DEF TypeInv, TypeOK, Senders
<1>5. Target(c, d) /\ ~Target(c, d)'
  BY <1>1, <1>2, <1>3 DEF Target, Named, FirstInv
<1>6. \A c1 \in Consumers, d1 \in Deliveries : Target(c1, d1)' => Target(c1, d1)
  BY <1>3 DEF Target, Named
<1>7. UNCHANGED <<row, issued, firsts>>
  BY Zenon DEF AttemptFirst, ghosts
<1>8. \A c1 \in Consumers : fan'[c1].targets \subseteq fan[c1].targets
  BY <1>3
<1> QED
  BY <1>4, <1>5, <1>6, <1>7, <1>8 DEF NewAttempt

(* A consumer is done with its event, or has just begun with it. *)
LEMMA EmptyHandsShape ==
    ASSUME TypeInv, NEW c \in Consumers,
           \/ \E e \in Events : HandleEvent(c, e)
           \/ Handled(c) \/ ConsumerDies(c)
    PROVE  /\ UNCHANGED <<row, issued, firsts>>
           /\ fan'[c].targets = {}
           /\ \A c1 \in Consumers \ {c} : fan'[c1] = fan[c1]
           /\ at'[c] \in {at[c], Idle}
           /\ \A p \in Senders \ {c} : at'[p] = at[p]
<1> USE DEF TypeInv, TypeOK, ghosts, Senders, IdleFan
<1>1. CASE \E e \in Events : HandleEvent(c, e)
  BY <1>1 DEF HandleEvent, Match
<1>2. CASE Handled(c)
  BY <1>2 DEF Handled
<1>3. CASE ConsumerDies(c)
  BY <1>3 DEF ConsumerDies
<1> QED
  BY <1>1, <1>2, <1>3

LEMMA ClaimShape ==
    ASSUME TypeInv, NEW p \in Sweepers, NEW d \in Deliveries, ClaimDueRetry(p, d)
    PROVE  /\ UNCHANGED <<fan, firsts>>
           /\ at[p] = Idle /\ at'[p] = NewAttempt("load", d, issued[d] + 1, None)
           /\ \A q \in Senders \ {p} : at'[q] = at[q]
           /\ row[d].status = "retrying" /\ row'[d].status = "retrying"
           /\ row'[d].attempts = row[d].attempts
           /\ row'[d].claim = issued[d] + 1 /\ row'[d].live
           /\ issued'[d] = issued[d] + 1
           /\ \A d1 \in Deliveries \ {d} : row'[d1] = row[d1] /\ issued'[d1] = issued[d1]
<1>1. row[d] \in Delivery
  BY DEF TypeInv, TypeOK
<1> QED
  BY <1>1 DEF ClaimDueRetry, TakeClaim, Token, Delivery, Senders, TypeInv, TypeOK, ghosts

LEMMA RequireShape ==
    ASSUME TypeInv, NEW p \in Replayers, NEW d \in Deliveries, RequireReplay(p, d)
    PROVE  /\ UNCHANGED <<row, issued, fan, firsts>>
           /\ at[p] = Idle /\ at'[p] = NewAttempt("load", d, 0, None)
           /\ \A q \in Senders \ {p} : at'[q] = at[q]
           /\ row[d].status \notin {"none", "pending"}
BY DEF RequireReplay, Replayable, Senders, TypeInv, TypeOK, ghosts

(* The end of an attempt: the row is revoked, or takes the outcome if the    *)
(* sender still holds it, or is left alone.                                  *)
LEMMA SettleShape ==
    ASSUME TypeInv, NEW p \in Senders, MarkVisibilityRevoked(p) \/ RecordOutcome(p)
    PROVE  \E d \in Deliveries :
             /\ UNCHANGED <<issued, fan, firsts>>
             /\ at[p].d = d /\ AtWorkOn(p, d)
             /\ at'[p] = Idle
             /\ \A q \in Senders \ {p} : at'[q] = at[q]
             /\ \A d1 \in Deliveries \ {d} : row'[d1] = row[d1]
             /\ \/ row'[d] = row[d]
                \/ /\ at[p].pc = "revoke"
                   /\ row'[d].status = "visibility_revoked"
                   /\ row'[d].attempts = row[d].attempts
                   /\ row'[d].claim = 0 /\ ~row'[d].live
                \/ /\ at[p].pc = "record"
                   /\ row[d].status # "visibility_revoked" /\ row[d].claim = at[p].claim
                   /\ row'[d] = Outcome(at[p].res, at[p].prior + 1)
<1> USE DEF TypeInv, TypeOK, ghosts
<1>1. PICK d \in Deliveries : at[p].d = d /\ AtWorkOn(p, d)
  BY DEF MarkVisibilityRevoked, RecordOutcome, AtWorkOn, PlaceInv
<1>2. /\ at'[p] = Idle /\ UNCHANGED <<issued, fan, firsts>>
      /\ \A q \in Senders \ {p} : at'[q] = at[q]
  BY DEF MarkVisibilityRevoked, RecordOutcome
<1>3. row[d] \in Delivery
  OBVIOUS
<1>4. CASE MarkVisibilityRevoked(p)
  <2>1. CASE row' = row
    BY <1>1, <1>2, <2>1
  <2>2. CASE row' = [row EXCEPT ![d] = [@ EXCEPT !.status = "visibility_revoked",
                                         !.due = FALSE, !.claim = 0, !.live = FALSE]]
    <3>1. /\ row'[d].status = "visibility_revoked"
          /\ row'[d].attempts = row[d].attempts
          /\ row'[d].claim = 0 /\ ~row'[d].live
          /\ \A d1 \in Deliveries \ {d} : row'[d1] = row[d1]
      BY <1>3, <2>2 DEF Delivery
    <3>2. at[p].pc = "revoke"
      BY <1>4 DEF MarkVisibilityRevoked
    <3> QED
      BY <1>1, <1>2, <3>1, <3>2
  <2> QED
    BY <1>1, <1>4, <2>1, <2>2 DEF MarkVisibilityRevoked
<1>5. CASE RecordOutcome(p)
  BY <1>1, <1>2, <1>5 DEF RecordOutcome, StillHolds
<1> QED
  BY <1>4, <1>5

LEMMA ResetShape ==
    ASSUME TypeInv, NEW p \in Senders, ResetForReplay(p)
    PROVE  \E d \in Deliveries :
             /\ UNCHANGED <<fan, firsts>>
             /\ p \in Replayers /\ at[p].pc = "reset"
             /\ at[p].d = d /\ AtWorkOn(p, d)
             /\ \A q \in Senders \ {p} : at'[q] = at[q]
             /\ \A d1 \in Deliveries \ {d} : row'[d1] = row[d1] /\ issued'[d1] = issued[d1]
             /\ \/ at'[p] = Idle /\ row'[d] = row[d] /\ issued'[d] = issued[d]
                \/ /\ row[d].status \in {"dead_lettered", "retrying"}
                   /\ row'[d].status = "pending"
                   /\ row'[d].attempts = row[d].attempts
                   /\ row'[d].claim = issued[d] + 1 /\ row'[d].live
                   /\ issued'[d] = issued[d] + 1
                   /\ at'[p].pc = "post" /\ at'[p].d = d
                   /\ at'[p].prior = 0 /\ at'[p].claim = issued[d] + 1
<1> USE DEF TypeInv, TypeOK
<1>1. PICK d \in Deliveries : at[p].d = d /\ AtWorkOn(p, d)
  BY DEF ResetForReplay, AtWorkOn, PlaceInv
<1>2. p \in Replayers /\ at[p].pc = "reset" /\ UNCHANGED <<fan, firsts>>
  BY DEF ResetForReplay, PlaceInv
<1>3. row[d] \in Delivery /\ at[p] \in AttemptTarget
  OBVIOUS
<1>4. CASE at' = [at EXCEPT ![p] = Idle] /\ UNCHANGED <<row, issued, sent>>
  BY <1>1, <1>2, <1>4
<1>5. CASE /\ row[d].status \in {"dead_lettered", "retrying"}
           /\ row' = [row EXCEPT ![d] = TakeClaim(d, [@ EXCEPT
                                          !.status = "pending", !.due = FALSE])]
           /\ issued' = [issued EXCEPT ![d] = @ + 1]
           /\ at' = [at EXCEPT ![p] = [@ EXCEPT !.pc = "post", !.prior = 0,
                                               !.claim = Token(d)]]
  <2>1. /\ row'[d].status = "pending" /\ row'[d].attempts = row[d].attempts
        /\ row'[d].claim = issued[d] + 1 /\ row'[d].live
        /\ \A d1 \in Deliveries \ {d} : row'[d1] = row[d1]
    BY <1>3, <1>5 DEF TakeClaim, Token, Delivery
  <2>2. /\ at'[p].pc = "post" /\ at'[p].d = d
        /\ at'[p].prior = 0 /\ at'[p].claim = issued[d] + 1
        /\ \A q \in Senders \ {p} : at'[q] = at[q]
    BY <1>1, <1>3, <1>5 DEF Token, AttemptTarget
  <2>3. /\ issued'[d] = issued[d] + 1
        /\ \A d1 \in Deliveries \ {d} : issued'[d1] = issued[d1]
    BY <1>5
  <2> QED
    BY <1>1, <1>2, <1>5, <2>1, <2>2, <2>3
<1> QED
  BY <1>1, <1>4, <1>5 DEF ResetForReplay

LEMMA TimeShape ==
    ASSUME TypeInv, Time
    PROVE  /\ UNCHANGED <<issued, fan, at, firsts>>
           /\ \A d \in Deliveries : /\ row'[d].status = row[d].status
                                    /\ row'[d].attempts = row[d].attempts
                                    /\ row'[d].claim = row[d].claim
                                    /\ row'[d].live => row[d].live
<1> SUFFICES ASSUME NEW d \in Deliveries, BackoffElapses(d) \/ LeaseLapses(d)
             PROVE  /\ UNCHANGED <<issued, fan, at, firsts>>
                    /\ \A d1 \in Deliveries : /\ row'[d1].status = row[d1].status
                                              /\ row'[d1].attempts = row[d1].attempts
                                              /\ row'[d1].claim = row[d1].claim
                                              /\ row'[d1].live => row[d1].live
  BY DEF Time
<1> QED
  BY DEF BackoffElapses, LeaseLapses, TypeInv, TypeOK, Delivery, ghosts

(* Every other step leaves rows, claims and processes alone. *)
LEMMA EnvShape ==
    ASSUME Admin \/ (\E e \in Events : PublishEvent(e) \/ MarkLapses(e)) \/ UNCHANGED vars
    PROVE  UNCHANGED <<row, issued, fan, at, firsts>>
BY DEF Admin, CreateSubscription, UpdateSubscription, ArchiveSubscription,
  ChangeSight, PublishEvent, MarkLapses, env, ghosts, vars

(* A first attempt stays with the consumer that created its row. *)
LEMMA FirstStep == IInv /\ [Next]_vars => FirstInv'
<1> SUFFICES ASSUME IInv, [Next]_vars PROVE FirstInv'
  OBVIOUS
<1> USE DEF IInv
<1>c. \A c \in Consumers : c \in Senders /\ c \notin Claimers
  BY ProcessAssumption DEF Senders, Claimers
<1>w. \A p \in Senders, d \in Deliveries : AtWorkOn(p, d) => row[d].status # "none"
  BY DEF FirstInv, First, Senders, Claimers
<1>1. ASSUME \A c \in Consumers, d \in Deliveries : Target(c, d)' => Target(c, d),
             \A c \in Consumers : fan'[c].targets \subseteq fan[c].targets,
             \A p \in Senders, d \in Deliveries : AtWorkOn(p, d)' => AtWorkOn(p, d),
             \A d \in Deliveries :
               /\ row[d].status # "none" => row'[d].status # "none"
               /\ \A c \in Consumers : First(c, d)' =>
                    row'[d].status = row[d].status /\ row'[d].claim = row[d].claim
      PROVE  FirstInv'
  <2>1. \A c \in Consumers, d \in Deliveries : First(c, d)' => First(c, d)
    BY <1>1, <1>c DEF First
  <2> QED
    BY <1>1, <1>c, <2>1 DEF FirstInv, Claimers, Senders
<1>2. ASSUME UNCHANGED <<row, fan, at>> PROVE FirstInv'
  BY <1>2 DEF FirstInv, First, Target, AtWorkOn
<1>3. ASSUME NEW c \in Consumers, CheckOwner(c) \/ CheckOwnerFails(c) PROVE FirstInv'
  <2>1. /\ UNCHANGED <<row, at>>
        /\ \A c1 \in Consumers : fan'[c1].targets = fan[c1].targets /\ fan'[c1].event = fan[c1].event
    BY <1>3, CheckKeepsTargets
  <2> QED
    BY <2>1 DEF FirstInv, First, Target, AtWorkOn
<1>4. ASSUME NEW c \in Consumers, Enqueue(c) PROVE FirstInv'
  <2>1. /\ UNCHANGED at
        /\ \A d \in Deliveries :
             \/ row'[d] = row[d]
             \/ /\ row[d].status = "none"
                /\ row'[d] \in {NewRow("pending"), NewRow("dead_lettered")}
        /\ \A d \in Deliveries :
             Target(c, d)' => row[d].status = "none" /\ row'[d] = NewRow("pending")
        /\ \A c1 \in Consumers \ {c} : fan'[c1] = fan[c1]
        /\ \A x, y \in fan'[c].targets : x[1] = y[1] => x = y
    BY <1>4, EnqueueShape
  <2>2. \A c1 \in Consumers \ {c}, d \in Deliveries : Target(c1, d)' => Target(c1, d)
    BY <2>1 DEF Target, Named
  <2>3. \A p \in Senders, d \in Deliveries : AtWorkOn(p, d)' <=> AtWorkOn(p, d)
    BY <2>1 DEF AtWorkOn
  <2>4. \A p \in Senders, d \in Deliveries : Target(c, d)' => ~AtWorkOn(p, d)
    BY <1>w, <2>1
  <2>5. \A c1 \in Consumers, d \in Deliveries :
          First(c1, d)' => (c1 = c /\ Target(c, d)') \/ First(c1, d)
    BY <1>c, <2>2, <2>3 DEF First
  <2>6. \A c1 \in Consumers, d \in Deliveries :
          First(c1, d)' => row'[d].status = "pending" /\ row'[d].claim = 0
    BY <2>1, <2>5 DEF FirstInv, NewRow
  <2>7. \A c1, c2 \in Consumers, d \in Deliveries :
          First(c1, d)' /\ First(c2, d)' => c1 = c2
    BY <2>1, <2>5 DEF FirstInv
  <2>8. \A c1 \in Consumers, d \in Deliveries : ~(Target(c1, d)' /\ AtWorkOn(c1, d)')
    BY <1>c, <2>2, <2>3, <2>4 DEF FirstInv
  <2>9. \A c1 \in Consumers : \A x, y \in fan'[c1].targets : x[1] = y[1] => x = y
    BY <2>1 DEF FirstInv
  <2>10. \A p \in Claimers, d \in Deliveries :
           AtWorkOn(p, d)' => /\ row'[d].status # "none"
                              /\ \A c1 \in Consumers : ~First(c1, d)'
    BY <1>w, <2>1, <2>3, <2>4, <2>5 DEF FirstInv, Claimers, Senders
  <2> QED
    BY <2>6, <2>7, <2>8, <2>9, <2>10 DEF FirstInv
<1>5. ASSUME NEW c \in Consumers, AttemptFirst(c) PROVE FirstInv'
  <2>1. PICK d0 \in Deliveries :
          /\ Target(c, d0) /\ ~Target(c, d0)'
          /\ UNCHANGED row
          /\ at'[c].d = d0
          /\ \A p \in Senders \ {c} : at'[p] = at[p]
          /\ \A c1 \in Consumers, d \in Deliveries : Target(c1, d)' => Target(c1, d)
          /\ \A c1 \in Consumers : fan'[c1].targets \subseteq fan[c1].targets
    BY <1>5, AttemptFirstShape
  <2>2. \A d \in Deliveries : AtWorkOn(c, d)' => d = d0
    BY <2>1 DEF AtWorkOn
  <2>3. \A p \in Senders \ {c}, d \in Deliveries : AtWorkOn(p, d)' => AtWorkOn(p, d)
    BY <2>1 DEF AtWorkOn
  <2>4. \A c1 \in Consumers, d \in Deliveries : First(c1, d)' => First(c1, d)
    BY <1>c, <2>1, <2>2, <2>3 DEF First
  <2>5. /\ \A c1 \in Consumers, d \in Deliveries :
              First(c1, d)' => row'[d].status = "pending" /\ row'[d].claim = 0
        /\ \A c1, c2 \in Consumers, d \in Deliveries :
              First(c1, d)' /\ First(c2, d)' => c1 = c2
    BY <2>1, <2>4 DEF FirstInv
  <2>6. \A c1 \in Consumers, d \in Deliveries : ~(Target(c1, d)' /\ AtWorkOn(c1, d)')
    BY <1>c, <2>1, <2>2, <2>3 DEF FirstInv
  <2>7. \A c1 \in Consumers : \A y, z \in fan'[c1].targets : y[1] = z[1] => y = z
    BY <2>1 DEF FirstInv
  <2>8. \A p \in Claimers, d \in Deliveries :
          AtWorkOn(p, d)' => /\ row'[d].status # "none"
                             /\ \A c1 \in Consumers : ~First(c1, d)'
    BY <1>c, <2>1, <2>3, <2>4 DEF FirstInv, Claimers, Senders
  <2> QED
    BY <2>5, <2>6, <2>7, <2>8 DEF FirstInv
<1>6. ASSUME NEW c \in Consumers,
             \/ \E e \in Events : HandleEvent(c, e)
             \/ Handled(c) \/ ConsumerDies(c)
      PROVE  FirstInv'
  <2>1. /\ UNCHANGED row /\ fan'[c].targets = {}
        /\ \A c1 \in Consumers \ {c} : fan'[c1] = fan[c1]
        /\ at'[c] \in {at[c], Idle}
        /\ \A p \in Senders \ {c} : at'[p] = at[p]
    BY <1>6, EmptyHandsShape
  <2>2. \A p \in Senders, d \in Deliveries : AtWorkOn(p, d)' => AtWorkOn(p, d)
    BY <2>1 DEF AtWorkOn, Idle, NewAttempt
  <2>3. \A c1 \in Consumers, d \in Deliveries : Target(c1, d)' => Target(c1, d)
    BY <2>1 DEF Target, Named
  <2> QED
    BY <1>1, <2>1, <2>2, <2>3
<1>7. ASSUME NEW p \in Claimers, NEW d \in Deliveries,
             row[d].status \notin {"none", "pending"}, row'[d].status = row[d].status,
             \A d1 \in Deliveries \ {d} : row'[d1] = row[d1],
             \A q \in Senders \ {p} : at'[q] = at[q],
             at'[p].d = d, UNCHANGED fan
      PROVE  FirstInv'
  <2>1. \A c \in Consumers : ~First(c, d)
    BY <1>7 DEF FirstInv
  <2>2. \A c \in Consumers, d1 \in Deliveries : Target(c, d1)' <=> Target(c, d1)
    BY <1>7 DEF Target
  <2>3. \A q \in Senders \ {p}, d1 \in Deliveries : AtWorkOn(q, d1)' <=> AtWorkOn(q, d1)
    BY <1>7 DEF AtWorkOn
  <2>4. \A d1 \in Deliveries : AtWorkOn(p, d1)' => d1 = d
    BY <1>7 DEF AtWorkOn
  <2>5. \A c \in Consumers, d1 \in Deliveries : First(c, d1)' <=> First(c, d1)
    BY <1>7, <1>c, <2>2, <2>3 DEF First
  <2> QED
    BY <1>7, <1>c, <2>1, <2>2, <2>3, <2>4, <2>5 DEF FirstInv, Claimers, Senders
<1>8. ASSUME NEW p \in Sweepers, NEW d \in Deliveries, ClaimDueRetry(p, d) PROVE FirstInv'
  <2>1. /\ UNCHANGED fan
        /\ row[d].status = "retrying" /\ row'[d].status = "retrying"
        /\ at'[p] = NewAttempt("load", d, issued[d] + 1, None)
        /\ \A q \in Senders \ {p} : at'[q] = at[q]
        /\ \A d1 \in Deliveries \ {d} : row'[d1] = row[d1]
    BY <1>8, ClaimShape
  <2> QED
    BY <1>7, <2>1 DEF Claimers, NewAttempt
<1>9. ASSUME NEW p \in Replayers, NEW d \in Deliveries, RequireReplay(p, d) PROVE FirstInv'
  <2>1. /\ UNCHANGED <<row, fan>>
        /\ row[d].status \notin {"none", "pending"}
        /\ at'[p] = NewAttempt("load", d, 0, None)
        /\ \A q \in Senders \ {p} : at'[q] = at[q]
    BY <1>9, RequireShape
  <2> QED
    BY <1>7, <2>1 DEF Claimers, NewAttempt
<1>10. ASSUME NEW p \in Senders,
              \/ LoadTarget(p) \/ StillOwner(p) \/ StillSees(p) \/ CheckFails(p)
              \/ Post(p) \/ FailUnsent(p) \/ Abandon(p)
       PROVE  FirstInv'
  <2>1. Moves(p)
    BY <1>10, MoveShape
  <2>2. \A q \in Senders, d \in Deliveries : AtWorkOn(q, d)' => AtWorkOn(q, d)
    BY <2>1 DEF Moves, AtWorkOn, Idle, NewAttempt
  <2> QED
    BY <1>1, <2>1, <2>2 DEF Moves, Target
<1>11. ASSUME NEW p \in Senders, MarkVisibilityRevoked(p) \/ RecordOutcome(p)
       PROVE  FirstInv'
  <2>1. PICK d \in Deliveries :
             /\ UNCHANGED fan
             /\ AtWorkOn(p, d) /\ at'[p] = Idle
             /\ \A q \in Senders \ {p} : at'[q] = at[q]
             /\ \A d1 \in Deliveries \ {d} : row'[d1] = row[d1]
             /\ \/ row'[d] = row[d]
                \/ row'[d].status = "visibility_revoked"
                \/ row'[d] = Outcome(at[p].res, at[p].prior + 1)
    BY <1>11, SettleShape
  <2>2. row[d].status # "none" => row'[d].status # "none"
    BY <2>1 DEF Outcome
  <2>3. \A q \in Senders, d1 \in Deliveries : AtWorkOn(q, d1)' => AtWorkOn(q, d1)
    BY <2>1 DEF AtWorkOn, Idle, NewAttempt
  <2>4. \A c \in Consumers : ~First(c, d)'
    <3>1. \A c \in Consumers : ~First(c, d) \/ c = p
      BY <1>c, <2>1 DEF FirstInv, First, Claimers, Senders
    <3>2. ~AtWorkOn(p, d)'
      BY <2>1 DEF AtWorkOn, Idle, NewAttempt
    <3>3. \A c \in Consumers : Target(c, d)' => Target(c, d)
      BY <2>1 DEF Target
    <3>4. p \in Consumers => ~Target(p, d)
      BY <2>1 DEF FirstInv
    <3> QED
      BY <1>c, <2>3, <3>1, <3>2, <3>3, <3>4 DEF First
  <2> QED
    BY <1>1, <2>1, <2>2, <2>3, <2>4 DEF Target
<1>12. ASSUME NEW p \in Senders, ResetForReplay(p) PROVE FirstInv'
  <2>1. PICK d \in Deliveries :
             /\ UNCHANGED fan
             /\ p \in Replayers /\ AtWorkOn(p, d)
             /\ \A q \in Senders \ {p} : at'[q] = at[q]
             /\ \A d1 \in Deliveries \ {d} : row'[d1] = row[d1]
             /\ \/ at'[p] = Idle /\ row'[d] = row[d]
                \/ row'[d].status = "pending" /\ at'[p].d = d
    BY <1>12, ResetShape
  <2>2. \A q \in Senders, d1 \in Deliveries : AtWorkOn(q, d1)' => AtWorkOn(q, d1)
    BY <2>1 DEF AtWorkOn, Idle, NewAttempt
  <2>3. \A c \in Consumers : ~First(c, d)
    BY <2>1 DEF FirstInv, Claimers
  <2>4. \A c \in Consumers : ~First(c, d)'
    BY <1>c, <2>1, <2>2, <2>3 DEF First, Target
  <2> QED
    BY <1>1, <2>1, <2>2, <2>4 DEF Target
<1>13. ASSUME Time PROVE FirstInv'
  <2>1. /\ UNCHANGED <<fan, at>>
        /\ \A d \in Deliveries : row'[d].status = row[d].status /\ row'[d].claim = row[d].claim
    BY <1>13, TimeShape
  <2>2. \A c \in Consumers, d \in Deliveries : Target(c, d)' => Target(c, d)
    BY <2>1 DEF Target
  <2>3. \A p \in Senders, d \in Deliveries : AtWorkOn(p, d)' => AtWorkOn(p, d)
    BY <2>1 DEF AtWorkOn
  <2> QED
    BY <1>1, <2>1, <2>2, <2>3
<1>14. ASSUME NEW c \in Consumers, FanOut(c) PROVE FirstInv'
  BY <1>3, <1>4, <1>5, <1>6, <1>14 DEF FanOut
<1>15. ASSUME NEW p \in Senders, Attempt(p) \/ CheckFails(p) \/ Abandon(p) PROVE FirstInv'
  BY <1>10, <1>11, <1>12, <1>15 DEF Attempt
<1> QED
  BY <1>2, <1>8, <1>9, <1>13, <1>14, <1>15, EnvShape DEF Next

(* What is counted as a first attempt was made from a target, once. *)
LEMMA FirstsStep == IInv /\ [Next]_vars => FirstsInv'
<1> SUFFICES ASSUME IInv, [Next]_vars PROVE FirstsInv'
  OBVIOUS
<1> USE DEF IInv
<1>c. \A c \in Consumers : c \in Senders /\ c \notin Claimers
  BY ProcessAssumption DEF Senders, Claimers
<1>1. ASSUME UNCHANGED firsts,
             \A d \in Deliveries : row'[d].status = "none" => row[d].status = "none",
             \A c \in Consumers, d \in Deliveries :
               /\ Target(c, d)' => Target(c, d) \/ row[d].status = "none"
               /\ AtWorkOn(c, d)' /\ at'[c].pc # "record"
                    => Target(c, d) \/ (AtWorkOn(c, d) /\ at[c].pc # "record")
      PROVE  FirstsInv'
  BY <1>1 DEF FirstsInv
<1>2. ASSUME UNCHANGED <<row, fan, at, firsts>> PROVE FirstsInv'
  BY <1>2 DEF FirstsInv, Target, AtWorkOn
<1>3. ASSUME NEW c \in Consumers, CheckOwner(c) \/ CheckOwnerFails(c) PROVE FirstsInv'
  <2>1. /\ UNCHANGED <<row, at, firsts>>
        /\ \A c1 \in Consumers : fan'[c1].targets = fan[c1].targets /\ fan'[c1].event = fan[c1].event
    BY <1>3, CheckKeepsTargets
  <2> QED
    BY <2>1 DEF FirstsInv, Target, AtWorkOn
<1>4. ASSUME NEW c \in Consumers, Enqueue(c) PROVE FirstsInv'
  <2>1. /\ UNCHANGED <<at, firsts>>
        /\ \A d \in Deliveries :
             \/ row'[d] = row[d]
             \/ /\ row[d].status = "none"
                /\ row'[d] \in {NewRow("pending"), NewRow("dead_lettered")}
        /\ \A d \in Deliveries :
             Target(c, d)' => row[d].status = "none" /\ row'[d] = NewRow("pending")
        /\ \A c1 \in Consumers \ {c} : fan'[c1] = fan[c1]
    BY <1>4, EnqueueShape
  <2>2. \A c1 \in Consumers, d \in Deliveries :
          Target(c1, d)' => Target(c1, d) \/ row[d].status = "none"
    BY <2>1 DEF Target, Named
  <2>3. \A c1 \in Consumers, d \in Deliveries : AtWorkOn(c1, d)' <=> AtWorkOn(c1, d)
    BY <2>1 DEF AtWorkOn
  <2> QED
    BY <1>1, <2>1, <2>2, <2>3 DEF NewRow
<1>5. ASSUME NEW c \in Consumers, AttemptFirst(c) PROVE FirstsInv'
  <2>1. PICK d0 \in Deliveries :
          /\ Target(c, d0)
          /\ UNCHANGED <<row, firsts>>
          /\ at'[c].d = d0
          /\ \A p \in Senders \ {c} : at'[p] = at[p]
          /\ \A c1 \in Consumers, d \in Deliveries : Target(c1, d)' => Target(c1, d)
    BY <1>5, AttemptFirstShape
  <2>2. \A c1 \in Consumers, d \in Deliveries :
          AtWorkOn(c1, d)' /\ at'[c1].pc # "record"
            => Target(c1, d) \/ (AtWorkOn(c1, d) /\ at[c1].pc # "record")
    BY <1>c, <2>1 DEF AtWorkOn
  <2> QED
    BY <1>1, <2>1, <2>2
<1>6. ASSUME NEW c \in Consumers,
             \/ \E e \in Events : HandleEvent(c, e)
             \/ Handled(c) \/ ConsumerDies(c)
      PROVE  FirstsInv'
  <2>1. /\ UNCHANGED <<row, firsts>> /\ fan'[c].targets = {}
        /\ \A c1 \in Consumers \ {c} : fan'[c1] = fan[c1]
        /\ at'[c] \in {at[c], Idle}
        /\ \A p \in Senders \ {c} : at'[p] = at[p]
    BY <1>6, EmptyHandsShape
  <2>2. \A c1 \in Consumers, d \in Deliveries :
          /\ Target(c1, d)' => Target(c1, d)
          /\ AtWorkOn(c1, d)' /\ at'[c1].pc # "record"
               => AtWorkOn(c1, d) /\ at[c1].pc # "record"
    BY <1>c, <2>1 DEF AtWorkOn, Idle, NewAttempt, Target, Named
  <2> QED
    BY <1>1, <2>1, <2>2
<1>7. ASSUME NEW p \in Claimers, UNCHANGED <<fan, firsts>>,
             \A q \in Senders \ {p} : at'[q] = at[q],
             \A d \in Deliveries : row'[d].status = "none" => row[d].status = "none"
      PROVE  FirstsInv'
  <2>1. \A c \in Consumers, d \in Deliveries :
          /\ Target(c, d)' => Target(c, d)
          /\ AtWorkOn(c, d)' /\ at'[c].pc # "record"
               => AtWorkOn(c, d) /\ at[c].pc # "record"
    BY <1>c, <1>7 DEF Target, AtWorkOn
  <2> QED
    BY <1>1, <1>7, <2>1
<1>8. ASSUME NEW p \in Sweepers, NEW d \in Deliveries, ClaimDueRetry(p, d) PROVE FirstsInv'
  <2>1. /\ UNCHANGED <<fan, firsts>>
        /\ row[d].status = "retrying" /\ row'[d].status = "retrying"
        /\ \A q \in Senders \ {p} : at'[q] = at[q]
        /\ \A d1 \in Deliveries \ {d} : row'[d1] = row[d1]
    BY <1>8, ClaimShape
  <2> QED
    BY <1>7, <2>1 DEF Claimers
<1>9. ASSUME NEW p \in Replayers, NEW d \in Deliveries, RequireReplay(p, d) PROVE FirstsInv'
  <2>1. /\ UNCHANGED <<row, fan, firsts>>
        /\ \A q \in Senders \ {p} : at'[q] = at[q]
    BY <1>9, RequireShape
  <2> QED
    BY <1>7, <2>1 DEF Claimers
<1>10. ASSUME NEW p \in Senders,
              \/ LoadTarget(p) \/ StillOwner(p) \/ StillSees(p) \/ CheckFails(p)
              \/ Post(p) \/ FailUnsent(p) \/ Abandon(p)
       PROVE  FirstsInv'
  <2>1. Moves(p)
    BY <1>10, MoveShape
  <2>2. \A c \in Consumers, d \in Deliveries :
          /\ Target(c, d)' => Target(c, d)
          /\ AtWorkOn(c, d)' /\ at'[c].pc # "record"
               => AtWorkOn(c, d) /\ at[c].pc # "record"
    BY <1>c, <2>1 DEF Moves, Target, AtWorkOn, Idle, NewAttempt
  <2>3. CASE UNCHANGED firsts
    BY <1>1, <2>1, <2>2, <2>3 DEF Moves
  <2>4. CASE Post(p) /\ p \in Consumers
    <3>1. PICK d \in Deliveries : at[p].d = d /\ AtWorkOn(p, d) /\ at[p].pc = "post"
      BY <2>4 DEF Post, AtWorkOn, TypeInv, PlaceInv
    <3>2. firsts[d] = 0 /\ row[d].status = "pending"
      BY <2>4, <3>1 DEF FirstsInv, FirstInv, First
    <3>3. /\ firsts'[d] = 1
          /\ \A d1 \in Deliveries \ {d} : firsts'[d1] = firsts[d1]
      BY <2>4, <3>1, <3>2 DEF Post, TypeInv, TypeOK
    <3>4. at'[p].pc = "record"
      BY <2>4 DEF Post, TypeInv, TypeOK
    <3>5. \A c \in Consumers : ~Target(c, d) /\ (AtWorkOn(c, d) => c = p)
      BY <2>4, <3>1 DEF FirstInv, First
    <3>6. \A d1 \in Deliveries :
            /\ firsts'[d1] <= 1
            /\ row'[d1].status = "none" => firsts'[d1] = 0
      BY <2>1, <3>2, <3>3 DEF Moves, FirstsInv
    <3>7. \A d1 \in Deliveries, c \in Consumers :
            /\ Target(c, d1)' => firsts'[d1] = 0
            /\ AtWorkOn(c, d1)' /\ at'[c].pc # "record" => firsts'[d1] = 0
      BY <2>2, <3>3, <3>4, <3>5 DEF FirstsInv
    <3> QED
      BY <3>6, <3>7 DEF FirstsInv
  <2>5. UNCHANGED firsts \/ (Post(p) /\ p \in Consumers)
    BY <1>10, Zenon DEF LoadTarget, StillOwner, StillSees, CheckFails, Post, FailUnsent,
      Abandon, ghosts
  <2> QED
    BY <2>3, <2>4, <2>5
<1>11. ASSUME NEW p \in Senders, MarkVisibilityRevoked(p) \/ RecordOutcome(p)
       PROVE  FirstsInv'
  <2>1. PICK d \in Deliveries :
             /\ UNCHANGED <<fan, firsts>>
             /\ at'[p] = Idle
             /\ \A q \in Senders \ {p} : at'[q] = at[q]
             /\ \A d1 \in Deliveries \ {d} : row'[d1] = row[d1]
             /\ \/ row'[d] = row[d]
                \/ row'[d].status = "visibility_revoked"
                \/ row'[d] = Outcome(at[p].res, at[p].prior + 1)
    BY <1>11, SettleShape
  <2>2. row'[d].status = "none" => row[d].status = "none"
    BY <2>1 DEF Outcome
  <2>3. \A c \in Consumers, d1 \in Deliveries :
          /\ Target(c, d1)' => Target(c, d1)
          /\ AtWorkOn(c, d1)' /\ at'[c].pc # "record"
               => AtWorkOn(c, d1) /\ at[c].pc # "record"
    BY <1>c, <2>1 DEF Target, AtWorkOn, Idle, NewAttempt
  <2> QED
    BY <1>1, <2>1, <2>2, <2>3
<1>12. ASSUME NEW p \in Senders, ResetForReplay(p) PROVE FirstsInv'
  <2>1. PICK d \in Deliveries :
             /\ UNCHANGED <<fan, firsts>>
             /\ p \in Replayers
             /\ \A q \in Senders \ {p} : at'[q] = at[q]
             /\ \A d1 \in Deliveries \ {d} : row'[d1] = row[d1]
             /\ row'[d] = row[d] \/ row'[d].status = "pending"
    BY <1>12, ResetShape
  <2> QED
    BY <1>7, <2>1 DEF Claimers
<1>13. ASSUME Time PROVE FirstsInv'
  <2>1. /\ UNCHANGED <<fan, at, firsts>>
        /\ \A d \in Deliveries : row'[d].status = row[d].status
    BY <1>13, TimeShape
  <2> QED
    BY <2>1 DEF FirstsInv, Target, AtWorkOn
<1>14. ASSUME NEW c \in Consumers, FanOut(c) PROVE FirstsInv'
  BY <1>3, <1>4, <1>5, <1>6, <1>14 DEF FanOut
<1>15. ASSUME NEW p \in Senders, Attempt(p) \/ CheckFails(p) \/ Abandon(p) PROVE FirstsInv'
  BY <1>10, <1>11, <1>12, <1>15 DEF Attempt
<1> QED
  BY <1>2, <1>8, <1>9, <1>13, <1>14, <1>15, EnvShape DEF Next

(* No token is given out twice. *)
LEMMA ClaimStep == IInv /\ [Next]_vars => ClaimInv'
<1> SUFFICES ASSUME IInv, [Next]_vars PROVE ClaimInv'
  OBVIOUS
<1> USE DEF IInv
<1>c. /\ \A c \in Consumers : c \in Senders /\ c \notin Claimers
      /\ \A p \in Sweepers : p \in Senders /\ p \notin Replayers
      /\ \A p \in Replayers : p \in Senders
  BY ProcessAssumption DEF Senders, Claimers
<1>t. /\ \A d \in Deliveries : row[d].claim \in Nat /\ issued[d] \in Nat
      /\ \A p \in Senders : at[p].claim \in Nat
  BY BoundsAssumption DEF TypeInv, TypeOK, Delivery, AttemptTarget
<1>1. ASSUME UNCHANGED issued,
             \A d \in Deliveries : row'[d].claim \in {0, row[d].claim},
             \A q \in Senders, d \in Deliveries :
               AtWorkOn(q, d)' =>
                 \/ at'[q].claim = 0
                 \/ AtWorkOn(q, d) /\ at'[q].claim = at[q].claim,
             \A c \in Consumers : at'[c].claim = 0 /\ at'[c].prior = 0,
             \A p \in Sweepers : at'[p].pc # "idle" => at'[p].claim # 0,
             \A p \in Replayers : at'[p].claim # 0 <=> at'[p].pc \in {"post", "record"}
      PROVE  ClaimInv'
  <2>1. \A d \in Deliveries : row'[d].claim <= issued'[d]
    BY <1>1, <1>t DEF ClaimInv
  <2>2. \A p \in Senders, d \in Deliveries : AtWorkOn(p, d)' => at'[p].claim <= issued'[d]
    BY <1>1, <1>t DEF ClaimInv
  <2>3. \A p, q \in Senders, d \in Deliveries :
          /\ AtWorkOn(p, d)' /\ AtWorkOn(q, d)'
          /\ at'[p].claim = at'[q].claim /\ at'[p].claim # 0
          => p = q
    BY <1>1 DEF ClaimInv
  <2> QED
    BY <1>1, <2>1, <2>2, <2>3 DEF ClaimInv
<1>2. ASSUME UNCHANGED <<row, issued, at>> PROVE ClaimInv'
  BY <1>2 DEF ClaimInv, AtWorkOn
<1>3. ASSUME NEW p \in Claimers, NEW d \in Deliveries,
             at'[p].d = d, at'[p].pc \in {"load", "post"},
             at'[p].claim = issued[d] + 1,
             p \in Replayers => at'[p].pc = "post",
             issued'[d] = issued[d] + 1, row'[d].claim = issued[d] + 1,
             \A d1 \in Deliveries \ {d} : row'[d1] = row[d1] /\ issued'[d1] = issued[d1],
             \A q \in Senders \ {p} : at'[q] = at[q]
      PROVE  ClaimInv'
  <2>1. \A q \in Senders \ {p}, d1 \in Deliveries : AtWorkOn(q, d1)' <=> AtWorkOn(q, d1)
    BY <1>3 DEF AtWorkOn
  <2>2. \A d1 \in Deliveries : AtWorkOn(p, d1)' => d1 = d
    BY <1>3 DEF AtWorkOn
  <2>3. issued[d] + 1 # 0 /\ \A k \in Nat : k <= issued[d] => k # issued[d] + 1 /\ k <= issued[d] + 1
    BY <1>t
  <2>4. \A d1 \in Deliveries : row'[d1].claim <= issued'[d1]
    BY <1>3, <1>t DEF ClaimInv
  <2>5. \A q \in Senders, d1 \in Deliveries : AtWorkOn(q, d1)' => at'[q].claim <= issued'[d1]
    <3>1. ASSUME NEW q \in Senders \ {p}, NEW d1 \in Deliveries, AtWorkOn(q, d1)'
          PROVE  at'[q].claim <= issued'[d1]
      BY <1>3, <1>t, <2>1, <2>3, <3>1 DEF ClaimInv
    <3>2. at'[p].claim <= issued'[d]
      BY <1>3, <1>t
    <3> QED
      BY <2>2, <3>1, <3>2
  <2>6. \A q, r \in Senders, d1 \in Deliveries :
          /\ AtWorkOn(q, d1)' /\ AtWorkOn(r, d1)'
          /\ at'[q].claim = at'[r].claim /\ at'[q].claim # 0
          => q = r
    <3>1. \A q \in Senders \ {p} : AtWorkOn(q, d)' => at'[q].claim # at'[p].claim
      BY <1>3, <1>t, <2>1, <2>3 DEF ClaimInv
    <3>2. \A q, r \in Senders \ {p}, d1 \in Deliveries :
            /\ AtWorkOn(q, d1)' /\ AtWorkOn(r, d1)'
            /\ at'[q].claim = at'[r].claim /\ at'[q].claim # 0
            => q = r
      BY <1>3, <2>1 DEF ClaimInv
    <3> QED
      BY <2>2, <3>1, <3>2
  <2>7. /\ \A c \in Consumers : at'[c].claim = 0 /\ at'[c].prior = 0
        /\ \A q \in Sweepers : at'[q].pc # "idle" => at'[q].claim # 0
        /\ \A q \in Replayers : at'[q].claim # 0 <=> at'[q].pc \in {"post", "record"}
    BY <1>3, <1>c, <2>3 DEF ClaimInv
  <2> QED
    BY <2>4, <2>5, <2>6, <2>7 DEF ClaimInv
<1>4. ASSUME NEW p \in Senders,
             UNCHANGED issued,
             \A d \in Deliveries : row'[d].claim \in {0, row[d].claim},
             at'[p] = Idle, \A q \in Senders \ {p} : at'[q] = at[q]
      PROVE  ClaimInv'
  <2>1. \A q \in Senders, d \in Deliveries :
          AtWorkOn(q, d)' => AtWorkOn(q, d) /\ at'[q].claim = at[q].claim
    BY <1>4 DEF AtWorkOn, Idle, NewAttempt
  <2> QED
    BY <1>1, <1>4, <1>c, <2>1 DEF ClaimInv, Idle, NewAttempt
<1>5. ASSUME NEW c \in Consumers, CheckOwner(c) \/ CheckOwnerFails(c) PROVE ClaimInv'
  BY <1>2, <1>5, CheckKeepsTargets
<1>6. ASSUME NEW c \in Consumers, Enqueue(c) PROVE ClaimInv'
  <2>1. /\ UNCHANGED <<at, issued>>
        /\ \A d \in Deliveries :
             \/ row'[d] = row[d]
             \/ row'[d] \in {NewRow("pending"), NewRow("dead_lettered")}
    BY <1>6, EnqueueShape
  <2>2. \A d \in Deliveries : row'[d].claim \in {0, row[d].claim}
    BY <2>1 DEF NewRow
  <2>3. \A q \in Senders, d \in Deliveries :
          AtWorkOn(q, d)' => AtWorkOn(q, d) /\ at'[q].claim = at[q].claim
    BY <2>1 DEF AtWorkOn
  <2> QED
    BY <1>1, <2>1, <2>2, <2>3 DEF ClaimInv
<1>7. ASSUME NEW c \in Consumers, AttemptFirst(c) PROVE ClaimInv'
  <2>1. /\ UNCHANGED <<row, issued>>
        /\ at'[c].claim = 0 /\ at'[c].prior = 0
        /\ \A p \in Senders \ {c} : at'[p] = at[p]
    BY <1>7, AttemptFirstShape
  <2>2. \A q \in Senders, d \in Deliveries :
          AtWorkOn(q, d)' =>
            \/ at'[q].claim = 0
            \/ AtWorkOn(q, d) /\ at'[q].claim = at[q].claim
    BY <2>1 DEF AtWorkOn
  <2>3. c \notin Sweepers /\ c \notin Replayers
    BY ProcessAssumption
  <2> QED
    BY <1>1, <1>c, <2>1, <2>2, <2>3 DEF ClaimInv
<1>8. ASSUME NEW c \in Consumers,
             \/ \E e \in Events : HandleEvent(c, e)
             \/ Handled(c) \/ ConsumerDies(c)
      PROVE  ClaimInv'
  <2>1. /\ UNCHANGED <<row, issued>>
        /\ at'[c] \in {at[c], Idle}
        /\ \A p \in Senders \ {c} : at'[p] = at[p]
    BY <1>8, EmptyHandsShape
  <2>2. CASE at'[c] = at[c]
    <3>1. \A q \in Senders : at'[q] = at[q]
      BY <2>1, <2>2
    <3> QED
      BY <1>c, <2>1, <3>1 DEF ClaimInv, AtWorkOn
  <2>3. CASE at'[c] = Idle
    BY <1>4, <1>c, <2>1, <2>3
  <2> QED
    BY <2>1, <2>2, <2>3
<1>9. ASSUME NEW p \in Sweepers, NEW d \in Deliveries, ClaimDueRetry(p, d) PROVE ClaimInv'
  <2>1. /\ at'[p] = NewAttempt("load", d, issued[d] + 1, None)
        /\ \A q \in Senders \ {p} : at'[q] = at[q]
        /\ row'[d].claim = issued[d] + 1 /\ issued'[d] = issued[d] + 1
        /\ \A d1 \in Deliveries \ {d} : row'[d1] = row[d1] /\ issued'[d1] = issued[d1]
    BY <1>9, ClaimShape
  <2> QED
    BY <1>3, <1>c, <2>1 DEF Claimers, NewAttempt
<1>10. ASSUME NEW p \in Replayers, NEW d \in Deliveries, RequireReplay(p, d) PROVE ClaimInv'
  <2>1. /\ UNCHANGED <<row, issued>>
        /\ at'[p] = NewAttempt("load", d, 0, None)
        /\ \A q \in Senders \ {p} : at'[q] = at[q]
    BY <1>10, RequireShape
  <2>2. \A q \in Senders, d1 \in Deliveries :
          AtWorkOn(q, d1)' =>
            \/ at'[q].claim = 0
            \/ AtWorkOn(q, d1) /\ at'[q].claim = at[q].claim
    BY <2>1 DEF AtWorkOn, NewAttempt
  <2>3. p \notin Consumers /\ p \notin Sweepers
    BY ProcessAssumption
  <2> QED
    BY <1>1, <1>c, <2>1, <2>2, <2>3 DEF ClaimInv, NewAttempt
<1>11. ASSUME NEW p \in Senders,
              \/ LoadTarget(p) \/ StillOwner(p) \/ StillSees(p) \/ CheckFails(p)
              \/ Post(p) \/ FailUnsent(p) \/ Abandon(p)
       PROVE  ClaimInv'
  <2>1. Moves(p)
    BY <1>11, MoveShape
  <2>2. CASE at'[p] = Idle
    BY <1>4, <2>1, <2>2 DEF Moves
  <2>3. CASE at'[p] # Idle
    <3>1. \A q \in Senders, d \in Deliveries :
            AtWorkOn(q, d)' => AtWorkOn(q, d) /\ at'[q].claim = at[q].claim
      BY <2>1, <2>3 DEF Moves, AtWorkOn
    <3>2. p \in Consumers => at[p].pc # "load"
      BY DEF TypeInv, PlaceInv
    <3>3. \A c \in Consumers : at'[c].claim = 0 /\ at'[c].prior = 0
      BY <1>c, <2>1, <2>3, <3>2 DEF Moves, ClaimInv
    <3>4. \A q \in Sweepers : at'[q].pc # "idle" => at'[q].claim # 0
      BY <1>c, <2>1, <2>3 DEF Moves, ClaimInv
    <3>5. \A q \in Replayers : at'[q].claim # 0 <=> at'[q].pc \in {"post", "record"}
      BY <1>c, <2>1, <2>3 DEF Moves, ClaimInv
    <3>6. UNCHANGED issued /\ \A d \in Deliveries : row'[d].claim \in {0, row[d].claim}
      BY <2>1 DEF Moves
    <3> QED
      BY <1>1, <3>1, <3>3, <3>4, <3>5, <3>6
  <2> QED
    BY <2>2, <2>3
<1>12. ASSUME NEW p \in Senders, MarkVisibilityRevoked(p) \/ RecordOutcome(p)
       PROVE  ClaimInv'
  <2>1. PICK d \in Deliveries :
             /\ UNCHANGED issued
             /\ at'[p] = Idle
             /\ \A q \in Senders \ {p} : at'[q] = at[q]
             /\ \A d1 \in Deliveries \ {d} : row'[d1] = row[d1]
             /\ \/ row'[d] = row[d]
                \/ row'[d].claim = 0
                \/ row'[d] = Outcome(at[p].res, at[p].prior + 1)
    BY <1>12, SettleShape
  <2>2. \A d1 \in Deliveries : row'[d1].claim \in {0, row[d1].claim}
    BY <2>1 DEF Outcome
  <2> QED
    BY <1>4, <2>1, <2>2
<1>13. ASSUME NEW p \in Senders, ResetForReplay(p) PROVE ClaimInv'
  <2>1. PICK d \in Deliveries :
             /\ p \in Replayers
             /\ \A q \in Senders \ {p} : at'[q] = at[q]
             /\ \A d1 \in Deliveries \ {d} : row'[d1] = row[d1] /\ issued'[d1] = issued[d1]
             /\ \/ at'[p] = Idle /\ row'[d] = row[d] /\ issued'[d] = issued[d]
                \/ /\ row'[d].claim = issued[d] + 1 /\ issued'[d] = issued[d] + 1
                   /\ at'[p].pc = "post" /\ at'[p].d = d
                   /\ at'[p].claim = issued[d] + 1
    BY <1>13, ResetShape
  <2>2. CASE at'[p] = Idle /\ row'[d] = row[d] /\ issued'[d] = issued[d]
    <3>1. UNCHANGED issued
      BY <1>13, <2>1, <2>2, TypeStep DEF TypeInv, TypeOK
    <3> QED
      BY <1>4, <2>1, <2>2, <3>1
  <2>3. CASE /\ row'[d].claim = issued[d] + 1 /\ issued'[d] = issued[d] + 1
             /\ at'[p].pc = "post" /\ at'[p].d = d
             /\ at'[p].claim = issued[d] + 1
    BY <1>3, <2>1, <2>3 DEF Claimers
  <2> QED
    BY <2>1, <2>2, <2>3
<1>14. ASSUME Time PROVE ClaimInv'
  <2>1. /\ UNCHANGED <<issued, at>>
        /\ \A d \in Deliveries : row'[d].claim = row[d].claim
    BY <1>14, TimeShape
  <2> QED
    BY <2>1 DEF ClaimInv, AtWorkOn
<1>15. ASSUME NEW c \in Consumers, FanOut(c) PROVE ClaimInv'
  BY <1>5, <1>6, <1>7, <1>8, <1>15 DEF FanOut
<1>16. ASSUME NEW p \in Senders, Attempt(p) \/ CheckFails(p) \/ Abandon(p) PROVE ClaimInv'
  BY <1>11, <1>12, <1>13, <1>16 DEF Attempt
<1> QED
  BY <1>2, <1>9, <1>10, <1>14, <1>15, <1>16, EnvShape DEF Next

(* The sender that holds a row has counted right: the outcome it records is *)
(* within the budget.                                                       *)
LEMMA OutcomeInBudget ==
    ASSUME IInv, NEW p \in Senders, NEW d \in Deliveries,
           AtWorkOn(p, d), at[p].pc = "record", row[d].claim = at[p].claim
    PROVE  /\ at[p].prior + 1 \in 1 .. MaxAttempts
           /\ row[d].status \in {"pending", "retrying"}
           /\ row[d].status = "retrying" => at[p].prior = row[d].attempts
           /\ row[d].status = "pending" => at[p].prior = 0
<1> USE AttemptsAssumption DEF IInv
<1>1. CASE p \in Consumers
  BY <1>1 DEF ClaimInv, FirstInv, First
<1>2. CASE p \in Sweepers
  <2>1. row[d].status = "retrying" /\ at[p].prior = row[d].attempts
    BY <1>2 DEF CountInv
  <2>2. row[d].attempts \in 1 .. MaxAttempts - 1
    BY <2>1 DEF CountInv, CountsInBudget
  <2> QED
    BY <2>1, <2>2
<1>3. CASE p \in Replayers
  BY <1>3 DEF ClaimInv, CountInv
<1> QED
  BY <1>1, <1>2, <1>3 DEF Senders

LEMMA OutcomeShape ==
    ASSUME NEW res, NEW used \in 1 .. MaxAttempts
    PROVE  /\ Outcome(res, used).status \in {"delivered", "dead_lettered", "retrying"}
           /\ Outcome(res, used).attempts = used
           /\ Outcome(res, used).status = "retrying" => used \in 1 .. MaxAttempts - 1
           /\ Outcome(res, used).status = "dead_lettered" => used = MaxAttempts
           /\ Outcome(res, used).claim = 0 /\ ~Outcome(res, used).live
BY AttemptsAssumption DEF Outcome

(* Rows and the senders they wait for agree on the attempts made so far. *)
LEMMA CountStep == IInv /\ [Next]_vars => CountInv'
<1> SUFFICES ASSUME IInv, [Next]_vars PROVE CountInv'
  OBVIOUS
<1> USE DEF IInv
<1>c. /\ \A p \in Sweepers : p \in Senders /\ p \notin Consumers /\ p \notin Replayers
      /\ \A p \in Replayers : p \in Senders /\ p \notin Consumers /\ p \notin Sweepers
  BY ProcessAssumption DEF Senders
<1>t. /\ \A d \in Deliveries : row[d] \in Delivery /\ issued[d] \in Nat
      /\ \A p \in Senders : at[p] \in AttemptTarget /\ at[p].claim \in Nat
  BY BoundsAssumption DEF TypeInv, TypeOK, AttemptTarget
\* Rows only lose their lease; no sweep or replay takes anything up.
<1>1. ASSUME \A d \in Deliveries :
               /\ row'[d].status = row[d].status
               /\ row'[d].attempts = row[d].attempts
               /\ row'[d].claim = row[d].claim
               /\ row'[d].live => row[d].live,
             \A p \in Claimers : at'[p] = at[p]
      PROVE  CountInv'
  <2>1. RestingUnclaimed'
    BY <1>1 DEF CountInv, RestingUnclaimed
  <2>2. CountsInBudget'
    BY <1>1 DEF CountInv, CountsInBudget
  <2>3. \A d \in Deliveries : row'[d].claim = 0 => ~row'[d].live
    BY <1>1 DEF CountInv
  <2>4. /\ \A p \in Sweepers, d \in Deliveries :
             AtWorkOn(p, d)' /\ at'[p].claim = row'[d].claim
               => /\ row'[d].status = "retrying"
                  /\ at'[p].pc # "load" => at'[p].prior = row'[d].attempts
        /\ \A p \in Replayers, d \in Deliveries :
             AtWorkOn(p, d)' /\ at'[p].claim # 0
               => /\ at'[p].prior = 0
                  /\ at'[p].claim = row'[d].claim => row'[d].status = "pending"
    BY <1>1 DEF CountInv, AtWorkOn, Claimers
  <2> QED
    BY <2>1, <2>2, <2>3, <2>4 DEF CountInv
\* A row takes a claim no sender holds, or loses its claim.
<1>2. ASSUME NEW p \in Senders, NEW d \in Deliveries,
             \A q \in Senders \ {p} : at'[q] = at[q],
             \A d1 \in Deliveries \ {d} : row'[d1] = row[d1],
             \/ row'[d].claim = 0 /\ ~row'[d].live
             \/ row'[d].status \in {"pending", "retrying"} /\ row'[d].claim = issued[d] + 1,
             row'[d].attempts \in 0 .. MaxAttempts,
             row'[d].status = "retrying" => row'[d].attempts \in 1 .. MaxAttempts - 1,
             row'[d].status = "dead_lettered" => row'[d].attempts \in {0, MaxAttempts},
             \/ at'[p] = Idle
             \/ /\ p \in Sweepers
                /\ at'[p].d = d /\ row'[d].status = "retrying" /\ at'[p].pc = "load"
             \/ /\ p \in Replayers
                /\ at'[p].d = d /\ row'[d].status = "pending" /\ at'[p].prior = 0
      PROVE  CountInv'
  <2>1. RestingUnclaimed'
    BY <1>2 DEF CountInv, RestingUnclaimed
  <2>2. CountsInBudget'
    BY <1>2, AttemptsAssumption DEF CountInv, CountsInBudget
  <2>3. \A d1 \in Deliveries : row'[d1].claim = 0 => ~row'[d1].live
    BY <1>2, <1>t DEF CountInv
  <2>4. \A q \in Senders \ {p}, d1 \in Deliveries : AtWorkOn(q, d1)' => AtWorkOn(q, d1)
    BY <1>2 DEF AtWorkOn
  <2>5. \A q \in Senders \ {p} :
          AtWorkOn(q, d)' /\ at'[q].claim = row'[d].claim => at'[q].claim = 0
    <3>1. issued[d] \in Nat /\ \A k \in Nat : k <= issued[d] => k # issued[d] + 1
      BY <1>t
    <3> QED
      BY <1>2, <1>t, <2>4, <3>1 DEF ClaimInv
  <2>6. \A d1 \in Deliveries : AtWorkOn(p, d1)' => d1 = d
    BY <1>2 DEF AtWorkOn, Idle, NewAttempt
  <2>7. \A q \in Sweepers \ {p}, d1 \in Deliveries :
             AtWorkOn(q, d1)' /\ at'[q].claim = row'[d1].claim
               => /\ row'[d1].status = "retrying"
                  /\ at'[q].pc # "load" => at'[q].prior = row'[d1].attempts
    <3>1. \A q \in Sweepers \ {p}, d1 \in Deliveries : AtWorkOn(q, d1) => at[q].claim # 0
      BY DEF ClaimInv, AtWorkOn
    <3> QED
      BY <1>2, <1>c, <2>4, <2>5, <3>1 DEF CountInv
  <2>8. p \in Sweepers => \A d1 \in Deliveries :
             AtWorkOn(p, d1)' /\ at'[p].claim = row'[d1].claim
               => /\ row'[d1].status = "retrying"
                  /\ at'[p].pc # "load" => at'[p].prior = row'[d1].attempts
    BY <1>2, <1>c, <2>6 DEF AtWorkOn, Idle, NewAttempt
  <2>9. \A q \in Replayers \ {p}, d1 \in Deliveries :
             AtWorkOn(q, d1)' /\ at'[q].claim # 0
               => /\ at'[q].prior = 0
                  /\ at'[q].claim = row'[d1].claim => row'[d1].status = "pending"
    BY <1>2, <1>c, <2>4, <2>5 DEF CountInv
  <2>10. p \in Replayers => \A d1 \in Deliveries :
             AtWorkOn(p, d1)' /\ at'[p].claim # 0
               => /\ at'[p].prior = 0
                  /\ at'[p].claim = row'[d1].claim => row'[d1].status = "pending"
    BY <1>2, <1>c, <2>6 DEF AtWorkOn, Idle, NewAttempt
  <2> QED
    BY <2>1, <2>2, <2>3, <2>7, <2>8, <2>9, <2>10 DEF CountInv
<1>3. ASSUME UNCHANGED <<row, at>> PROVE CountInv'
  BY <1>1, <1>3
<1>4. ASSUME NEW c \in Consumers,
             UNCHANGED row, \A p \in Senders \ {c} : at'[p] = at[p]
      PROVE  CountInv'
  BY <1>1, <1>4, <1>c DEF Claimers
<1>5. ASSUME NEW c \in Consumers, FanOut(c), ~Enqueue(c) PROVE CountInv'
  <2>1. UNCHANGED row /\ \A p \in Senders \ {c} : at'[p] = at[p]
    BY <1>5, CheckKeepsTargets, AttemptFirstShape, EmptyHandsShape DEF FanOut
  <2> QED
    BY <1>4, <2>1
<1>6. ASSUME NEW c \in Consumers, Enqueue(c) PROVE CountInv'
  <2>1. /\ UNCHANGED at
        /\ \A d \in Deliveries :
             \/ row'[d] = row[d]
             \/ /\ row[d].status = "none"
                /\ row'[d] \in {NewRow("pending"), NewRow("dead_lettered")}
    BY <1>6, EnqueueShape
  <2>2. \A p \in Senders, d \in Deliveries : AtWorkOn(p, d)' => row'[d] = row[d]
    BY <2>1 DEF AtWorkOn, FirstInv, First, Claimers, Senders
  <2>3. RestingUnclaimed'
    BY <2>1 DEF CountInv, RestingUnclaimed, NewRow
  <2>4. CountsInBudget'
    BY <2>1, AttemptsAssumption DEF CountInv, CountsInBudget, NewRow
  <2>5. \A d \in Deliveries : row'[d].claim = 0 => ~row'[d].live
    BY <2>1 DEF CountInv, NewRow
  <2>6. /\ \A p \in Sweepers, d \in Deliveries :
             AtWorkOn(p, d)' /\ at'[p].claim = row'[d].claim
               => /\ row'[d].status = "retrying"
                  /\ at'[p].pc # "load" => at'[p].prior = row'[d].attempts
        /\ \A p \in Replayers, d \in Deliveries :
             AtWorkOn(p, d)' /\ at'[p].claim # 0
               => /\ at'[p].prior = 0
                  /\ at'[p].claim = row'[d].claim => row'[d].status = "pending"
    BY <1>c, <2>1, <2>2 DEF CountInv, AtWorkOn
  <2> QED
    BY <2>3, <2>4, <2>5, <2>6 DEF CountInv
<1>7. ASSUME NEW p \in Sweepers, NEW d \in Deliveries, ClaimDueRetry(p, d) PROVE CountInv'
  <2>1. /\ at'[p] = NewAttempt("load", d, issued[d] + 1, None)
        /\ \A q \in Senders \ {p} : at'[q] = at[q]
        /\ row[d].status = "retrying" /\ row'[d].status = "retrying"
        /\ row'[d].attempts = row[d].attempts
        /\ row'[d].claim = issued[d] + 1
        /\ \A d1 \in Deliveries \ {d} : row'[d1] = row[d1]
    BY <1>7, ClaimShape
  <2>2. row'[d].attempts \in 1 .. MaxAttempts - 1 /\ row'[d].attempts \in 0 .. MaxAttempts
    BY <2>1, AttemptsAssumption DEF CountInv, CountsInBudget
  <2> QED
    BY <1>2, <1>c, <2>1, <2>2 DEF NewAttempt
<1>8. ASSUME NEW p \in Replayers, NEW d \in Deliveries, RequireReplay(p, d) PROVE CountInv'
  <2>1. /\ UNCHANGED row
        /\ at'[p] = NewAttempt("load", d, 0, None)
        /\ \A q \in Senders \ {p} : at'[q] = at[q]
    BY <1>8, RequireShape
  <2>2. \A q \in Sweepers, d1 \in Deliveries :
          AtWorkOn(q, d1)' => AtWorkOn(q, d1) /\ at'[q] = at[q]
    BY <1>c, <2>1 DEF AtWorkOn
  <2>3. \A q \in Replayers, d1 \in Deliveries :
          AtWorkOn(q, d1)' /\ at'[q].claim # 0 => AtWorkOn(q, d1) /\ at'[q] = at[q]
    BY <1>c, <2>1 DEF AtWorkOn, NewAttempt
  <2> QED
    BY <2>1, <2>2, <2>3 DEF CountInv, RestingUnclaimed, CountsInBudget
<1>9. ASSUME NEW p \in Senders,
             \/ LoadTarget(p) \/ StillOwner(p) \/ StillSees(p) \/ CheckFails(p)
             \/ Post(p) \/ FailUnsent(p) \/ Abandon(p)
      PROVE  CountInv'
  <2>1. Moves(p)
    BY <1>9, MoveShape
  <2>2. RestingUnclaimed' /\ CountsInBudget'
        /\ \A d \in Deliveries : row'[d].claim = 0 => ~row'[d].live
    BY <2>1 DEF Moves, CountInv, RestingUnclaimed, CountsInBudget
  <2>3. ASSUME NEW q \in Sweepers, NEW d \in Deliveries,
               AtWorkOn(q, d)', at'[q].claim = row'[d].claim
        PROVE  /\ row'[d].status = "retrying"
               /\ at'[q].pc # "load" => at'[q].prior = row'[d].attempts
    <3>1. row' = row
      BY <2>1 DEF Moves
    <3>2. CASE q # p
      BY <1>c, <2>1, <2>3, <3>1, <3>2 DEF Moves, AtWorkOn, CountInv
    <3>3. CASE q = p
      <4>1. /\ at'[p].d = at[p].d /\ at'[p].claim = at[p].claim
            /\ at[p].pc # "load" => at'[p].prior = at[p].prior
            /\ at[p].pc = "load" => at'[p].prior = row[at[p].d].attempts
        BY <2>1, <2>3, <3>3 DEF Moves, AtWorkOn, Idle, NewAttempt
      <4>2. AtWorkOn(p, d) /\ at[p].claim = row[d].claim /\ at[p].d = d
        BY <2>1, <2>3, <3>1, <3>3, <4>1 DEF Moves, AtWorkOn
      <4> QED
        BY <3>1, <3>3, <4>1, <4>2 DEF CountInv
    <3> QED
      BY <3>2, <3>3
  <2>4. ASSUME NEW q \in Replayers, NEW d \in Deliveries,
               AtWorkOn(q, d)', at'[q].claim # 0
        PROVE  /\ at'[q].prior = 0
               /\ at'[q].claim = row'[d].claim => row'[d].status = "pending"
    <3>1. row' = row
      BY <2>1 DEF Moves
    <3>2. CASE q # p
      BY <1>c, <2>1, <2>4, <3>1, <3>2 DEF Moves, AtWorkOn, CountInv
    <3>3. CASE q = p
      <4>1. /\ at'[p].d = at[p].d /\ at'[p].claim = at[p].claim
            /\ at[p].pc # "load" => at'[p].prior = at[p].prior
        BY <2>1, <2>4, <3>3 DEF Moves, AtWorkOn, Idle, NewAttempt
      <4>2. AtWorkOn(p, d) /\ at[p].claim # 0 /\ at[p].d = d
        BY <2>1, <2>4, <3>3, <4>1 DEF Moves, AtWorkOn
      <4>3. at[p].pc # "load"
        BY <3>3, <4>2 DEF ClaimInv
      <4> QED
        BY <3>1, <3>3, <4>1, <4>2, <4>3 DEF CountInv
    <3> QED
      BY <3>2, <3>3
  <2> QED
    BY <2>2, <2>3, <2>4 DEF CountInv
<1>10. ASSUME NEW p \in Senders, MarkVisibilityRevoked(p) \/ RecordOutcome(p)
       PROVE  CountInv'
  <2>1. PICK d \in Deliveries :
             /\ AtWorkOn(p, d)
             /\ at'[p] = Idle
             /\ \A q \in Senders \ {p} : at'[q] = at[q]
             /\ \A d1 \in Deliveries \ {d} : row'[d1] = row[d1]
             /\ \/ row'[d] = row[d]
                \/ /\ row'[d].status = "visibility_revoked"
                   /\ row'[d].attempts = row[d].attempts
                   /\ row'[d].claim = 0 /\ ~row'[d].live
                \/ /\ at[p].pc = "record"
                   /\ row[d].claim = at[p].claim
                   /\ row'[d] = Outcome(at[p].res, at[p].prior + 1)
    BY <1>10, SettleShape
  <2>2. row[d].attempts \in 0 .. MaxAttempts
    BY <1>t, AttemptsAssumption DEF CountInv, CountsInBudget, Delivery
  <2>3. CASE row'[d] = row[d]
    <3>1. \A d1 \in Deliveries : row'[d1] = row[d1]
      BY <2>1, <2>3
    <3>2. \A q \in Senders, d1 \in Deliveries :
            AtWorkOn(q, d1)' => AtWorkOn(q, d1) /\ at'[q] = at[q]
      BY <2>1 DEF AtWorkOn, Idle, NewAttempt
    <3> QED
      BY <1>c, <3>1, <3>2 DEF CountInv, RestingUnclaimed, CountsInBudget
  <2>s. ASSUME row'[d].claim = 0 /\ ~row'[d].live,
               row'[d].attempts \in 0 .. MaxAttempts,
               row'[d].status = "retrying" => row'[d].attempts \in 1 .. MaxAttempts - 1,
               row'[d].status = "dead_lettered" => row'[d].attempts \in {0, MaxAttempts}
        PROVE  CountInv'
    BY <1>2, <2>1, <2>s
  <2>4. CASE /\ row'[d].status = "visibility_revoked"
             /\ row'[d].attempts = row[d].attempts
             /\ row'[d].claim = 0 /\ ~row'[d].live
    BY <2>2, <2>4, <2>s
  <2>5. CASE /\ at[p].pc = "record"
             /\ row[d].claim = at[p].claim
             /\ row'[d] = Outcome(at[p].res, at[p].prior + 1)
    <3>1. at[p].prior + 1 \in 1 .. MaxAttempts
      BY <2>1, <2>5, OutcomeInBudget
    <3>2. /\ row'[d].status \in {"delivered", "dead_lettered", "retrying"}
          /\ row'[d].attempts = at[p].prior + 1
          /\ row'[d].status = "retrying" => at[p].prior + 1 \in 1 .. MaxAttempts - 1
          /\ row'[d].status = "dead_lettered" => at[p].prior + 1 = MaxAttempts
          /\ row'[d].claim = 0 /\ ~row'[d].live
      BY <2>5, <3>1, OutcomeShape
    <3>3. at[p].prior + 1 \in 0 .. MaxAttempts
      BY <3>1
    <3> QED
      BY <2>s, <3>2, <3>3
  <2> QED
    BY <2>1, <2>3, <2>4, <2>5
<1>11. ASSUME NEW p \in Senders, ResetForReplay(p) PROVE CountInv'
  <2>1. PICK d \in Deliveries :
             /\ p \in Replayers
             /\ \A q \in Senders \ {p} : at'[q] = at[q]
             /\ \A d1 \in Deliveries \ {d} : row'[d1] = row[d1]
             /\ \/ at'[p] = Idle /\ row'[d] = row[d]
                \/ /\ row'[d].status = "pending"
                   /\ row'[d].attempts = row[d].attempts
                   /\ row'[d].claim = issued[d] + 1
                   /\ at'[p].d = d /\ at'[p].prior = 0
    BY <1>11, ResetShape
  <2>2. row[d].attempts \in 0 .. MaxAttempts
    BY <1>t, AttemptsAssumption DEF CountInv, CountsInBudget, Delivery
  <2>3. CASE at'[p] = Idle /\ row'[d] = row[d]
    <3>1. \A d1 \in Deliveries : row'[d1] = row[d1]
      BY <2>1, <2>3
    <3>2. \A q \in Senders, d1 \in Deliveries :
            AtWorkOn(q, d1)' => AtWorkOn(q, d1) /\ at'[q] = at[q]
      BY <2>1, <2>3 DEF AtWorkOn, Idle, NewAttempt
    <3> QED
      BY <1>c, <3>1, <3>2 DEF CountInv, RestingUnclaimed, CountsInBudget
  <2>4. CASE /\ row'[d].status = "pending"
             /\ row'[d].attempts = row[d].attempts
             /\ row'[d].claim = issued[d] + 1
             /\ at'[p].d = d /\ at'[p].prior = 0
    BY <1>2, <2>1, <2>2, <2>4
  <2> QED
    BY <2>1, <2>3, <2>4
<1>12. ASSUME Time PROVE CountInv'
  <2>1. /\ UNCHANGED at
        /\ \A d \in Deliveries : /\ row'[d].status = row[d].status
                                 /\ row'[d].attempts = row[d].attempts
                                 /\ row'[d].claim = row[d].claim
                                 /\ row'[d].live => row[d].live
    BY <1>12, TimeShape
  <2> QED
    BY <1>1, <2>1
<1>13. ASSUME NEW c \in Consumers, FanOut(c) PROVE CountInv'
  BY <1>5, <1>6, <1>13
<1>14. ASSUME NEW p \in Senders, Attempt(p) \/ CheckFails(p) \/ Abandon(p) PROVE CountInv'
  BY <1>9, <1>10, <1>11, <1>14 DEF Attempt
<1> QED
  BY <1>3, <1>7, <1>8, <1>12, <1>13, <1>14, EnvShape DEF Next

LEMMA IInvStep == IInv /\ [Next]_vars => IInv'
<1> SUFFICES ASSUME IInv, [Next]_vars PROVE IInv'
  OBVIOUS
<1>1. TypeInv'
  BY TypeStep DEF IInv
<1> QED
  BY <1>1, FirstStep, FirstsStep, ClaimStep, CountStep DEF IInv

LEMMA Inductive == Spec => []IInv
BY InitIInv, IInvStep, PTL DEF Spec

----------------------------------------------------------------------------
(* The safety invariants, for every number of processes and rows.          *)

\* Senders that may POST the same delivery never share a claim, so the fence of
\* recordOutcome lets one of them write (claimDueRetry, resetForReplay).
THEOREM ClaimsFence == Spec => []OneSenderPerClaim
<1>1. IInv => OneSenderPerClaim
  <2> SUFFICES ASSUME IInv, NEW d \in Deliveries, NEW p \in Senders, NEW q \in Senders,
                      Sending(p, d), Sending(q, d), at[p].claim = at[q].claim
               PROVE  p = q
    BY DEF OneSenderPerClaim
  <2> USE DEF IInv
  <2>1. AtWorkOn(p, d) /\ AtWorkOn(q, d)
    BY DEF Sending, AtWorkOn
  <2>2. CASE at[p].claim # 0
    BY <2>1, <2>2 DEF ClaimInv
  <2>3. CASE at[p].claim = 0
    <3>1. p \in Consumers /\ q \in Consumers
      BY <2>3 DEF ClaimInv, Sending, Senders
    <3> QED
      BY <2>1, <3>1 DEF FirstInv, First
  <2> QED
    BY <2>2, <2>3
<1> QED
  BY <1>1, Inductive, PTL

\* However often the bus hands an event to HandleEvent, and to how many consumers
\* at once, the first attempt of a delivery is POSTed at most once.
THEOREM FirstsOnce == Spec => []FirstAttemptOnce
<1>1. IInv => FirstAttemptOnce
  BY DEF IInv, FirstsInv, FirstAttemptOnce
<1> QED
  BY <1>1, Inductive, PTL

\* No row at rest carries a claim: every way into rest (recordOutcome,
\* markVisibilityRevoked, the insert) clears claimed_until or never set it.
THEOREM RestCarriesNoClaim == Spec => []RestingUnclaimed
<1>1. IInv => RestingUnclaimed
  BY DEF IInv, CountInv
<1> QED
  BY <1>1, Inductive, PTL

\* The attempts column stays within the budget of its status: recordOutcome
\* never schedules a retry past maxAttempts, whichever sender counted.
THEOREM BudgetIsCounted == Spec => []CountsInBudget
<1>1. IInv => CountsInBudget
  BY DEF IInv, CountInv
<1> QED
  BY <1>1, Inductive, PTL

----------------------------------------------------------------------------
(* What a step does to the rows, whoever takes it: rows are created, or one *)
(* row is revoked, takes an outcome or is reset.                            *)

Same(d) == row'[d].status = row[d].status /\ row'[d].attempts = row[d].attempts
GetsCreated(d) ==
    row[d].status = "none" /\ row'[d] \in {NewRow("pending"), NewRow("dead_lettered")}
GetsRevoked(d) ==
    /\ row[d].status \notin {"none", "visibility_revoked"}
    /\ row'[d].status = "visibility_revoked" /\ row'[d].attempts = row[d].attempts
Recorded(d) ==
    /\ row[d].status \in {"pending", "retrying"}
    /\ row'[d].attempts = Used(d) + 1
    /\ \/ row'[d].status = "delivered"
       \/ row'[d].status = IF Used(d) + 1 = MaxAttempts THEN "dead_lettered" ELSE "retrying"
Reset(d) ==
    /\ \E p \in Replayers : AtWorkOn(p, d)
    /\ row[d].status \in {"dead_lettered", "retrying"}
    /\ row'[d].status = "pending" /\ row'[d].attempts = row[d].attempts
Touched(d) ==
    /\ GetsRevoked(d) \/ Recorded(d) \/ Reset(d)
    /\ \A d1 \in Deliveries \ {d} : Same(d1)

LEMMA RowSteps ==
    ASSUME IInv, [Next]_vars
    PROVE  \/ \A d \in Deliveries : Same(d) \/ GetsCreated(d)
           \/ \E d \in Deliveries : Touched(d)
<1> USE DEF IInv
<1> DEFINE Goal == \/ \A d \in Deliveries : Same(d) \/ GetsCreated(d)
                   \/ \E d \in Deliveries : Touched(d)
<1>1. ASSUME UNCHANGED row PROVE Goal
  BY <1>1 DEF Same
<1>2. ASSUME NEW c \in Consumers, FanOut(c) PROVE Goal
  <2>1. CASE Enqueue(c)
    BY <2>1, EnqueueShape DEF Same, GetsCreated
  <2>2. CASE ~Enqueue(c)
    <3>1. UNCHANGED row
      BY <1>2, <2>2, CheckKeepsTargets, AttemptFirstShape, EmptyHandsShape DEF FanOut
    <3> QED
      BY <1>1, <3>1
  <2> QED
    BY <2>1, <2>2
<1>3. ASSUME NEW p \in Sweepers, NEW d \in Deliveries, ClaimDueRetry(p, d) PROVE Goal
  BY <1>3, ClaimShape DEF Same
<1>4. ASSUME NEW p \in Replayers, NEW d \in Deliveries, RequireReplay(p, d) PROVE Goal
  BY <1>1, <1>4, RequireShape
<1>5. ASSUME NEW p \in Senders,
             \/ LoadTarget(p) \/ StillOwner(p) \/ StillSees(p) \/ CheckFails(p)
             \/ Post(p) \/ FailUnsent(p) \/ Abandon(p)
      PROVE  Goal
  BY <1>1, <1>5, MoveShape DEF Moves
<1>6. ASSUME NEW p \in Senders, MarkVisibilityRevoked(p) \/ RecordOutcome(p) PROVE Goal
  <2>1. PICK d \in Deliveries :
             /\ AtWorkOn(p, d)
             /\ \A d1 \in Deliveries \ {d} : row'[d1] = row[d1]
             /\ \/ row'[d] = row[d]
                \/ /\ row'[d].status = "visibility_revoked"
                   /\ row'[d].attempts = row[d].attempts
                \/ /\ at[p].pc = "record"
                   /\ row[d].claim = at[p].claim
                   /\ row'[d] = Outcome(at[p].res, at[p].prior + 1)
    BY <1>6, SettleShape
  <2>2. row[d].status # "none"
    BY <2>1 DEF FirstInv, First, Claimers, Senders
  <2>3. \A d1 \in Deliveries \ {d} : Same(d1)
    BY <2>1 DEF Same
  <2>4. CASE row'[d] = row[d]
    BY <2>3, <2>4 DEF Same
  <2>5. CASE row'[d].status = "visibility_revoked" /\ row'[d].attempts = row[d].attempts
    <3>1. Same(d) \/ GetsRevoked(d)
      BY <2>2, <2>5 DEF Same, GetsRevoked
    <3> QED
      BY <2>3, <3>1 DEF Touched
  <2>6. CASE /\ at[p].pc = "record"
             /\ row[d].claim = at[p].claim
             /\ row'[d] = Outcome(at[p].res, at[p].prior + 1)
    <3>1. /\ at[p].prior + 1 \in 1 .. MaxAttempts
          /\ row[d].status \in {"pending", "retrying"}
          /\ Used(d) = at[p].prior
      BY <2>1, <2>6, OutcomeInBudget DEF Used
    <3>2. /\ row'[d].attempts = Used(d) + 1
          /\ \/ row'[d].status = "delivered"
             \/ row'[d].status = IF Used(d) + 1 = MaxAttempts
                                   THEN "dead_lettered" ELSE "retrying"
      BY <2>6, <3>1, AttemptsAssumption DEF Outcome
    <3> QED
      BY <2>3, <3>1, <3>2 DEF Touched, Recorded
  <2> QED
    BY <2>1, <2>4, <2>5, <2>6
<1>7. ASSUME NEW p \in Senders, ResetForReplay(p) PROVE Goal
  <2>1. PICK d \in Deliveries :
             /\ p \in Replayers /\ AtWorkOn(p, d)
             /\ \A d1 \in Deliveries \ {d} : row'[d1] = row[d1]
             /\ \/ row'[d] = row[d]
                \/ /\ row[d].status \in {"dead_lettered", "retrying"}
                   /\ row'[d].status = "pending"
                   /\ row'[d].attempts = row[d].attempts
    BY <1>7, ResetShape
  <2>2. \A d1 \in Deliveries \ {d} : Same(d1)
    BY <2>1 DEF Same
  <2>3. Same(d) \/ Reset(d)
    BY <2>1 DEF Same, Reset
  <2> QED
    BY <2>2, <2>3 DEF Touched
<1>8. ASSUME Time PROVE Goal
  BY <1>8, TimeShape DEF Same
<1>9. ASSUME NEW p \in Senders, Attempt(p) \/ CheckFails(p) \/ Abandon(p) PROVE Goal
  BY <1>5, <1>6, <1>7, <1>9 DEF Attempt
<1> QED
  BY <1>1, <1>2, <1>3, <1>4, <1>8, <1>9, EnvShape DEF Next

\* visibility_revoked is terminal: a replay or a late outcome that meets the
\* parked row leaves it alone (resetForReplay, recordOutcome).
THEOREM RevokedStays == Spec => RevokedIsTerminal
<1>1. ASSUME IInv, [Next]_vars, NEW d \in Deliveries, row[d].status = "visibility_revoked"
      PROVE  row'[d].status = "visibility_revoked"
  BY <1>1, RowSteps DEF Same, GetsCreated, Touched, GetsRevoked, Recorded, Reset
<1>2. IInv /\ [Next]_vars =>
        [\A d \in Deliveries :
           row[d].status = "visibility_revoked" => row'[d].status = "visibility_revoked"]_vars
  BY <1>1
<1> QED
  BY <1>2, Inductive, PTL DEF Spec, RevokedIsTerminal

\* What was delivered is not scheduled again, whatever outcome or replay comes
\* late: recordOutcome's claim fence and resetForReplay's status list.
THEOREM DeliveredStays == Spec => DeliveredIsNotReopened
<1>1. ASSUME IInv, [Next]_vars, NEW d \in Deliveries, row[d].status = "delivered"
      PROVE  row'[d].status \in {"delivered", "visibility_revoked"}
  BY <1>1, RowSteps DEF Same, GetsCreated, Touched, GetsRevoked, Recorded, Reset
<1>2. IInv /\ [Next]_vars =>
        [\A d \in Deliveries :
           row[d].status = "delivered"
             => row'[d].status \in {"delivered", "visibility_revoked"}]_vars
  BY <1>1
<1> QED
  BY <1>2, Inductive, PTL DEF Spec, DeliveredIsNotReopened

----------------------------------------------------------------------------
(* The refinement. What it needs besides: a row that is not there has no     *)
(* attempts, and a replay only holds rows that were attempted before.        *)

AttemptedInv ==
    /\ \A d \in Deliveries : row[d].status = "none" => row[d].attempts = 0
    /\ \A p \in Replayers, d \in Deliveries :
         AtWorkOn(p, d) => row[d].status = "visibility_revoked" \/ row[d].attempts > 0

LEMMA AttemptedStep == IInv /\ AttemptedInv /\ [Next]_vars => AttemptedInv'
<1> SUFFICES ASSUME IInv, AttemptedInv, [Next]_vars PROVE AttemptedInv'
  OBVIOUS
<1> USE DEF IInv
<1>1. \A d \in Deliveries : row[d].attempts \in Nat
  BY DEF TypeInv, TypeOK, Delivery
<1>2. ASSUME NEW d \in Deliveries
      PROVE  /\ row'[d].status = "none" => row'[d].attempts = 0
             /\ row[d].status = "visibility_revoked" => row'[d].status = "visibility_revoked"
             /\ row[d].status # "none" /\ row[d].attempts > 0 => row'[d].attempts > 0
  <2>1. Used(d) \in Nat
    BY <1>1 DEF Used
  <2>2. Recorded(d) => row'[d].status # "none" /\ row'[d].attempts > 0
    BY <2>1 DEF Recorded
  <2> QED
    BY <2>2, RowSteps DEF AttemptedInv, Same, GetsCreated, NewRow, Touched, GetsRevoked, Reset,
      Recorded
<1>3. ASSUME NEW p \in Replayers, NEW d \in Deliveries, AtWorkOn(p, d)', ~AtWorkOn(p, d)
      PROVE  /\ UNCHANGED row
             /\ row[d].status \notin {"none", "pending", "delivered"} /\ ~RenderFailed(d)
  <2> USE <1>3
  <2>0. p \in Senders /\ p \notin Consumers /\ p \notin Sweepers
    BY ProcessAssumption DEF Senders
  <2>1. at'[p] # at[p]
    BY DEF AtWorkOn
  <2>2. ~(Admin \/ (\E e \in Events : PublishEvent(e) \/ MarkLapses(e)) \/ UNCHANGED vars \/ Time)
    BY <2>1, EnvShape, TimeShape
  <2>3. ASSUME NEW c \in Consumers, FanOut(c) PROVE FALSE
    <3>1. at'[p] = at[p]
      BY <2>0, <2>3, CheckKeepsTargets, AttemptFirstShape, EmptyHandsShape, EnqueueShape DEF FanOut
    <3> QED
      BY <2>1, <3>1
  <2>4. ASSUME NEW q \in Sweepers, NEW d1 \in Deliveries, ClaimDueRetry(q, d1) PROVE FALSE
    BY <2>0, <2>1, <2>4, ClaimShape
  <2>5. ASSUME NEW q \in Senders, Attempt(q) \/ CheckFails(q) \/ Abandon(q) PROVE FALSE
    <3>1. CASE \/ LoadTarget(q) \/ StillOwner(q) \/ StillSees(q) \/ CheckFails(q)
               \/ Post(q) \/ FailUnsent(q) \/ Abandon(q)
      <4>1. Moves(q)
        BY <3>1, MoveShape
      <4>2. p = q
        BY <2>0, <2>1, <4>1 DEF Moves
      <4> QED
        BY <4>1, <4>2 DEF Moves, AtWorkOn, Idle, NewAttempt
    <3>2. CASE MarkVisibilityRevoked(q) \/ RecordOutcome(q)
      <4>1. at'[q] = Idle /\ \A q1 \in Senders \ {q} : at'[q1] = at[q1]
        BY <3>2, SettleShape
      <4> QED
        BY <2>0, <2>1, <4>1 DEF AtWorkOn, Idle, NewAttempt
    <3>3. CASE ResetForReplay(q)
      <4>1. PICK d1 \in Deliveries :
              /\ AtWorkOn(q, d1)
              /\ \A q1 \in Senders \ {q} : at'[q1] = at[q1]
              /\ at'[q] = Idle \/ at'[q].d = d1
        BY <3>3, ResetShape
      <4> QED
        BY <2>0, <2>1, <4>1 DEF AtWorkOn, Idle, NewAttempt
    <3> QED
      BY <2>5, <3>1, <3>2, <3>3 DEF Attempt
  <2>6. PICK q \in Replayers, d1 \in Deliveries : RequireReplay(q, d1)
    BY <2>2, <2>3, <2>4, <2>5 DEF Next
  <2>7. /\ UNCHANGED row /\ at'[q] = NewAttempt("load", d1, 0, None)
        /\ \A q1 \in Senders \ {q} : at'[q1] = at[q1]
    BY <2>6, RequireShape
  <2>8. q = p /\ d1 = d
    BY <2>0, <2>1, <2>7 DEF AtWorkOn, NewAttempt
  <2> QED
    BY <2>6, <2>7, <2>8 DEF RequireReplay, Replayable
<1>4. ASSUME NEW p \in Replayers, NEW d \in Deliveries, AtWorkOn(p, d)'
      PROVE  row'[d].status = "visibility_revoked" \/ row'[d].attempts > 0
  <2>1. CASE AtWorkOn(p, d)
    BY <1>2, <2>1 DEF AttemptedInv, FirstInv, Claimers
  <2>2. CASE ~AtWorkOn(p, d)
    <3>1. /\ row'[d] = row[d]
          /\ row[d].status \notin {"none", "pending", "delivered"} /\ ~RenderFailed(d)
      BY <1>3, <1>4, <2>2
    <3>2. row[d].status \in {"retrying", "dead_lettered", "visibility_revoked"}
      BY <3>1 DEF TypeInv, TypeOK, Delivery, States
    <3>3. row[d].status = "retrying" => row[d].attempts > 0
      BY AttemptsAssumption DEF CountInv, CountsInBudget
    <3>4. row[d].status = "dead_lettered" => row[d].attempts > 0
      BY <1>1, <3>1 DEF RenderFailed
    <3> QED
      BY <3>1, <3>2, <3>3, <3>4
  <2> QED
    BY <2>1, <2>2
<1> QED
  BY <1>2, <1>4 DEF AttemptedInv

LEMMA Attempted == Spec => []AttemptedInv
<1>1. Init => AttemptedInv
  BY DEF Init, AttemptedInv, AtWorkOn, Idle, NewAttempt, NoRow, NewRow, Senders
<1> QED
  BY <1>1, AttemptedStep, Inductive, PTL DEF Spec

\* A step of the rows is a step of the abstract delivery, or none.
LEMMA AbstractStep ==
    ASSUME IInv, AttemptedInv, [Next]_vars
    PROVE  [Lifecycle!Next]_(Lifecycle!vars)
<1> USE DEF IInv
<1> DEFINE status == [d \in Deliveries |-> row[d].status]
           used == [d \in Deliveries |-> Used(d)]
<1>n. \A d \in Deliveries : row[d] \in Delivery /\ row[d].attempts \in Nat
  BY DEF TypeInv, TypeOK, Delivery
<1>s. ASSUME NEW d \in Deliveries, Same(d)
      PROVE  row'[d].status = row[d].status /\ Used(d)' = Used(d)
  BY <1>s DEF Same, Used
<1>1. CASE \A d \in Deliveries : Same(d) \/ GetsCreated(d)
  <2> DEFINE D == {d \in Deliveries : GetsCreated(d)}
             s == [d \in D |-> row'[d].status]
  <2>1. D \in SUBSET Deliveries /\ \A d \in D : status[d] = "none"
    BY DEF GetsCreated
  <2>2. s \in [D -> {"pending", "dead_lettered"}]
    BY DEF GetsCreated, NewRow
  <2>3. status' = [d \in Deliveries |-> IF d \in D THEN s[d] ELSE status[d]]
    BY <1>1, <1>s
  <2>4. \A d \in Deliveries : Used(d)' = Used(d)
    BY <1>1, <1>s DEF GetsCreated, NewRow, Used, AttemptedInv
  <2>5. used' = used
    BY <2>4
  <2>6. Lifecycle!FannedOut
    BY <2>1, <2>2, <2>3, <2>5 DEF Lifecycle!FannedOut
  <2> QED
    BY <2>6 DEF Lifecycle!Next
<1>2. CASE \E d \in Deliveries : Touched(d)
  <2>1. PICK d \in Deliveries : Touched(d)
    BY <1>2
  <2>2. /\ status' = [status EXCEPT ![d] = row'[d].status]
        /\ used' = [used EXCEPT ![d] = Used(d)']
    BY <1>s, <2>1 DEF Touched
  <2>3. status[d] = row[d].status /\ used[d] = Used(d)
    OBVIOUS
  <2>4. CASE GetsRevoked(d)
    <3>1. Lifecycle!Revoked(d)
      BY <2>2, <2>3, <2>4 DEF GetsRevoked, Used, Lifecycle!Revoked
    <3> QED
      BY <3>1 DEF Lifecycle!Next
  <2>5. CASE Recorded(d)
    <3>1. Used(d)' = Used(d) + 1 /\ Lifecycle!Open(d)
      BY <2>5 DEF Recorded, Used, Lifecycle!Open
    <3>2. Lifecycle!Delivered(d) \/ Lifecycle!AttemptFailed(d)
      BY <2>2, <2>3, <2>5, <3>1
      DEF Recorded, Lifecycle!Delivered, Lifecycle!AttemptFailed
    <3> QED
      BY <3>2 DEF Lifecycle!Next
  <2>6. CASE Reset(d)
    <3>1. Used(d) > 0 /\ Used(d)' = 0
      BY <2>6 DEF Reset, Used, AttemptedInv
    <3>2. Lifecycle!Reopened(d)
      BY <2>2, <2>3, <2>6, <3>1 DEF Reset, Lifecycle!Reopened
    <3> QED
      BY <3>2 DEF Lifecycle!Next
  <2> QED
    BY <2>1, <2>4, <2>5, <2>6 DEF Touched
<1> QED
  BY <1>1, <1>2, RowSteps

\* Consumers, sweeps and replays, racing for leases, stalling and dying, take a
\* delivery through the life WebhookLifecycle describes and no other.
THEOREM SendersImplementLifecycle == Spec => ImplementsLifecycle
<1>1. Init => Lifecycle!Init
  BY DEF Init, Lifecycle!Init, NoRow, NewRow, Used
<1> QED
  BY <1>1, AbstractStep, Inductive, Attempted, PTL
  DEF Spec, ImplementsLifecycle, Lifecycle!Spec
=============================================================================
