-------------------------- MODULE ApprovalsProofs --------------------------
(***************************************************************************)
(* What holds of the approval engine for any cards, kinds, requests and    *)
(* bounds.  The argument: once a card is approved its kind, its change and *)
(* its pin stand (Kept), so whatever a request read of it when it set out  *)
(* is still so when it writes; and the conditional update lets one request *)
(* past, which then owns the only write the card will ever release.        *)
(***************************************************************************)
EXTENDS Approvals, TLAPS

Approved(c) == card[c].status = "approved"

RowInv == \A c \in Cards :
    /\ card[c].consumed => Approved(c)
    /\ card[c].ran => work[c].times = 1
    /\ card[c].ran /\ ByServer(c) => card[c].failed = 0

WorkInv == \A c \in Cards :
    /\ work[c].times \in {0, 1}
    /\ work[c].times = 1 =>
          /\ Approved(c)
          /\ work[c].change = card[c].change
          /\ Pins(c) => work[c].on = card[c].pin
          /\ card[c].kind # "stepup" => card[c].consumed

\* What a request knows of the card it is on, by where it stands.
OnCard(w) ==
    LET c == att[w].card
    IN  /\ c \in Cards
        /\ c \notin att[w].todo
        /\ card[c].status \notin {"absent", "staging"}
        /\ card[c].kind # "call" =>
              Approved(c) /\ att[w].change = card[c].change /\ att[w].ran = FALSE
        /\ att[w].at = "checked" =>
              Approved(c) /\ att[w].change = card[c].change /\ card[c].kind # "stepup"
        /\ att[w].at = "write" =>
              /\ Approved(c) /\ att[w].change = card[c].change
              /\ card[c].consumed /\ card[c].kind \in {"split", "call"}
        /\ att[w].at = "ran" => work[c].times = 1 /\ card[c].kind # "call"
        /\ att[w].at = "failed" => card[c].kind # "call"

Holds(w) ==
    /\ att[w].at = "idle" => att[w].card = None /\ att[w].todo = {}
    /\ att[w].at # "idle" => OnCard(w)
    /\ \A c \in att[w].todo : Approved(c) /\ card[c].kind # "call"

HoldInv == \A w \in Workers : Holds(w)

\* The one request that may still do the work of a card outside the redemption.
Owns(w, c) ==
    \/ att[w].at = "write" /\ att[w].card = c
    \/ card[c].kind = "stepup" /\ att[w].at = "effect" /\ att[w].card = c
    \/ card[c].kind = "stepup" /\ c \in att[w].todo

OwnInv == \A c \in Cards, w \in Workers :
    Owns(w, c) => work[c].times = 0 /\ \A v \in Workers : Owns(v, c) => v = w

\* Work of a server's that nobody has recorded is being recorded, or was shaken.
ToldInv == \A c \in Cards :
    work[c].times = 1 /\ ByServer(c) /\ c \notin shaken =>
        card[c].ran \/ \E w \in Workers : att[w].at = "ran" /\ att[w].card = c

\* A stager past its probe is alone with its kind, and found no refusal of it.
StageInv == \A c, d \in Cards :
    card[c].status = "staging" /\ d # c /\ card[d].kind = card[c].kind =>
        card[d].status \notin {"staging", "rejected"}

IInv == TypeOK /\ RowInv /\ WorkInv /\ HoldInv /\ OwnInv /\ ToldInv /\ StageInv

\* What no step undoes: a card once out keeps its kind, a yes keeps its terms.
Out(c) == card[c].status \notin {"absent", "staging"}

Kept == \A c \in Cards :
    /\ Out(c) => card'[c].status \notin {"absent", "staging"} /\ card'[c].kind = card[c].kind
    /\ Approved(c) =>
          /\ card'[c].status = "approved"
          /\ card'[c].change = card[c].change
          /\ card'[c].pin = card[c].pin
          /\ card[c].consumed => card'[c].consumed

WorkKept == \A c \in Cards : work[c].times = 1 => work'[c].times = 1

\* A request that goes on to one of the cards in S, or stops.
Takes(a, S) ==
    \/ a = Idle
    \/ /\ a.at = "effect"
       /\ a.card \in S
       /\ a.todo = S \ {a.card}
       /\ a.failed = 0 /\ a.ran = FALSE

-----------------------------------------------------------------------------
\* A field of a row is replaced by a value of its type.
LEMMA Fields ==
  ASSUME NEW p \in CardRows
  PROVE  /\ \A s \in Statuses : [p EXCEPT !.status = s] \in CardRows
         /\ \A k \in ServerKinds \cup AgentKinds : [p EXCEPT !.kind = k] \in CardRows
         /\ \A t \in Changes : [p EXCEPT !.change = t] \in CardRows
         /\ \A n \in Nat : [p EXCEPT !.pin = n] \in CardRows /\ [p EXCEPT !.failed = n] \in CardRows
         /\ \A b \in BOOLEAN : /\ [p EXCEPT !.late = b] \in CardRows
                              /\ [p EXCEPT !.consumed = b] \in CardRows
                              /\ [p EXCEPT !.ran = b] \in CardRows
  BY DEF CardRows

\* The fillers are of their types.
LEMMA Fillers == AnyChange \in Changes /\ Blank \in CardRows /\ Idle \in Attempts
<1>1. AnyChange \in Changes
  BY ApprovalsAssumption DEF AnyChange
<1> QED
  BY <1>1 DEF Blank, Idle, CardRows, Attempts, Statuses, Positions, ServerKinds, AgentKinds

\* A request released on to S takes one of S, with its change, or stops.
LEMMA Releasing ==
  ASSUME NEW S \in SUBSET Cards, NEW t, \A c \in S : t[c] \in Changes, NEW a \in Releases(S, t)
  PROVE  /\ a \in Attempts
         /\ Takes(a, S)
         /\ a = Idle \/ a.change = t[a.card]
<1>1. CASE S = {}
  BY <1>1, Fillers DEF Releases, Takes
<1>2. CASE S # {}
  <2>1. PICK c \in S : a = [at |-> "effect", card |-> c, change |-> t[c], failed |-> 0,
                             ran |-> FALSE, todo |-> S \ {c}]
    BY <1>2 DEF Releases
  <2> QED
    BY <2>1 DEF Attempts, Takes, Positions
<1> QED
  BY <1>1, <1>2

\* A request that is done with its card takes the next of its bundle, or stops.
LEMMA Leaving ==
  ASSUME TypeOK, NEW w \in Workers, Leave(w)
  PROVE  \E a \in Attempts :
            /\ att' = [att EXCEPT ![w] = a]
            /\ Takes(a, att[w].todo)
            /\ a = Idle \/ a.change = card[a.card].change
<1> DEFINE S == att[w].todo
           t == [c \in S |-> card[c].change]
<1>1. S \in SUBSET Cards /\ \A c \in S : t[c] \in Changes
  BY DEF TypeOK, Attempts, CardRows
<1>2. PICK a \in Releases(S, t) : att' = [att EXCEPT ![w] = a]
  BY DEF Leave, Onward
<1>3. a \in Attempts /\ Takes(a, S) /\ (a = Idle \/ a.change = t[a.card])
  <2> HIDE DEF t
  <2> QED
    BY <1>1, <1>2, Releasing
<1> QED
  BY <1>2, <1>3 DEF Takes

-----------------------------------------------------------------------------
\* The steps that change rows alone: a yes only gets late, or is marked, and
\* nothing becomes one.
Calm == \A c \in Cards :
    /\ Out(c) => card'[c].status \notin {"absent", "staging"} /\ card'[c].kind = card[c].kind
    /\ Approved(c) =>
          /\ card'[c].status = "approved"
          /\ card'[c].change = card[c].change
          /\ card'[c].pin = card[c].pin
          /\ card'[c].consumed = card[c].consumed
          /\ card'[c].ran = card[c].ran
          /\ ByServer(c) => card'[c].failed = card[c].failed
    /\ ~Approved(c) => /\ card'[c].status # "approved"
                       /\ ~card'[c].consumed
                       /\ ~card'[c].ran

CardsOnly ==
    \/ \E c \in Cards : Staging(c) \/ Elapse(c) \/ Expire(c)
    \/ \E c \in Cards, w \in Workers : Reject(w, c)
    \/ MarkLapsed

\* A card that is no yes has been neither spent nor run.
LEMMA OnlyAYes ==
  ASSUME RowInv, WorkInv, NEW c \in Cards, ~Approved(c)
  PROVE  ~card[c].consumed /\ ~card[c].ran /\ work[c].times = 0
  BY DEF RowInv, WorkInv

LEMMA StagingCalm ==
  ASSUME IInv, NEW c \in Cards, Staging(c)
  PROVE  Calm /\ card' \in [Cards -> CardRows] /\ StageInv'
<1> USE DEF IInv, TypeOK, Out, Approved, ByServer
<1>1. card[c] \in CardRows /\ version \in Nat /\ \A d \in Cards : ~Approved(d) => ~card[d].consumed /\ ~card[d].ran
  BY OnlyAYes
<1>2. ASSUME NEW k \in Kinds[c], NEW x \in Asked, Stage(c, k, x)
      PROVE  Calm /\ card' \in [Cards -> CardRows] /\ StageInv'
  <2> DEFINE r == [Blank EXCEPT !.status = "pending", !.kind = k, !.change = x, !.pin = PinFor(k)]
  <2>1. r \in CardRows /\ r.status = "pending" /\ r.kind = k /\ ~r.consumed /\ ~r.ran
    <3>1. PinFor(k) \in Nat /\ x \in Changes /\ k \in AgentKinds
      BY <1>1, <1>2, ApprovalsAssumption DEF PinFor, Stage
    <3>2. [Blank EXCEPT !.status = "pending"] \in CardRows
      BY Fillers, Fields DEF Statuses
    <3>3. [Blank EXCEPT !.status = "pending", !.kind = k] \in CardRows
      BY <3>1, <3>2, Fields
    <3>4. [Blank EXCEPT !.status = "pending", !.kind = k, !.change = x] \in CardRows
      BY <3>1, <3>3, Fields
    <3>5. r \in CardRows
      BY <3>1, <3>4, Fields
    <3> QED
      BY <3>5 DEF Blank
  <2>2. card' = [card EXCEPT ![c] = r] /\ card[c].status = "absent"
    BY <1>2 DEF Stage
  <2> HIDE DEF r
  <2>3. card' \in [Cards -> CardRows] /\ Calm
    BY <1>1, <2>1, <2>2 DEF Calm
  <2>4. StageInv'
    BY <2>1, <2>2 DEF StageInv
  <2> QED
    BY <2>3, <2>4
<1>3. ASSUME NEW k \in Kinds[c], NEW x \in Asked, Probe(c, k, x)
      PROVE  Calm /\ card' \in [Cards -> CardRows] /\ StageInv'
  <2> DEFINE r == [Blank EXCEPT !.status = "staging", !.kind = k, !.change = x]
  <2>1. r \in CardRows /\ r.status = "staging" /\ r.kind = k /\ ~r.consumed /\ ~r.ran
    <3>1. x \in Changes /\ k \in ServerKinds
      BY <1>3, ApprovalsAssumption DEF Probe
    <3>2. [Blank EXCEPT !.status = "staging"] \in CardRows
      BY Fillers, Fields DEF Statuses
    <3>3. [Blank EXCEPT !.status = "staging", !.kind = k] \in CardRows
      BY <3>1, <3>2, Fields
    <3>4. r \in CardRows
      BY <3>1, <3>3, Fields
    <3> QED
      BY <3>4 DEF Blank
  <2>2. card' = [card EXCEPT ![c] = r] /\ card[c].status = "absent" /\ IdentityFree(c, k) /\ ~Declined(k)
    BY <1>3 DEF Probe
  <2> HIDE DEF r
  <2>3. card' \in [Cards -> CardRows] /\ Calm
    BY <1>1, <2>1, <2>2 DEF Calm
  <2>4. StageInv'
    BY <2>1, <2>2 DEF StageInv, IdentityFree, Declined
  <2> QED
    BY <2>3, <2>4
<1>4. CASE Settle(c)
  <2>1. /\ card[c].status = "staging"
        /\ \A d \in Superseded(c) : d \in Cards \ {c} /\ card[d].status = "pending"
    BY <1>4 DEF Settle, Superseded, Live
  <2>2. ASSUME NEW d \in Cards
        PROVE  /\ card'[d] \in CardRows
               /\ \/ d = c /\ card'[d].status = "pending" /\ card'[d].kind = card[d].kind
                     /\ ~card'[d].consumed /\ ~card'[d].ran
                  \/ d = c /\ card'[d] = Blank
                  \/ d # c /\ card[d].status = "pending" /\ card'[d].status = "expired" /\ card'[d].kind = card[d].kind
                     /\ ~card'[d].consumed /\ ~card'[d].ran
                  \/ d # c /\ card'[d] = card[d]
    <3>0. card[d] \in CardRows /\ PinFor(card[c].kind) \in Nat
      BY <1>1 DEF PinFor
    <3>1. card'[d] = IF d = c THEN Landed(c) ELSE IF d \in Superseded(c) THEN Withdrawn(d) ELSE card[d]
      BY <1>4 DEF Settle
    <3>2. CASE d = c /\ Joins(c) = {}
      <4>1. Landed(c) = [card[c] EXCEPT !.status = "pending", !.pin = PinFor(card[c].kind)]
        BY <3>2 DEF Landed
      <4>2. [card[c] EXCEPT !.status = "pending"] \in CardRows
        BY <1>1, Fields DEF Statuses
      <4>3. Landed(c) \in CardRows
        BY <3>0, <4>1, <4>2, Fields
      <4> QED
        BY <1>1, <2>1, <3>1, <3>2, <4>1, <4>3 DEF CardRows
    <3>3. CASE d = c /\ Joins(c) # {}
      BY <3>1, <3>3, Fillers DEF Landed
    <3>4. CASE d # c /\ d \in Superseded(c)
      <4>1. [card[d] EXCEPT !.status = "expired"] \in CardRows
        BY <3>0, Fields DEF Statuses
      <4>2. Withdrawn(d) \in CardRows
        BY <4>1, Fields DEF Withdrawn
      <4> QED
        BY <1>1, <2>1, <3>0, <3>1, <3>4, <4>2 DEF CardRows, Withdrawn
    <3>5. CASE d # c /\ d \notin Superseded(c)
      BY <3>1, <3>5, <3>0
    <3> QED
      BY <3>2, <3>3, <3>4, <3>5
  <2>3. card' \in [Cards -> CardRows]
    <3> DEFINE f(d) == IF d = c THEN Landed(c) ELSE IF d \in Superseded(c) THEN Withdrawn(d) ELSE card[d]
    <3>1. card' = [d \in Cards |-> f(d)]
      BY <1>4 DEF Settle
    <3> HIDE DEF f
    <3> QED
      BY <2>2, <3>1
  <2>4. Calm
    BY <1>1, <2>1, <2>2 DEF Calm, Blank
  <2>5. StageInv'
    BY <2>1, <2>2 DEF StageInv, Blank
  <2> QED
    BY <2>3, <2>4, <2>5
<1>5. CASE Withdraw(c)
  <2>1. card' = [card EXCEPT ![c] = [card[c] EXCEPT !.status = "expired", !.late = TRUE]]
        /\ card[c].status = "pending"
    BY <1>5 DEF Withdraw, Withdrawn
  <2>2. [card[c] EXCEPT !.status = "expired", !.late = TRUE] \in CardRows
    <3>1. [card[c] EXCEPT !.status = "expired"] \in CardRows
      BY <1>1, Fields DEF Statuses
    <3> QED
      BY <3>1, Fields
  <2>3. card' \in [Cards -> CardRows] /\ Calm
    BY <1>1, <2>1, <2>2 DEF Calm, CardRows
  <2>4. StageInv'
    BY <1>1, <2>1 DEF StageInv, CardRows
  <2> QED
    BY <2>3, <2>4
<1> QED
  BY <1>2, <1>3, <1>4, <1>5 DEF Staging

LEMMA RejectCalm ==
  ASSUME IInv, NEW c \in Cards, NEW w \in Workers, Reject(w, c)
  PROVE  Calm /\ card' \in [Cards -> CardRows] /\ StageInv'
<1> USE DEF IInv, TypeOK, Out, Approved, ByServer
<1> DEFINE r == Decided(c, "rejected", card[c].change)
<1>1. card[c] \in CardRows /\ \A d \in Cards : ~Approved(d) => ~card[d].consumed /\ ~card[d].ran
  BY OnlyAYes
<1>2. card' = [card EXCEPT ![c] = r] /\ card[c].status = "pending" /\ RowFree(c)
  BY DEF Reject, Open
<1>3. /\ r \in CardRows /\ r.status = "rejected" /\ r.kind = card[c].kind
      /\ r.consumed = card[c].consumed /\ r.ran = card[c].ran
  <2>1. card[c].change \in Changes /\ "rejected" \in Statuses
    BY <1>1 DEF CardRows, Statuses
  <2>2. [card[c] EXCEPT !.status = "rejected", !.change = card[c].change] \in CardRows
    <3>1. [card[c] EXCEPT !.status = "rejected"] \in CardRows
      BY <1>1, <2>1, Fields
    <3> QED
      BY <2>1, <3>1, Fields
  <2>3. r \in CardRows
    BY <2>2, Fields DEF Decided
  <2> QED
    BY <1>1, <2>3 DEF Decided, CardRows
<1> HIDE DEF r
<1>4. card' \in [Cards -> CardRows] /\ Calm
  BY <1>1, <1>2, <1>3 DEF Calm
<1>5. StageInv'
  BY <1>2, <1>3 DEF StageInv, RowFree, IdentityFree
<1> QED
  BY <1>4, <1>5

LEMMA ClockCalm ==
  ASSUME IInv, NEW c \in Cards, Elapse(c) \/ Expire(c)
  PROVE  Calm /\ card' \in [Cards -> CardRows] /\ StageInv'
<1> USE DEF IInv, TypeOK, Out, Approved, ByServer
<1>1. card[c] \in CardRows /\ \A d \in Cards : ~Approved(d) => ~card[d].consumed /\ ~card[d].ran
  BY OnlyAYes
<1>2. CASE Elapse(c)
  <2>1. card' = [card EXCEPT ![c] = [card[c] EXCEPT !.late = TRUE]]
    BY <1>2 DEF Elapse
  <2>2. [card[c] EXCEPT !.late = TRUE] \in CardRows
    BY <1>1, Fields
  <2>3. card' \in [Cards -> CardRows] /\ Calm
    BY <1>1, <2>1, <2>2 DEF Calm, CardRows
  <2>4. StageInv'
    BY <1>1, <2>1 DEF StageInv, CardRows
  <2> QED
    BY <2>3, <2>4
<1>3. CASE Expire(c)
  <2>1. card' = [card EXCEPT ![c] = [card[c] EXCEPT !.status = "expired"]] /\ card[c].status = "pending"
    BY <1>3 DEF Expire
  <2>2. [card[c] EXCEPT !.status = "expired"] \in CardRows
    BY <1>1, Fields DEF Statuses
  <2>3. card' \in [Cards -> CardRows] /\ Calm
    BY <1>1, <2>1, <2>2 DEF Calm, CardRows
  <2>4. StageInv'
    BY <1>1, <2>1 DEF StageInv, CardRows
  <2> QED
    BY <2>3, <2>4
<1> QED
  BY <1>2, <1>3

LEMMA LapseCalm ==
  ASSUME IInv, MarkLapsed
  PROVE  Calm /\ card' \in [Cards -> CardRows] /\ StageInv'
<1> USE DEF IInv, TypeOK, Out, Approved, ByServer
<1>1. \A d \in Cards : card[d] \in CardRows /\ (~Approved(d) => ~card[d].consumed /\ ~card[d].ran)
  BY OnlyAYes
<1> DEFINE f(d) == IF Forgotten(d) THEN [card[d] EXCEPT !.failed = 1] ELSE card[d]
<1>2. card' = [d \in Cards |-> f(d)]
  BY DEF MarkLapsed
<1>3. ASSUME NEW d \in Cards
      PROVE  /\ f(d) \in CardRows
             /\ f(d).status = card[d].status /\ f(d).kind = card[d].kind /\ f(d).change = card[d].change
             /\ f(d).pin = card[d].pin /\ f(d).consumed = card[d].consumed /\ f(d).ran = card[d].ran
             /\ ByServer(d) => f(d).failed = card[d].failed
  <2>1. [card[d] EXCEPT !.failed = 1] \in CardRows
    BY <1>1, Fields
  <2> QED
    BY <1>1, <2>1 DEF Forgotten, CardRows
<1> HIDE DEF f
<1>4. card' \in [Cards -> CardRows] /\ Calm
  BY <1>1, <1>2, <1>3 DEF Calm
<1>5. StageInv'
  BY <1>2, <1>3 DEF StageInv
<1> QED
  BY <1>4, <1>5

\* Such a step leaves every request where it is, and knowing what it knew.
LEMMA CalmKeeps ==
  ASSUME IInv, CardsOnly
  PROVE  IInv' /\ Kept /\ UNCHANGED <<work, att, version, shaken>>
<1> USE DEF IInv, TypeOK
<1>1. Calm /\ card' \in [Cards -> CardRows] /\ StageInv'
  BY StagingCalm, RejectCalm, ClockCalm, LapseCalm DEF CardsOnly
<1>2. UNCHANGED <<work, att, version, upsets, shaken>>
  BY DEF CardsOnly, Staging, Stage, Probe, Settle, Withdraw, Reject, Elapse, Expire, MarkLapsed
<1>3. Kept
  BY <1>1 DEF Calm, Kept, Out, Approved
<1>4. TypeOK'
  BY <1>1, <1>2
<1>5. RowInv'
  BY <1>1, <1>2 DEF RowInv, Calm, Out, Approved, ByServer
<1>6. WorkInv'
  BY <1>1, <1>2 DEF WorkInv, Calm, Out, Approved, Pins, Pinning
<1>7. HoldInv'
  <2> SUFFICES ASSUME NEW w \in Workers
               PROVE  /\ att[w].at = "idle" => att[w].card = None /\ att[w].todo = {}
                      /\ att[w].at # "idle" => OnCard(w)'
                      /\ \A c \in att[w].todo : Approved(c)' /\ card'[c].kind # "call"
    BY <1>2 DEF HoldInv, Holds
  <2>1. att[w].at # "idle" => OnCard(w)'
    <3> HAVE att[w].at # "idle"
    <3>1. OnCard(w)
      BY DEF HoldInv, Holds
    <3> QED
      BY <1>1, <1>2, <3>1 DEF OnCard, Calm, Out, Approved
  <2>2. \A c \in att[w].todo : c \in Cards
    BY DEF Attempts
  <2> QED
    BY <1>1, <2>1, <2>2 DEF HoldInv, Holds, Calm, Out, Approved
<1>8. OwnInv'
  <2>1. \A c \in Cards, w \in Workers : Owns(w, c)' => Owns(w, c)
    <3> SUFFICES ASSUME NEW c \in Cards, NEW w \in Workers, Owns(w, c)'
                 PROVE  Owns(w, c)
      OBVIOUS
    <3>1. att[w].card = c /\ att[w].at # "idle" => Out(c)
      BY DEF HoldInv, Holds, OnCard, Out
    <3>2. c \in att[w].todo => Out(c)
      BY DEF HoldInv, Holds, Out, Approved
    <3> QED
      BY <1>1, <1>2, <3>1, <3>2 DEF Owns, Calm
  <2> QED
    BY <1>2, <2>1 DEF OwnInv
<1>9. ToldInv'
  <2> SUFFICES ASSUME NEW c \in Cards, work[c].times = 1, ByServer(c)', c \notin shaken
               PROVE  card'[c].ran \/ \E w \in Workers : att[w].at = "ran" /\ att[w].card = c
    BY <1>2 DEF ToldInv
  <2>1. Approved(c)
    BY DEF WorkInv
  <2> QED
    BY <1>1, <2>1 DEF ToldInv, Calm, Out, Approved, ByServer
<1> QED
  BY <1>1, <1>2, <1>3, <1>4, <1>5, <1>6, <1>7, <1>8, <1>9

-----------------------------------------------------------------------------
\* The steps of one request, w, and the card it is on.

\* Only the work of a yes is owned, and by what has done nothing yet.
LEMMA OwnersApproved ==
  ASSUME HoldInv, NEW c \in Cards, NEW w \in Workers, Owns(w, c)
  PROVE  Approved(c)
  BY DEF HoldInv, Holds, OnCard, Owns

\* What a request that does not move knows stays so, and it comes to own nothing.
LEMMA Others ==
  ASSUME IInv, Kept, WorkKept, NEW v \in Workers, att'[v] = att[v]
  PROVE  Holds(v)' /\ \A c \in Cards : Owns(v, c)' => Owns(v, c)
<1> USE DEF IInv, TypeOK
<1>1. Holds(v) /\ att[v].todo \subseteq Cards
  BY DEF HoldInv, Attempts
<1>2. att[v].at # "idle" => OnCard(v)'
  <2> HAVE att[v].at # "idle"
  <2>1. OnCard(v)
    BY <1>1 DEF Holds
  <2> QED
    BY <2>1 DEF OnCard, Kept, Out, Approved, WorkKept
<1>3. Holds(v)'
  BY <1>1, <1>2 DEF Holds, Kept, Out, Approved
<1>4. ASSUME NEW c \in Cards, Owns(v, c)'
      PROVE  Owns(v, c)
  <2>1. att[v].card = c /\ att[v].at # "idle" => Out(c)
    BY <1>1 DEF Holds, OnCard, Out
  <2>2. c \in att[v].todo => Out(c)
    BY <1>1 DEF Holds, Out, Approved
  <2> QED
    BY <1>4, <2>1, <2>2 DEF Owns, Kept
<1> QED
  BY <1>3, <1>4

\* A request that goes on with its bundle knows of the next card what it needs.
LEMMA GoesOn ==
  ASSUME IInv, Kept, NEW w \in Workers, NEW a \in Attempts,
         att' = [att EXCEPT ![w] = a],
         Takes(a, att[w].todo),
         a = Idle \/ a.change = card[a.card].change
  PROVE  Holds(w)' /\ \A c \in Cards : Owns(w, c)' => Owns(w, c)
<1> USE DEF IInv, TypeOK
<1>1. Holds(w) /\ att[w].todo \subseteq Cards /\ att'[w] = a
  BY DEF HoldInv, Attempts
<1>2. \A c \in att[w].todo : Approved(c)' /\ card'[c].kind # "call" /\ card'[c].kind = card[c].kind
                               /\ card'[c].change = card[c].change
  BY <1>1 DEF Holds, Kept, Out, Approved
<1>3. CASE a = Idle
  BY <1>1, <1>3 DEF Idle, Holds, Owns
<1>4. CASE a # Idle
  <2>1. a.at = "effect" /\ a.card \in att[w].todo /\ a.todo = att[w].todo \ {a.card} /\ a.ran = FALSE
        /\ a.change = card[a.card].change
    BY <1>4 DEF Takes
  <2>2. OnCard(w)'
    BY <1>1, <1>2, <2>1 DEF OnCard, Approved
  <2>3. Holds(w)'
    BY <1>1, <1>2, <2>1, <2>2 DEF Holds
  <2> QED
    BY <1>1, <1>2, <2>1, <2>3 DEF Owns
<1> QED
  BY <1>3, <1>4

\* The invariant, from what one request's step does to it.
LEMMA OneRequest ==
  ASSUME IInv, TypeOK', Kept, WorkKept, RowInv', WorkInv', StageInv',
         NEW w \in Workers, \A v \in Workers \ {w} : att'[v] = att[v],
         Holds(w)',
         \A c \in Cards : Owns(w, c)' => /\ work'[c].times = 0
                                         /\ Owns(w, c) \/ \A v \in Workers : ~Owns(v, c),
         \A c \in Cards, v \in Workers \ {w} : Owns(v, c) => work'[c].times = 0,
         ToldInv'
  PROVE  IInv'
<1>1. HoldInv'
  BY Others DEF HoldInv
<1>2. OwnInv'
  <2> SUFFICES ASSUME NEW c \in Cards, NEW u \in Workers, Owns(u, c)'
               PROVE  work'[c].times = 0 /\ \A v \in Workers : Owns(v, c)' => v = u
    BY DEF OwnInv
  <2>1. \A v \in Workers \ {w} : Owns(v, c)' => Owns(v, c)
    BY Others
  <2>2. \A x, y \in Workers : Owns(x, c) /\ Owns(y, c) => x = y
    BY DEF IInv, OwnInv
  <2>3. work'[c].times = 0
    BY <2>1
  <2> QED
    BY <2>1, <2>2, <2>3
<1> QED
  BY <1>1, <1>2 DEF IInv

\* A step that writes no row and does no work.
LEMMA AttOnly ==
  ASSUME IInv, UNCHANGED <<card, work, version>>, upsets' \in 0..MaxUpsets,
         shaken \subseteq shaken', shaken' \subseteq Cards,
         NEW w \in Workers, NEW a \in Attempts, att' = [att EXCEPT ![w] = a],
         Holds(w)',
         \A c \in Cards : Owns(w, c)' => Owns(w, c),
         att[w].at = "ran" => att[w].card \in shaken'
  PROVE  IInv' /\ Kept
<1> USE DEF IInv
<1>1. TypeOK'
  BY DEF TypeOK
<1>2. Kept /\ WorkKept
  BY DEF Kept, WorkKept, Out, Approved
<1>3. RowInv' /\ WorkInv' /\ StageInv'
  BY DEF RowInv, WorkInv, StageInv, Approved, ByServer, Pins
<1>4. \A v \in Workers \ {w} : att'[v] = att[v]
  BY DEF TypeOK
<1>5. ToldInv'
  <2> SUFFICES ASSUME NEW c \in Cards, work[c].times = 1, ByServer(c), c \notin shaken'
               PROVE  card[c].ran \/ \E v \in Workers : att'[v].at = "ran" /\ att'[v].card = c
    BY DEF ToldInv, ByServer
  <2>1. card[c].ran \/ \E v \in Workers : att[v].at = "ran" /\ att[v].card = c
    BY DEF ToldInv
  <2> QED
    BY <1>4, <2>1
<1>6. \A c \in Cards, v \in Workers : Owns(v, c) => work'[c].times = 0
  BY DEF OwnInv
<1>7. IInv'
  BY <1>1, <1>2, <1>3, <1>4, <1>5, <1>6, OneRequest
<1> QED
  BY <1>2, <1>7

-----------------------------------------------------------------------------
\* A decision: the cards in S become a yes, and the request goes on to their work.
LEMMA Decision ==
  ASSUME IInv, NEW w \in Workers, NEW S \in SUBSET Cards, NEW t,
         att[w].at = "idle",
         \A c \in S : card[c].status = "pending" /\ t[c] \in Changes,
         card' = [c \in Cards |-> IF c \in S THEN Decided(c, "approved", t[c]) ELSE card[c]],
         NEW a \in Releases({c \in S : Effectful(c)}, t),
         att' = [att EXCEPT ![w] = a],
         UNCHANGED <<work, version, upsets, shaken>>
  PROVE  IInv' /\ Kept
<1> USE DEF IInv, TypeOK
<1> DEFINE E == {c \in S : Effectful(c)}
<1>1. \A c \in S : /\ card[c] \in CardRows /\ ~Approved(c) /\ ~card[c].consumed /\ ~card[c].ran
                    /\ work[c].times = 0
  BY OnlyAYes DEF Approved
<1>2. ASSUME NEW c \in S
      PROVE  LET r == Decided(c, "approved", t[c])
             IN  /\ r \in CardRows /\ r.status = "approved" /\ r.change = t[c]
                 /\ r.kind = card[c].kind /\ ~r.consumed /\ ~r.ran
  <2>1. [card[c] EXCEPT !.status = "approved"] \in CardRows
    BY <1>1, Fields DEF Statuses
  <2>2. [card[c] EXCEPT !.status = "approved", !.change = t[c]] \in CardRows
    BY <2>1, Fields
  <2>3. Decided(c, "approved", t[c]) \in CardRows
    BY <2>2, Fields DEF Decided
  <2> QED
    BY <1>1, <2>3 DEF Decided, CardRows
<1>3. \A c \in Cards :
        /\ card'[c] \in CardRows
        /\ c \notin S => card'[c] = card[c]
        /\ c \in S => /\ card'[c].status = "approved" /\ card'[c].kind = card[c].kind
                      /\ card'[c].change = t[c] /\ ~card'[c].consumed /\ ~card'[c].ran
  BY <1>2
<1>4. card' \in [Cards -> CardRows]
  <2> DEFINE f(c) == IF c \in S THEN Decided(c, "approved", t[c]) ELSE card[c]
  <2>1. card' = [c \in Cards |-> f(c)]
    OBVIOUS
  <2>2. \A c \in Cards : f(c) \in CardRows
    BY <1>2
  <2> HIDE DEF f
  <2> QED
    BY <2>1, <2>2
<1>5. a \in Attempts /\ Takes(a, E) /\ (a = Idle \/ a.change = t[a.card])
  <2>1. E \in SUBSET Cards /\ \A c \in E : t[c] \in Changes
    OBVIOUS
  <2> HIDE DEF E
  <2> QED
    BY <2>1, Releasing DEF E
<1> HIDE DEF E
<1>6. TypeOK' /\ att'[w] = a /\ \A v \in Workers \ {w} : att'[v] = att[v]
  BY <1>4, <1>5
<1>7. Kept /\ WorkKept
  BY <1>1, <1>3 DEF Kept, WorkKept, Out, Approved
<1>8. RowInv' /\ WorkInv' /\ StageInv'
  <2>1. RowInv'
    BY <1>1, <1>3 DEF RowInv, Approved, ByServer
  <2>2. WorkInv'
    BY <1>1, <1>3 DEF WorkInv, Approved, Pins
  <2>3. StageInv'
    BY <1>3 DEF StageInv
  <2> QED
    BY <2>1, <2>2, <2>3
<1>9. \A c \in E : c \in S /\ c \in Cards /\ card[c].kind # "call"
  BY DEF E, Effectful
<1>10. Holds(w)'
  <2>1. CASE a = Idle
    BY <1>6, <2>1 DEF Idle, Holds
  <2>2. CASE a # Idle
    <3>1. a.at = "effect" /\ a.card \in E /\ a.todo = E \ {a.card} /\ a.ran = FALSE
          /\ a.change = t[a.card]
      BY <1>5, <2>2 DEF Takes
    <3>2. OnCard(w)'
      BY <1>3, <1>6, <1>9, <3>1 DEF OnCard, Approved
    <3> QED
      BY <1>3, <1>6, <1>9, <3>1, <3>2 DEF Holds, Approved
  <2> QED
    BY <2>1, <2>2
<1>11. \A c \in Cards : Owns(w, c)' => c \in S
  <2>1. CASE a = Idle
    BY <1>6, <2>1 DEF Idle, Owns
  <2>2. CASE a # Idle
    BY <1>5, <1>6, <1>9, <2>2 DEF Takes, Owns
  <2> QED
    BY <2>1, <2>2
<1>12. \A c \in S, v \in Workers : ~Owns(v, c)
  BY <1>1, OwnersApproved
<1>13. \A c \in Cards, v \in Workers : Owns(v, c) => work'[c].times = 0
  BY DEF OwnInv
<1>14. ToldInv'
  <2> SUFFICES ASSUME NEW c \in Cards, work[c].times = 1, ByServer(c)', c \notin shaken
               PROVE  card'[c].ran \/ \E v \in Workers : att'[v].at = "ran" /\ att'[v].card = c
    BY DEF ToldInv
  <2>1. c \notin S
    BY <1>1
  <2>2. card'[c] = card[c]
    BY <1>3, <2>1
  <2>3. card[c].ran \/ \E v \in Workers : att[v].at = "ran" /\ att[v].card = c
    BY <2>2 DEF ToldInv, ByServer
  <2>4. \A v \in Workers : att[v].at = "ran" => att'[v] = att[v]
    BY <1>6
  <2> QED
    BY <2>2, <2>3, <2>4
<1>15. \A c \in Cards : Owns(w, c)' => /\ work'[c].times = 0
                                       /\ Owns(w, c) \/ \A v \in Workers : ~Owns(v, c)
  BY <1>1, <1>11, <1>12
<1>16. IInv'
  BY <1>6, <1>7, <1>8, <1>10, <1>13, <1>14, <1>15, OneRequest
<1> QED
  BY <1>7, <1>16

LEMMA ApproveKeeps ==
  ASSUME IInv, NEW w \in Workers, NEW c \in Cards, NEW x \in Changes, Approve(w, c, x)
  PROVE  IInv' /\ Kept
<1> DEFINE t == [d \in {c} |-> x]
           S == {c}
<1>1. PICK a \in Releases({c} \cap {d \in Cards : Effectful(d)}, t) : att' = [att EXCEPT ![w] = a]
  BY DEF Approve
<1>2. {c} \cap {d \in Cards : Effectful(d)} = {d \in S : Effectful(d)}
  OBVIOUS
<1>3. \A d \in S : card[d].status = "pending" /\ t[d] \in Changes
  BY DEF Approve, Open
<1>4. card' = [d \in Cards |-> IF d \in S THEN Decided(d, "approved", t[d]) ELSE card[d]]
  BY DEF Approve, IInv, TypeOK
<1>5. att[w].at = "idle" /\ UNCHANGED <<work, version, upsets, shaken>> /\ S \in SUBSET Cards
  BY DEF Approve
<1> HIDE DEF t, S
<1> QED
  BY <1>1, <1>2, <1>3, <1>4, <1>5, Decision

LEMMA BundleKeeps ==
  ASSUME IInv, NEW w \in Workers, NEW S \in SUBSET Cards, ApproveBundle(w, S)
  PROVE  IInv' /\ Kept
<1> DEFINE t == [c \in S |-> card[c].change]
<1>1. PICK a \in Releases({c \in S : Effectful(c)}, t) : att' = [att EXCEPT ![w] = a]
  BY DEF ApproveBundle
<1>2. \A c \in S : card[c].status = "pending" /\ t[c] \in Changes
  BY DEF ApproveBundle, Open, IInv, TypeOK, CardRows
<1>3. card' = [c \in Cards |-> IF c \in S THEN Decided(c, "approved", t[c]) ELSE card[c]]
  BY DEF ApproveBundle
<1>4. att[w].at = "idle" /\ UNCHANGED <<work, version, upsets, shaken>>
  BY DEF ApproveBundle
<1> HIDE DEF t
<1> QED
  BY <1>1, <1>2, <1>3, <1>4, Decision

-----------------------------------------------------------------------------
\* What a request reads, fails at or forgets.
LEMMA LeaveKeeps ==
  ASSUME IInv, NEW w \in Workers, Leave(w), att[w].at # "ran",
         UNCHANGED <<card, work, version, shaken>>, upsets' \in 0..MaxUpsets
  PROVE  IInv' /\ Kept
<1>1. PICK a \in Attempts : /\ att' = [att EXCEPT ![w] = a]
                            /\ Takes(a, att[w].todo)
                            /\ a = Idle \/ a.change = card[a.card].change
  BY Leaving DEF IInv
<1>2. Kept
  BY DEF Kept, Out, Approved
<1>3. Holds(w)' /\ \A c \in Cards : Owns(w, c)' => Owns(w, c)
  BY <1>1, <1>2, GoesOn
<1>4. shaken \subseteq shaken' /\ shaken' \subseteq Cards
  BY DEF IInv, TypeOK
<1> QED
  BY <1>1, <1>3, <1>4, AttOnly

LEMMA FailsKeeps ==
  ASSUME IInv, NEW w \in Workers, Fails(w), att[w].at \in {"effect", "checked", "write"},
         UNCHANGED <<card, work, version, shaken>>, upsets' \in 0..MaxUpsets
  PROVE  IInv' /\ Kept
<1>1. CASE card[att[w].card].kind = "call"
  BY <1>1, LeaveKeeps DEF Fails
<1>2. CASE card[att[w].card].kind # "call"
  <2> DEFINE a == [att[w] EXCEPT !.at = "failed"]
  <2>1. Holds(w) /\ OnCard(w) /\ att[w] \in Attempts
    BY DEF IInv, TypeOK, HoldInv, Holds
  <2>2. a \in Attempts /\ a.at = "failed" /\ a.card = att[w].card /\ a.todo = att[w].todo
        /\ a.change = att[w].change /\ a.ran = att[w].ran
    BY <2>1 DEF Attempts, Positions
  <2>3. att' = [att EXCEPT ![w] = a] /\ att'[w] = a
    BY <1>2 DEF Fails, IInv, TypeOK
  <2> HIDE DEF a
  <2>4. OnCard(w)'
    BY <1>2, <2>1, <2>2, <2>3 DEF OnCard, Approved
  <2>5. Holds(w)' /\ \A c \in Cards : Owns(w, c)' => Owns(w, c)
    BY <2>1, <2>2, <2>3, <2>4 DEF Holds, Owns, Approved
  <2>6. shaken \subseteq shaken' /\ shaken' \subseteq Cards
    BY DEF IInv, TypeOK
  <2> QED
    BY <2>2, <2>3, <2>5, <2>6, AttOnly
<1> QED
  BY <1>1, <1>2

LEMMA ReDriveKeeps ==
  ASSUME IInv, NEW w \in Workers, NEW c \in Cards, ReDrive(w, c)
  PROVE  IInv' /\ Kept
<1> USE DEF IInv, TypeOK
<1> DEFINE a == [at |-> "effect", card |-> c, change |-> card[c].change,
                 failed |-> card[c].failed, ran |-> card[c].ran, todo |-> {}]
<1>1. card[c] \in CardRows /\ Approved(c) /\ card[c].kind \notin {"call", "stepup"} /\ card[c].ran = FALSE
  <2>1. card[c] \in CardRows /\ Approved(c) /\ ~card[c].consumed /\ card[c].kind \notin {"call", "stepup"}
    BY DEF ReDrive, OwesItsEffect, ByServer, ServerKinds, Approved
  <2>2. work[c].times # 1
    BY <2>1 DEF WorkInv
  <2> QED
    BY <2>1, <2>2 DEF RowInv, CardRows
<1>2. a \in Attempts
  BY <1>1 DEF Attempts, Positions, CardRows
<1>3. att' = [att EXCEPT ![w] = a] /\ att'[w] = a /\ att[w].at = "idle"
  BY DEF ReDrive
<1>4. Holds(w)' /\ \A d \in Cards : Owns(w, d)' => Owns(w, d)
  BY <1>1, <1>3 DEF ReDrive, Holds, OnCard, Owns, Approved
<1> HIDE DEF a
<1> QED
  BY <1>2, <1>3, <1>4, AttOnly DEF ReDrive

LEMMA CallKeeps ==
  ASSUME IInv, NEW w \in Workers, NEW c \in Cards, NEW x \in Changes, Call(w, c, x)
  PROVE  IInv' /\ Kept
<1> USE DEF IInv, TypeOK
<1> DEFINE a == [Idle EXCEPT !.at = "effect", !.card = c, !.change = x]
<1>1. a \in Attempts /\ a.at = "effect" /\ a.card = c /\ a.todo = {}
  <2> DEFINE p == [Idle EXCEPT !.at = "effect"]
             q == [p EXCEPT !.card = c]
  <2>1. p \in Attempts /\ p.at = "effect" /\ p.todo = {}
    BY Fillers DEF Attempts, Positions, Idle
  <2>2. a = [q EXCEPT !.change = x]
    OBVIOUS
  <2> HIDE DEF p, a
  <2>3. q \in Attempts /\ q.at = "effect" /\ q.card = c /\ q.todo = {}
    BY <2>1 DEF Attempts
  <2> HIDE DEF q
  <2> QED
    BY <2>2, <2>3 DEF Attempts
<1>2. att' = [att EXCEPT ![w] = a] /\ att'[w] = a /\ att[w].at = "idle"
  BY DEF Call
<1> HIDE DEF a
<1>3. Holds(w)' /\ \A d \in Cards : Owns(w, d)' => Owns(w, d)
  BY <1>1, <1>2 DEF Call, Holds, OnCard, Owns
<1> QED
  BY <1>1, <1>2, <1>3, AttOnly DEF Call

LEMMA CheckKeeps ==
  ASSUME IInv, NEW w \in Workers, Check(w)
  PROVE  IInv' /\ Kept
<1> USE DEF IInv, TypeOK
<1> DEFINE c == att[w].card
           a == [att[w] EXCEPT !.at = "checked"]
<1>1. upsets' \in 0..MaxUpsets /\ UNCHANGED <<card, work, version, upsets, shaken>> /\ att[w].at = "effect"
      /\ card[c].kind # "stepup"
  BY DEF Check
<1>2. CASE Redeemable(c, att[w].change)
  <2>1. att' = [att EXCEPT ![w] = a]
    BY <1>2 DEF Check, Redeemable
  <2>2. Holds(w) /\ OnCard(w) /\ att[w] \in Attempts
    BY <1>1 DEF HoldInv, Holds
  <2>3. a \in Attempts /\ a.at = "checked" /\ a.card = c /\ a.todo = att[w].todo
        /\ a.change = att[w].change /\ a.ran = att[w].ran
    BY <2>2 DEF Attempts, Positions
  <2>4. att'[w] = a
    BY <2>1
  <2>5. Approved(c) /\ card[c].change = att[w].change
    BY <1>2 DEF Redeemable, Approved
  <2> HIDE DEF a
  <2>6. OnCard(w)'
    BY <1>1, <2>2, <2>3, <2>4, <2>5 DEF OnCard, Approved
  <2>7. Holds(w)' /\ \A d \in Cards : Owns(w, d)' => Owns(w, d)
    BY <1>1, <2>2, <2>3, <2>4, <2>6 DEF Holds, Owns, Approved
  <2> QED
    BY <1>1, <2>1, <2>3, <2>7, AttOnly
<1>3. CASE ~Redeemable(c, att[w].change) /\ Leave(w)
  BY <1>1, <1>3, LeaveKeeps
<1>4. CASE ~Redeemable(c, att[w].change) /\ Fails(w)
  BY <1>1, <1>4, FailsKeeps
<1> QED
  BY <1>2, <1>3, <1>4 DEF Check

\* A lost reply, or a death, leaves the card shaken.
LEMMA LostKeeps ==
  ASSUME IInv, NEW w \in Workers, Unheard(w) \/ Crash(w)
  PROVE  IInv' /\ Kept
<1> USE DEF IInv, TypeOK
<1>1. att[w].at # "idle" /\ UNCHANGED <<card, work, version>> /\ upsets' \in 0..MaxUpsets
  <2>1. upsets < MaxUpsets /\ upsets' = upsets + 1 /\ MaxUpsets \in Nat
    BY ApprovalsAssumption DEF Unheard, Crash
  <2> QED
    BY <2>1 DEF Unheard, Crash
<1>2. Holds(w) /\ OnCard(w) /\ att[w] \in Attempts
  BY <1>1 DEF HoldInv, Holds
<1>3. shaken \subseteq shaken' /\ shaken' \subseteq Cards /\ att[w].card \in shaken'
  BY <1>2 DEF Unheard, Crash, OnCard, Attempts
<1>4. CASE Unheard(w)
  <2> DEFINE a == [att[w] EXCEPT !.at = "failed"]
  <2>1. a \in Attempts /\ a.at = "failed" /\ a.card = att[w].card /\ a.todo = att[w].todo
        /\ a.change = att[w].change /\ a.ran = att[w].ran
    BY <1>2 DEF Attempts, Positions
  <2>2. att' = [att EXCEPT ![w] = a] /\ att'[w] = a /\ att[w].at = "ran"
    BY <1>4 DEF Unheard
  <2> HIDE DEF a
  <2>3. OnCard(w)'
    BY <1>1, <1>2, <2>1, <2>2 DEF OnCard, Approved
  <2>4. Holds(w)' /\ \A c \in Cards : Owns(w, c)' => Owns(w, c)
    BY <1>1, <1>2, <2>1, <2>2, <2>3 DEF Holds, Owns, Approved
  <2> QED
    BY <1>1, <1>3, <2>1, <2>2, <2>4, AttOnly
<1>5. CASE Crash(w)
  <2>1. att' = [att EXCEPT ![w] = Idle] /\ att'[w] = Idle
    BY <1>5 DEF Crash
  <2>2. Holds(w)' /\ \A c \in Cards : Owns(w, c)' => Owns(w, c)
    BY <2>1 DEF Idle, Holds, Owns
  <2> QED
    BY <1>1, <1>3, <2>1, <2>2, Fillers, AttOnly
<1> QED
  BY <1>4, <1>5

-----------------------------------------------------------------------------
\* What a request writes.
LEMMA SpendAndWriteKeeps ==
  ASSUME IInv, NEW w \in Workers, SpendAndWrite(w)
  PROVE  IInv' /\ Kept
<1> USE DEF IInv, TypeOK
<1> DEFINE c == att[w].card
           a == [att[w] EXCEPT !.at = "ran"]
           r == [card[c] EXCEPT !.consumed = TRUE]
           j == Worked(c, att[w].change)
<1>1. Holds(w) /\ OnCard(w) /\ att[w] \in Attempts /\ att[w].at = "checked"
  BY DEF SpendAndWrite, HoldInv, Holds
<1>2. /\ c \in Cards /\ c \notin att[w].todo /\ card[c] \in CardRows /\ Approved(c)
      /\ card[c].kind \in {"atomic", "pinned"} /\ ~card[c].consumed /\ card[c].change = att[w].change
      /\ UNCHANGED <<upsets, shaken>>
  BY <1>1 DEF SpendAndWrite, OnCard
<1>3. CASE ~Unmoved(c)
  BY <1>1, <1>2, <1>3, FailsKeeps DEF SpendAndWrite
<1>4. CASE Unmoved(c)
  <2>1. /\ card' = [card EXCEPT ![c] = r] /\ work' = [work EXCEPT ![c] = j]
        /\ version' = version + 1 /\ att' = [att EXCEPT ![w] = a]
    BY <1>4 DEF SpendAndWrite
  <2>2. /\ r \in CardRows /\ r.consumed /\ r.status = card[c].status /\ r.kind = card[c].kind
        /\ r.change = card[c].change /\ r.pin = card[c].pin /\ r.ran = card[c].ran /\ r.failed = card[c].failed
    BY <1>2, Fields DEF CardRows
  <2>3. work[c].times = 0
    BY <1>2 DEF WorkInv
  <2>4. j \in Works /\ j.times = 1 /\ j.change = card[c].change /\ (Pins(c) => j.on = card[c].pin)
    BY <1>1, <1>2, <1>4, <2>3 DEF Worked, Works, Unmoved, Attempts
  <2>5. a \in Attempts /\ a.at = "ran" /\ a.card = c /\ a.todo = att[w].todo
        /\ a.change = att[w].change /\ a.ran = att[w].ran
    BY <1>1 DEF Attempts, Positions
  <2> HIDE DEF a, r, j
  <2>6. TypeOK' /\ att'[w] = a /\ (\A v \in Workers \ {w} : att'[v] = att[v]) /\ card'[c] = r /\ work'[c] = j
        /\ \A d \in Cards \ {c} : card'[d] = card[d] /\ work'[d] = work[d]
    BY <1>2, <2>1, <2>2, <2>4, <2>5
  <2>7. Kept /\ WorkKept
    BY <2>2, <2>3, <2>6 DEF Kept, WorkKept, Out, Approved
  <2>8. RowInv'
    BY <1>2, <2>2, <2>4, <2>6 DEF RowInv, Approved, ByServer
  <2>9. WorkInv'
    BY <1>2, <2>2, <2>4, <2>6 DEF WorkInv, Approved, Pins
  <2>10. StageInv'
    BY <2>2, <2>6 DEF StageInv
  <2>11. OnCard(w)'
    BY <1>1, <1>2, <2>2, <2>4, <2>5, <2>6 DEF OnCard, Approved
  <2>12. Holds(w)'
    <3>1. \A d \in att[w].todo : d \in Cards /\ d # c
      BY <1>1, <1>2 DEF Attempts
    <3> QED
      BY <1>1, <2>5, <2>6, <2>11, <3>1 DEF Holds, Approved
  <2>13. \A v \in Workers : ~Owns(v, c)
    BY <1>1, <1>2 DEF Owns, HoldInv, Holds, OnCard
  <2>14. \A d \in Cards : Owns(w, d)' => d # c /\ Owns(w, d)
    BY <1>2, <2>2, <2>5, <2>6 DEF Owns
  <2>15. \A d \in Cards, v \in Workers : Owns(v, d) => work'[d].times = 0
    BY <2>6, <2>13 DEF OwnInv
  <2>16. ToldInv'
    <3> SUFFICES ASSUME NEW d \in Cards, work'[d].times = 1, ByServer(d)', d \notin shaken
                 PROVE  card'[d].ran \/ \E v \in Workers : att'[v].at = "ran" /\ att'[v].card = d
      BY <1>2 DEF ToldInv
    <3>1. CASE d = c
      BY <2>5, <2>6, <3>1
    <3>2. CASE d # c
      <4>1. card[d].ran \/ \E v \in Workers : att[v].at = "ran" /\ att[v].card = d
        BY <2>6, <3>2 DEF ToldInv, ByServer
      <4> QED
        BY <1>1, <2>6, <3>2, <4>1
    <3> QED
      BY <3>1, <3>2
  <2>17. IInv'
    BY <2>6, <2>7, <2>8, <2>9, <2>10, <2>12, <2>14, <2>15, <2>16, OneRequest
  <2> QED
    BY <2>7, <2>17
<1> QED
  BY <1>3, <1>4

LEMMA SpendKeeps ==
  ASSUME IInv, NEW w \in Workers, Spend(w)
  PROVE  IInv' /\ Kept
<1> USE DEF IInv, TypeOK
<1> DEFINE c == att[w].card
           a == [att[w] EXCEPT !.at = "write"]
           r == [card[c] EXCEPT !.consumed = TRUE]
<1>1. Holds(w) /\ OnCard(w) /\ att[w] \in Attempts /\ att[w].at = "checked"
  BY DEF Spend, HoldInv, Holds
<1>2. /\ c \in Cards /\ c \notin att[w].todo /\ card[c] \in CardRows /\ Approved(c)
      /\ card[c].kind \in {"split", "call"} /\ ~card[c].consumed /\ card[c].change = att[w].change
      /\ UNCHANGED <<work, version, upsets, shaken>>
      /\ card' = [card EXCEPT ![c] = r] /\ att' = [att EXCEPT ![w] = a]
  BY <1>1 DEF Spend, OnCard
<1>3. /\ r \in CardRows /\ r.consumed /\ r.status = card[c].status /\ r.kind = card[c].kind
      /\ r.change = card[c].change /\ r.pin = card[c].pin /\ r.ran = card[c].ran /\ r.failed = card[c].failed
  BY <1>2, Fields DEF CardRows
<1>4. work[c].times = 0
  BY <1>2 DEF WorkInv
<1>5. a \in Attempts /\ a.at = "write" /\ a.card = c /\ a.todo = att[w].todo
      /\ a.change = att[w].change /\ a.ran = att[w].ran
  BY <1>1 DEF Attempts, Positions
<1> HIDE DEF a, r
<1>6. TypeOK' /\ att'[w] = a /\ (\A v \in Workers \ {w} : att'[v] = att[v]) /\ card'[c] = r
      /\ \A d \in Cards \ {c} : card'[d] = card[d]
  BY <1>2, <1>3, <1>5
<1>7. Kept /\ WorkKept
  BY <1>2, <1>3, <1>6 DEF Kept, WorkKept, Out, Approved
<1>8. RowInv' /\ WorkInv' /\ StageInv'
  <2>1. RowInv'
    BY <1>2, <1>3, <1>6 DEF RowInv, Approved, ByServer
  <2>2. WorkInv'
    BY <1>2, <1>3, <1>6 DEF WorkInv, Approved, Pins
  <2>3. StageInv'
    BY <1>3, <1>6 DEF StageInv
  <2> QED
    BY <2>1, <2>2, <2>3
<1>9. OnCard(w)'
  BY <1>1, <1>2, <1>3, <1>5, <1>6 DEF OnCard, Approved
<1>10. Holds(w)'
  <2>1. \A d \in att[w].todo : d \in Cards /\ d # c
    BY <1>1, <1>2 DEF Attempts
  <2> QED
    BY <1>1, <1>5, <1>6, <1>9, <2>1 DEF Holds, Approved
<1>11. \A v \in Workers : ~Owns(v, c)
  BY <1>1, <1>2 DEF Owns, HoldInv, Holds, OnCard
<1>12. \A d \in Cards, v \in Workers : Owns(v, d) => work'[d].times = 0
  BY <1>2 DEF OwnInv
<1>13. \A d \in Cards : Owns(w, d)' => /\ work'[d].times = 0
                                       /\ Owns(w, d) \/ \A v \in Workers : ~Owns(v, d)
  <2> SUFFICES ASSUME NEW d \in Cards, Owns(w, d)', d # c
               PROVE  Owns(w, d)
    BY <1>2, <1>4, <1>11, <1>12
  <2> QED
    BY <1>5, <1>6 DEF Owns
<1>14. ToldInv'
  <2> SUFFICES ASSUME NEW d \in Cards, work[d].times = 1, ByServer(d)', d \notin shaken
               PROVE  card'[d].ran \/ \E v \in Workers : att'[v].at = "ran" /\ att'[v].card = d
    BY <1>2 DEF ToldInv
  <2>1. card[d].ran \/ \E v \in Workers : att[v].at = "ran" /\ att[v].card = d
    BY <1>3, <1>6 DEF ToldInv, ByServer
  <2> QED
    BY <1>1, <1>3, <1>6, <2>1
<1>15. IInv'
  BY <1>6, <1>7, <1>8, <1>10, <1>12, <1>13, <1>14, OneRequest
<1> QED
  BY <1>7, <1>15

\* The work that an owner does, and the place a it goes to.
LEMMA OwnedWork ==
  ASSUME IInv, NEW w \in Workers, NEW c \in Cards, c = att[w].card, Owns(w, c), Unmoved(c),
         att[w].at # "idle", att[w].at # "ran",
         work' = [work EXCEPT ![c] = Worked(c, att[w].change)],
         version' \in Nat, UNCHANGED <<card, upsets, shaken>>,
         card[c].kind = "stepup" \/ card[c].consumed,
         NEW a \in Attempts, att' = [att EXCEPT ![w] = a],
         \/ a = [att[w] EXCEPT !.at = "ran"] /\ card[c].kind # "call"
         \/ Takes(a, att[w].todo) /\ (a = Idle \/ a.change = card[a.card].change) /\ ~ByServer(c)
  PROVE  IInv' /\ Kept
<1> USE DEF IInv, TypeOK
<1> DEFINE j == Worked(c, att[w].change)
<1>1. Holds(w) /\ OnCard(w) /\ att[w] \in Attempts
  BY DEF HoldInv, Holds
<1>2. /\ c \notin att[w].todo /\ card[c] \in CardRows /\ Approved(c) /\ work[c].times = 0
      /\ \A v \in Workers : Owns(v, c) => v = w
  BY <1>1, OwnersApproved DEF OnCard, OwnInv
<1>3. card[c].change = att[w].change
  BY <1>1 DEF OnCard, Owns
<1>4. j \in Works /\ j.times = 1 /\ j.change = card[c].change /\ (Pins(c) => j.on = card[c].pin)
  BY <1>1, <1>2, <1>3 DEF Worked, Works, Unmoved, Attempts
<1> HIDE DEF j
<1>5. TypeOK' /\ att'[w] = a /\ (\A v \in Workers \ {w} : att'[v] = att[v]) /\ work'[c] = j
      /\ \A d \in Cards \ {c} : work'[d] = work[d]
  BY <1>4 DEF j
<1>6. Kept /\ WorkKept
  BY <1>2, <1>5 DEF Kept, WorkKept, Out, Approved
<1>7. RowInv' /\ StageInv'
  BY <1>2, <1>4, <1>5 DEF RowInv, StageInv, Approved, ByServer
<1>8. WorkInv'
  BY <1>2, <1>4, <1>5 DEF WorkInv, Approved, Pins
<1>9. Holds(w)' /\ \A d \in Cards : Owns(w, d)' => d # c /\ Owns(w, d)
  <2>1. CASE Takes(a, att[w].todo) /\ (a = Idle \/ a.change = card[a.card].change)
    <3>1. \A d \in Cards : Owns(w, d)' => d # c
      <4>1. a # Idle => a.at = "effect" /\ a.card # c /\ c \notin a.todo
        BY <1>2, <2>1 DEF Takes
      <4>2. a = Idle => a.at = "idle" /\ a.todo = {}
        BY DEF Idle
      <4> QED
        BY <1>5, <4>1, <4>2 DEF Owns
    <3> QED
      BY <1>6, <2>1, <3>1, GoesOn
  <2>2. CASE a = [att[w] EXCEPT !.at = "ran"] /\ card[c].kind # "call"
    <3>1. a.at = "ran" /\ a.card = c /\ a.todo = att[w].todo /\ a.change = att[w].change /\ a.ran = att[w].ran
      BY <1>1, <2>2 DEF Attempts
    <3>2. OnCard(w)'
      BY <1>1, <1>2, <1>4, <1>5, <2>2, <3>1 DEF OnCard, Approved
    <3>3. Holds(w)'
      BY <1>1, <1>5, <3>1, <3>2 DEF Holds, Approved
    <3> QED
      BY <1>2, <1>5, <3>1, <3>3 DEF Owns
  <2> QED
    BY <2>1, <2>2
<1>10. \A d \in Cards, v \in Workers \ {w} : Owns(v, d) => work'[d].times = 0
  BY <1>2, <1>5 DEF OwnInv
<1>11. \A d \in Cards : Owns(w, d)' => work'[d].times = 0 /\ Owns(w, d)
  BY <1>5, <1>9 DEF OwnInv
<1>12. ToldInv'
  <2> SUFFICES ASSUME NEW d \in Cards, work'[d].times = 1, ByServer(d), d \notin shaken
               PROVE  card[d].ran \/ \E v \in Workers : att'[v].at = "ran" /\ att'[v].card = d
    BY DEF ToldInv, ByServer
  <2>1. CASE d = c
    <3>1. a.at = "ran" /\ a.card = c
      BY <1>1, <2>1 DEF Attempts
    <3> QED
      BY <1>5, <2>1, <3>1
  <2>2. CASE d # c
    <3>1. card[d].ran \/ \E v \in Workers : att[v].at = "ran" /\ att[v].card = d
      BY <1>5, <2>2 DEF ToldInv
    <3> QED
      BY <1>5, <3>1
  <2> QED
    BY <2>1, <2>2
<1>13. IInv'
  BY <1>5, <1>6, <1>7, <1>8, <1>9, <1>10, <1>11, <1>12, OneRequest
<1> QED
  BY <1>6, <1>13

LEMMA WriteKeeps ==
  ASSUME IInv, NEW w \in Workers, Write(w)
  PROVE  IInv' /\ Kept
<1> USE DEF IInv, TypeOK
<1> DEFINE c == att[w].card
           a == [att[w] EXCEPT !.at = "ran"]
<1>1. Holds(w) /\ OnCard(w) /\ att[w] \in Attempts /\ att[w].at = "write"
  BY DEF Write, HoldInv, Holds
<1>2. c \in Cards /\ Owns(w, c) /\ card[c].consumed /\ UNCHANGED <<card, upsets, shaken>>
  BY <1>1 DEF Write, OnCard, Owns
<1>3. CASE ~Unmoved(c)
  BY <1>1, <1>2, <1>3, FailsKeeps DEF Write
<1>4. CASE Unmoved(c)
  <2>1. work' = [work EXCEPT ![c] = Worked(c, att[w].change)] /\ version' \in Nat
    BY <1>4 DEF Write
  <2>2. CASE card[c].kind = "call"
    <3>1. Leave(w)
      BY <1>4, <2>2 DEF Write
    <3>2. PICK b \in Attempts : /\ att' = [att EXCEPT ![w] = b]
                                /\ Takes(b, att[w].todo)
                                /\ b = Idle \/ b.change = card[b.card].change
      BY <3>1, Leaving
    <3>3. ~ByServer(c)
      BY <2>2 DEF ByServer, ServerKinds
    <3> QED
      BY <1>1, <1>2, <1>4, <2>1, <3>2, <3>3, OwnedWork
  <2>3. CASE card[c].kind # "call"
    <3>1. att' = [att EXCEPT ![w] = a] /\ a \in Attempts
      BY <1>1, <1>4, <2>3 DEF Write, Attempts, Positions
    <3> QED
      BY <1>1, <1>2, <1>4, <2>1, <2>3, <3>1, OwnedWork
  <2> QED
    BY <2>2, <2>3
<1> QED
  BY <1>3, <1>4

LEMMA ReleaseKeeps ==
  ASSUME IInv, NEW w \in Workers, Release(w)
  PROVE  IInv' /\ Kept
<1> USE DEF IInv, TypeOK
<1> DEFINE c == att[w].card
           a == [att[w] EXCEPT !.at = "ran"]
<1>1. Holds(w) /\ OnCard(w) /\ att[w] \in Attempts /\ att[w].at = "effect" /\ card[c].kind = "stepup"
  BY DEF Release, HoldInv, Holds
<1>2. c \in Cards /\ Owns(w, c) /\ Unmoved(c) /\ UNCHANGED <<card, version, upsets, shaken>>
  BY <1>1 DEF Release, OnCard, Owns, Unmoved, Pins, Pinning
<1>3. work' = [work EXCEPT ![c] = Worked(c, att[w].change)] /\ att' = [att EXCEPT ![w] = a] /\ a \in Attempts
  BY <1>1 DEF Release, Attempts, Positions
<1> QED
  BY <1>1, <1>2, <1>3, OwnedWork

-----------------------------------------------------------------------------
\* The outcome of an effect is written on its card.
LEMMA Recorded ==
  ASSUME IInv, NEW w \in Workers, Leave(w), NEW c \in Cards, c = att[w].card,
         att[w].at \in {"ran", "failed"}, NEW r \in CardRows, card' = [card EXCEPT ![c] = r],
         r.status = card[c].status, r.kind = card[c].kind, r.change = card[c].change,
         r.pin = card[c].pin, r.consumed = card[c].consumed,
         r.ran => work[c].times = 1,
         r.ran /\ ByServer(c) => r.failed = 0,
         card[c].ran \/ att[w].at = "ran" => r.ran,
         UNCHANGED <<work, version, upsets, shaken>>
  PROVE  IInv' /\ Kept
<1> USE DEF IInv, TypeOK
<1>1. PICK a \in Attempts : /\ att' = [att EXCEPT ![w] = a]
                            /\ Takes(a, att[w].todo)
                            /\ a = Idle \/ a.change = card[a.card].change
  BY Leaving
<1>2. TypeOK' /\ card'[c] = r /\ (\A d \in Cards \ {c} : card'[d] = card[d])
      /\ \A v \in Workers \ {w} : att'[v] = att[v]
  BY <1>1
<1>3. Kept /\ WorkKept
  BY <1>2 DEF Kept, WorkKept, Out, Approved
<1>4. RowInv'
  BY <1>2 DEF RowInv, Approved, ByServer
<1>5. WorkInv' /\ StageInv'
  <2>1. WorkInv'
    BY <1>2 DEF WorkInv, Approved, Pins
  <2>2. StageInv'
    BY <1>2 DEF StageInv
  <2> QED
    BY <2>1, <2>2
<1>6. Holds(w)' /\ \A d \in Cards : Owns(w, d)' => Owns(w, d)
  BY <1>1, <1>3, GoesOn
<1>7. \A d \in Cards, v \in Workers : Owns(v, d) => work'[d].times = 0
  BY DEF OwnInv
<1>8. ToldInv'
  <2> SUFFICES ASSUME NEW d \in Cards, work[d].times = 1, ByServer(d)', d \notin shaken
               PROVE  card'[d].ran \/ \E v \in Workers : att'[v].at = "ran" /\ att'[v].card = d
    BY DEF ToldInv
  <2>1. card[d].ran \/ \E v \in Workers : att[v].at = "ran" /\ att[v].card = d
    BY <1>2 DEF ToldInv, ByServer
  <2> QED
    BY <1>2, <2>1
<1>9. IInv'
  BY <1>2, <1>3, <1>4, <1>5, <1>6, <1>7, <1>8, OneRequest
<1> QED
  BY <1>3, <1>9

LEMMA RecordKeeps ==
  ASSUME IInv, NEW w \in Workers, RecordRan(w) \/ RecordFailed(w)
  PROVE  IInv' /\ Kept
<1> USE DEF IInv, TypeOK
<1> DEFINE c == att[w].card
<1>1. Holds(w) /\ OnCard(w) /\ att[w] \in Attempts /\ att[w].at \in {"ran", "failed"} /\ Leave(w)
      /\ UNCHANGED <<work, version, upsets, shaken>>
  BY DEF RecordRan, RecordFailed, HoldInv, Holds
<1>2. c \in Cards /\ card[c] \in CardRows /\ card[c].kind # "call"
  BY <1>1 DEF OnCard
<1>3. CASE RecordRan(w)
  <2> DEFINE r == [card[c] EXCEPT !.ran = TRUE, !.failed = 0]
  <2>1. card' = [card EXCEPT ![c] = r] /\ att[w].at = "ran" /\ work[c].times = 1
    BY <1>1, <1>2, <1>3 DEF RecordRan, OnCard
  <2>2. r \in CardRows
    <3>1. [card[c] EXCEPT !.ran = TRUE] \in CardRows
      BY <1>2, Fields
    <3> QED
      BY <3>1, Fields
  <2>3. r.ran /\ r.failed = 0 /\ r.status = card[c].status /\ r.kind = card[c].kind
        /\ r.change = card[c].change /\ r.pin = card[c].pin /\ r.consumed = card[c].consumed
    BY <1>2 DEF CardRows
  <2> HIDE DEF r
  <2> QED
    BY <1>1, <1>2, <2>1, <2>2, <2>3, Recorded
<1>4. CASE RecordFailed(w) /\ SetOutFrom(w)
  <2> DEFINE r == [card[c] EXCEPT !.failed = card[c].failed + 1]
  <2>1. card' = [card EXCEPT ![c] = r] /\ att[w].at = "failed"
    BY <1>2, <1>4 DEF RecordFailed
  <2>2. r \in CardRows
    <3>1. card[c].failed + 1 \in Nat
      BY <1>2 DEF CardRows
    <3> QED
      BY <1>2, <3>1, Fields
  <2>3. r.ran = card[c].ran /\ r.status = card[c].status /\ r.kind = card[c].kind
        /\ r.change = card[c].change /\ r.pin = card[c].pin /\ r.consumed = card[c].consumed
    BY <1>2 DEF CardRows
  <2>4. card[c].ran = FALSE
    BY <1>1, <1>2, <1>4 DEF SetOutFrom, OnCard
  <2> HIDE DEF r
  <2> QED
    BY <1>1, <1>2, <2>1, <2>2, <2>3, <2>4, Recorded
<1>5. CASE RecordFailed(w) /\ ~SetOutFrom(w)
  <2>1. card' = [card EXCEPT ![c] = card[c]] /\ att[w].at = "failed"
    BY <1>2, <1>5 DEF RecordFailed
  <2>2. (card[c].ran => work[c].times = 1) /\ (card[c].ran /\ ByServer(c) => card[c].failed = 0)
    BY <1>2 DEF RowInv
  <2> QED
    BY <1>1, <1>2, <2>1, <2>2, Recorded
<1> QED
  BY <1>3, <1>4, <1>5

-----------------------------------------------------------------------------
LEMMA InitHolds == Init => IInv
<1> SUFFICES ASSUME Init PROVE IInv
  OBVIOUS
<1> USE DEF Init
<1>1. TypeOK
  BY Fillers, ApprovalsAssumption DEF TypeOK, Works
<1>2. RowInv /\ WorkInv
  BY DEF RowInv, WorkInv, Blank
<1>3. HoldInv /\ OwnInv
  BY DEF HoldInv, Holds, OwnInv, Owns, Idle
<1>4. ToldInv /\ StageInv
  BY DEF ToldInv, StageInv, Blank
<1> QED
  BY <1>1, <1>2, <1>3, <1>4 DEF IInv

LEMMA MoveKeeps ==
  ASSUME IInv, Move
  PROVE  IInv' /\ Kept
<1>1. upsets' \in 0..MaxUpsets /\ version' \in Nat /\ UNCHANGED <<card, work, att, shaken>>
  BY ApprovalsAssumption DEF Move, IInv, TypeOK
<1>2. TypeOK' /\ RowInv' /\ WorkInv' /\ Kept
  BY <1>1 DEF IInv, TypeOK, RowInv, WorkInv, Kept, Out, Approved, ByServer, Pins
<1>3. HoldInv' /\ OwnInv'
  BY <1>1 DEF IInv, HoldInv, Holds, OnCard, OwnInv, Owns, Approved
<1>4. ToldInv' /\ StageInv'
  BY <1>1 DEF IInv, ToldInv, StageInv, ByServer
<1> QED
  BY <1>2, <1>3, <1>4 DEF IInv

LEMMA FaultKeeps ==
  ASSUME IInv, NEW w \in Workers, Fault(w)
  PROVE  IInv' /\ Kept
<1>1. upsets' \in 0..MaxUpsets
  BY ApprovalsAssumption DEF Fault, IInv, TypeOK
<1> QED
  BY <1>1, FailsKeeps DEF Fault

\* A step of one request.
LEMMA WorkerKeeps ==
  ASSUME IInv, NEW w \in Workers,
         Deciding(w) \/ Working(w) \/ Fault(w) \/ Unheard(w) \/ Crash(w)
  PROVE  IInv' /\ Kept
<1>1. CASE Deciding(w)
  <2>1. ASSUME NEW c \in Cards, Reject(w, c)
        PROVE  IInv' /\ Kept
    BY <2>1, CalmKeeps DEF CardsOnly
  <2>2. ASSUME NEW c \in Cards, ReDrive(w, c)
        PROVE  IInv' /\ Kept
    BY <2>2, ReDriveKeeps
  <2>3. ASSUME NEW c \in Cards, NEW x \in Changes, Approve(w, c, x) \/ Call(w, c, x)
        PROVE  IInv' /\ Kept
    BY <2>3, ApproveKeeps, CallKeeps
  <2>4. ASSUME NEW S \in SUBSET Cards, ApproveBundle(w, S)
        PROVE  IInv' /\ Kept
    BY <2>4, BundleKeeps
  <2> QED
    BY <1>1, <2>1, <2>2, <2>3, <2>4 DEF Deciding
<1>2. CASE Working(w)
  <2>1. CASE TooLate(w)
    <3>1. upsets' \in 0..MaxUpsets
      BY <2>1 DEF TooLate, IInv, TypeOK
    <3> QED
      BY <2>1, <3>1, LeaveKeeps DEF TooLate
  <2> QED
    BY <1>2, <2>1, CheckKeeps, SpendAndWriteKeeps, SpendKeeps, WriteKeeps, ReleaseKeeps, RecordKeeps
       DEF Working
<1> QED
  BY <1>1, <1>2, FaultKeeps, LostKeeps

LEMMA NextKeeps ==
  ASSUME IInv, [Next]_vars
  PROVE  IInv'
<1>1. ASSUME NEW c \in Cards, Staging(c) \/ Elapse(c) \/ Expire(c)
      PROVE  IInv'
  BY <1>1, CalmKeeps DEF CardsOnly
<1>2. CASE MarkLapsed
  BY <1>2, CalmKeeps DEF CardsOnly
<1>3. CASE UNCHANGED vars
  <2>1. TypeOK' /\ RowInv' /\ WorkInv'
    BY <1>3 DEF vars, IInv, TypeOK, RowInv, WorkInv, Approved, ByServer, Pins
  <2>2. HoldInv' /\ OwnInv'
    BY <1>3 DEF vars, IInv, HoldInv, Holds, OnCard, OwnInv, Owns, Approved
  <2>3. ToldInv' /\ StageInv'
    BY <1>3 DEF vars, IInv, ToldInv, StageInv, ByServer
  <2> QED
    BY <2>1, <2>2, <2>3 DEF IInv
<1> QED
  BY <1>1, <1>2, <1>3, WorkerKeeps, MoveKeeps DEF Next

\* The inductive invariant holds of every behaviour of the approval engine.
THEOREM Invariance == Spec => []IInv
<1> QED
  BY InitHolds, NextKeeps, PTL DEF Spec

\* Every row, request and counter keeps its type, whatever the interleaving.
THEOREM TypeCorrect == Spec => []TypeOK
<1>1. IInv => TypeOK
  BY DEF IInv
<1> QED
  BY <1>1, Invariance, PTL

\* The work of a card is done at most once, only for a yes, with the change that
\* was agreed to and over the record as it was staged, for any number of cards,
\* requests, re-drives, deaths and writes by others.
THEOREM ActedAsDecided == Spec => []ActsAsDecided
<1>1. IInv => ActsAsDecided
  BY DEF IInv, WorkInv, ActsAsDecided, Approved
<1> QED
  BY <1>1, Invariance, PTL

\* A failure mark left on a card of the server's is true: its work did not run.
THEOREM MarksAreTrue == Spec => []MarkIsTrue
<1>1. IInv => MarkIsTrue
  <2> SUFFICES ASSUME IInv, NEW c \in Cards, Quiet(c), ByServer(c), c \notin shaken,
                      card[c].failed # 0, work[c].times # 0
               PROVE  FALSE
    BY DEF MarkIsTrue
  <2>1. work[c].times = 1
    BY DEF IInv, WorkInv
  <2>2. card[c].ran
    BY <2>1 DEF IInv, ToldInv, Quiet
  <2> QED
    BY <2>2 DEF IInv, RowInv
<1> QED
  BY <1>1, Invariance, PTL

-----------------------------------------------------------------------------
\* What a step may do to one card, in the rows' own terms.
CardMove(c) ==
    \/ /\ card'[c].status = card[c].status
       /\ card'[c].change = card[c].change
       /\ card'[c].consumed = card[c].consumed
    \/ /\ card[c].status \in {"absent", "staging"}
       /\ card'[c].status \in {"absent", "staging", "pending"}
    \/ /\ card[c].status = "pending"
       /\ card'[c].status = "approved" /\ ~card'[c].consumed
    \/ /\ card[c].status = "pending"
       /\ card'[c].status \in {"rejected", "expired"}
       /\ card'[c].change = card[c].change
    \/ /\ card[c].status = "approved" /\ ~card[c].consumed
       /\ card'[c].status = "approved" /\ card'[c].consumed
       /\ card'[c].change = card[c].change

LEMMA StagingMoves ==
  ASSUME TypeOK, NEW d \in Cards, Staging(d)
  PROVE  /\ \A c \in Cards : CardMove(c)
         /\ \A c \in Cards : card[c].status = "staging" /\ card'[c].status = "pending" => Settle(c)
<1> USE DEF TypeOK, CardRows, CardMove, Blank
<1>1. ASSUME NEW k \in Kinds[d], NEW x \in Asked, Stage(d, k, x)
      PROVE  \A c \in Cards : CardMove(c) /\ ~(card[c].status = "staging" /\ card'[c].status = "pending")
  BY <1>1 DEF Stage
<1>2. ASSUME NEW k \in Kinds[d], NEW x \in Asked, Probe(d, k, x)
      PROVE  \A c \in Cards : CardMove(c) /\ ~(card[c].status = "staging" /\ card'[c].status = "pending")
  BY <1>2 DEF Probe
<1>3. CASE Settle(d)
  <2>1. ASSUME NEW c \in Cards, c # d
        PROVE  CardMove(c) /\ ~(card[c].status = "staging" /\ card'[c].status = "pending")
    <3>1. card'[c] = IF c \in Superseded(d) THEN Withdrawn(c) ELSE card[c]
      BY <1>3, <2>1 DEF Settle
    <3>2. c \in Superseded(d) => card[c].status = "pending"
      BY DEF Superseded, Live
    <3> QED
      BY <3>1, <3>2 DEF Withdrawn
  <2>2. CardMove(d)
    <3>1. card'[d] = Landed(d) /\ card[d].status = "staging"
      BY <1>3 DEF Settle
    <3> QED
      BY <3>1 DEF Landed
  <2> QED
    BY <1>3, <2>1, <2>2
<1>4. CASE Withdraw(d)
  BY <1>4 DEF Withdraw, Withdrawn
<1> QED
  BY <1>1, <1>2, <1>3, <1>4 DEF Staging

LEMMA StepMoves ==
  ASSUME IInv, [Next]_vars
  PROVE  /\ \A c \in Cards : CardMove(c)
         /\ \A c \in Cards : card[c].status = "staging" /\ card'[c].status = "pending" => Settle(c)
<1> DEFINE Settles == \A c \in Cards : card[c].status = "staging" /\ card'[c].status = "pending" => Settle(c)
           Moved == \A c \in Cards : CardMove(c)
<1> USE DEF IInv, TypeOK
<1>1. CASE UNCHANGED card
  BY <1>1 DEF CardMove
<1>2. ASSUME NEW c \in Cards, Staging(c)
      PROVE  Moved /\ Settles
  BY <1>2, StagingMoves
<1>3. ASSUME NEW c \in Cards, Elapse(c) \/ Expire(c)
      PROVE  Moved /\ Settles
  BY <1>3 DEF Elapse, Expire, CardMove, CardRows
<1>4. CASE MarkLapsed
  BY <1>4 DEF MarkLapsed, CardMove, CardRows
<1>5. ASSUME NEW w \in Workers, NEW c \in Cards, Reject(w, c)
      PROVE  Moved /\ Settles
  BY <1>5 DEF Reject, Open, Decided, CardMove, CardRows
<1>6. ASSUME NEW w \in Workers, NEW c \in Cards, NEW x \in Changes, Approve(w, c, x)
      PROVE  Moved /\ Settles
  <2>1. card[c].status = "pending" /\ card[c] \in CardRows /\ ~card[c].consumed
        /\ card' = [card EXCEPT ![c] = Decided(c, "approved", x)]
    BY <1>6 DEF Approve, Open, RowInv, Approved
  <2>2. Decided(c, "approved", x).status = "approved" /\ ~Decided(c, "approved", x).consumed
    BY <2>1 DEF Decided, CardRows
  <2> QED
    BY <2>1, <2>2 DEF CardMove
<1>7. ASSUME NEW w \in Workers, NEW S \in SUBSET Cards, ApproveBundle(w, S)
      PROVE  Moved /\ Settles
  <2> SUFFICES ASSUME NEW c \in Cards
               PROVE  CardMove(c) /\ ~(card[c].status = "staging" /\ card'[c].status = "pending")
    OBVIOUS
  <2>1. card'[c] = IF c \in S THEN Decided(c, "approved", card[c].change) ELSE card[c]
    BY <1>7 DEF ApproveBundle
  <2>2. c \in S => card[c].status = "pending" /\ ~card[c].consumed
    BY <1>7 DEF ApproveBundle, Open, RowInv, Approved
  <2>3. Decided(c, "approved", card[c].change).status = "approved"
        /\ Decided(c, "approved", card[c].change).consumed = card[c].consumed
    BY DEF Decided, CardRows
  <2> QED
    BY <2>1, <2>2, <2>3 DEF CardMove
<1>8. ASSUME NEW w \in Workers, SpendAndWrite(w) \/ Spend(w)
      PROVE  Moved /\ Settles
  <2> DEFINE d == att[w].card
  <2>1. OnCard(w) /\ att[w].at = "checked"
    BY <1>8 DEF SpendAndWrite, Spend, HoldInv, Holds
  <2>2. d \in Cards /\ card[d].status = "approved" /\ ~card[d].consumed
    BY <1>8, <2>1 DEF OnCard, Approved, SpendAndWrite, Spend
  <2>3. card' = [card EXCEPT ![d].consumed = TRUE] \/ UNCHANGED card
    BY <1>8 DEF SpendAndWrite, Spend
  <2> QED
    BY <2>2, <2>3 DEF CardMove, CardRows
<1>9. ASSUME NEW w \in Workers, RecordRan(w) \/ RecordFailed(w)
      PROVE  Moved /\ Settles
  <2> DEFINE d == att[w].card
             r == [card[d] EXCEPT !.ran = TRUE, !.failed = 0]
             s == [card[d] EXCEPT !.failed = card[d].failed + 1]
  <2>1. OnCard(w)
    BY <1>9 DEF RecordRan, RecordFailed, HoldInv, Holds
  <2>2. d \in Cards
    BY <2>1 DEF OnCard
  <2>3. card' = [card EXCEPT ![d] = r] \/ card' = [card EXCEPT ![d] = s] \/ UNCHANGED card
    BY <1>9, <2>2 DEF RecordRan, RecordFailed
  <2>4. \A q \in {r, s} : /\ q.status = card[d].status /\ q.change = card[d].change
                          /\ q.consumed = card[d].consumed
    BY <2>2 DEF CardRows
  <2> HIDE DEF r, s
  <2> QED
    BY <2>2, <2>3, <2>4 DEF CardMove
<1>10. CASE Next
  <2>1. ASSUME NEW w \in Workers, Deciding(w) \/ Working(w) \/ Fault(w) \/ Unheard(w) \/ Crash(w)
        PROVE  Moved /\ Settles
    <3>1. CASE Deciding(w)
      BY <1>1, <1>5, <1>6, <1>7, <3>1 DEF Deciding, ReDrive, Call
    <3>2. CASE Working(w)
      BY <1>1, <1>8, <1>9, <3>2 DEF Working, Check, TooLate, Write, Release
    <3>3. CASE Fault(w) \/ Unheard(w) \/ Crash(w)
      BY <1>1, <3>3 DEF Fault, Unheard, Crash
    <3> QED
      BY <2>1, <3>1, <3>2, <3>3
  <2>2. CASE Move
    BY <1>1, <2>2 DEF Move
  <2> QED
    BY <1>2, <1>3, <1>4, <1>10, <2>1, <2>2 DEF Next
<1> QED
  BY <1>1, <1>10 DEF vars

\* What a human refused is not put to them again over the refusal: a stager whose
\* probe found none commits with none, whoever decided in between.
THEOREM RefusalsAreRemembered == Spec => RefusalIsRemembered
<1> DEFINE A == \A c \in Cards :
          card[c].status = "staging" /\ card'[c].status = "pending"
              => \A d \in Cards \ {c} : ~(card[d].status = "rejected" /\ card[d].kind = card[c].kind)
<1>1. IInv => A
  BY DEF IInv, StageInv
<1>2. [][A]_vars <=> RefusalIsRemembered
  BY DEF RefusalIsRemembered
<1> HIDE DEF A
<1> QED
  BY <1>1, <1>2, Invariance, PTL

\* A card's move in the rows is a move of the promise.
LEMMA MovesAllowed ==
  ASSUME IInv, NEW c \in Cards, CardMove(c), card'[c] \in CardRows
  PROVE  /\ Verdict(c)' = Verdict(c) \/ <<Verdict(c), Verdict(c)'>> \in Authority!Moves
         /\ \/ card'[c].change = card[c].change
            \/ Verdict(c) = "none"
            \/ Verdict(c) = "open" /\ Verdict(c)' = "granted"
  BY DEF IInv, TypeOK, RowInv, Approved, CardMove, CardRows, Statuses, Verdict, Authority!Moves

\* The engine keeps what an approval promises: one verdict a card, a yes spent at
\* most once, and terms settled when it is given.
THEOREM AuthorityImplemented == Spec => ImplementsAuthority
<1> DEFINE V == [c \in Cards |-> Verdict(c)]
           T == [c \in Cards |-> card[c].change]
<1>1. Init => Authority!Init
  <2> SUFFICES ASSUME Init PROVE Authority!Init
    OBVIOUS
  <2>1. \A c \in Cards : Verdict(c) = "none" /\ card[c].change \in Changes
    BY Fillers DEF Init, Verdict, Blank
  <2> QED
    BY <2>1 DEF Authority!Init
<1>2. IInv /\ IInv' /\ [Next]_vars => [Authority!Next]_<<V, T>>
  <2> SUFFICES ASSUME IInv, IInv', [Next]_vars
               PROVE  Authority!Next
    OBVIOUS
  <2>1. \A c \in Cards : card[c] \in CardRows /\ card'[c] \in CardRows
    BY DEF IInv, TypeOK
  <2>2. \A c \in Cards :
           /\ Verdict(c)' = Verdict(c) \/ <<Verdict(c), Verdict(c)'>> \in Authority!Moves
           /\ \/ card'[c].change = card[c].change
              \/ Verdict(c) = "none"
              \/ Verdict(c) = "open" /\ Verdict(c)' = "granted"
    BY <2>1, StepMoves, MovesAllowed
  <2>3. \A c \in Cards : Verdict(c)' \in Authority!Verdicts /\ card'[c].change \in Changes
    BY <2>1 DEF Verdict, Authority!Verdicts, CardRows, Statuses
  <2> QED
    BY <2>2, <2>3 DEF Authority!Next, Authority!CardStep, Authority!MayChangeTerms
<1> QED
  BY <1>1, <1>2, Invariance, PTL DEF Spec, ImplementsAuthority, Authority!Spec

=============================================================================
