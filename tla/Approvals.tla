----------------------------- MODULE Approvals -----------------------------
(***************************************************************************)
(* The approval engine: a card is staged, a human (or several, or a bundle *)
(* decision) answers it, and the yes is spent exactly once, by the work it *)
(* released or by the agent that asked.  Everybody acts on one record,     *)
(* whose version every write moves.                                        *)
(*                                                                         *)
(* A kind of card is one of                                                *)
(*   "atomic"  its work redeems the card in the write's own transaction;   *)
(*   "pinned"  so does this one, and the write compares the version too;   *)
(*   "split"   redeems in one transaction, writes with the pin in another; *)
(*   "call"    asked by an agent, which redeems by repeating the call;     *)
(*   "stepup"  asked by an agent, and answered by widening its window.     *)
(* The first three are proposals of the server's.  Who may see, decide or  *)
(* edit a card, the payloads and the events are left out.  A kind is the   *)
(* whole of a proposal's identity here: every card is about one record.    *)
(***************************************************************************)
EXTENDS Naturals, FiniteSets

CONSTANTS
    Cards,      \* the cards that can ever be staged
    Kinds,      \* the kinds each of them may be staged as
    Standing,   \* the kinds whose subject waits for ever (noExpiryKinds)
    Changes,    \* what a card can stand for
    Asked,      \* what stagers and agents propose of it
    Workers,    \* requests in flight: deciders and agents
    None,       \* a worker's card when it has none
    MaxMarks,   \* bound: failure marks one card collects
    MaxUpsets   \* bound: writes by others to the record, failed attempts, lost
                \* replies and deaths, together

ServerKinds == {"atomic", "pinned", "split"}
AgentKinds == {"call", "stepup"}

ASSUME ApprovalsAssumption ==
    /\ Kinds \in [Cards -> SUBSET (ServerKinds \cup AgentKinds)]
    /\ Standing \subseteq ServerKinds
    /\ Changes # {} /\ Asked \subseteq Changes
    /\ None \notin Cards
    /\ MaxMarks \in Nat /\ MaxUpsets \in Nat

VARIABLES
    card,    \* the approval rows
    work,    \* what each card has brought about so far
    att,     \* the request each worker is on
    version, \* the record's version
    upsets,  \* writes by others and faults so far
    shaken   \* cards whose work once ended with nobody told how it went

vars == <<card, work, att, version, upsets, shaken>>

Statuses == {"absent", "staging", "pending", "approved", "rejected", "expired"}
Positions == {"idle", "effect", "checked", "write", "ran", "failed"}

CardRows == [status : Statuses, kind : ServerKinds \cup AgentKinds, change : Changes,
             pin : Nat, late : BOOLEAN, consumed : BOOLEAN, failed : Nat, ran : BOOLEAN]
Works == [times : Nat, change : Changes, on : Nat]
Attempts == [at : Positions, card : Cards \cup {None}, change : Changes,
             failed : Nat, ran : BOOLEAN, todo : SUBSET Cards]

AnyChange == CHOOSE x \in Changes : TRUE

Blank == [status |-> "absent", kind |-> "atomic", change |-> AnyChange, pin |-> 0,
          late |-> FALSE, consumed |-> FALSE, failed |-> 0, ran |-> FALSE]
Idle == [at |-> "idle", card |-> None, change |-> AnyChange,
         failed |-> 0, ran |-> FALSE, todo |-> {}]

Init ==
    /\ card = [c \in Cards |-> Blank]
    /\ work = [c \in Cards |-> [times |-> 0, change |-> AnyChange, on |-> 0]]
    /\ att = [w \in Workers |-> Idle]
    /\ version = 0
    /\ upsets = 0
    /\ shaken = {}

-----------------------------------------------------------------------------
\* Reading a row.

ByServer(c) == card[c].kind \in ServerKinds
Pinning == {"pinned", "split", "call"}
Pins(c) == card[c].kind \in Pinning

\* A pending card past its window reads as expired before anything sweeps it.
Open(c) == card[c].status = "pending" /\ (card[c].kind \in Standing \/ ~card[c].late)

\* The window to redeem a decided card: the clock flag of a decided card.
Lapsed(c) == card[c].late

OwesItsEffect(c) ==
    /\ card[c].status = "approved"
    /\ ~card[c].consumed
    /\ ByServer(c)
    /\ ~Lapsed(c)

\* A stager past its probe holds the identity and the rows it found under it.
IdentityFree(c, k) ==
    \A d \in Cards \ {c} : ~(card[d].status = "staging" /\ card[d].kind = k)

\* Mutant: the probe locks the identity and none of the offers it reads.
RowAlwaysFree(c) == TRUE

RowFree(c) == IdentityFree(c, card[c].kind)

\* Mutant: the pin is written down and never compared.
Unpinned(c) == TRUE

\* The record is as it was when the card was staged.
Unmoved(c) == Pins(c) => version = card[c].pin

-----------------------------------------------------------------------------
\* Staging.

\* Mutant: the pin is of the version before the one that was read.
PinBefore(k) == IF k \in Pinning THEN version - 1 ELSE 0

PinFor(k) == IF k \in Pinning THEN version ELSE 0

\* An agent's own call: the row and nothing else.
Stage(c, k, x) ==
    /\ card[c].status = "absent"
    /\ k \in AgentKinds \cap Kinds[c]
    /\ card' = [card EXCEPT ![c] = [Blank EXCEPT !.status = "pending", !.kind = k,
                                       !.change = x, !.pin = PinFor(k)]]
    /\ UNCHANGED <<work, att, version, upsets, shaken>>

\* A refused proposal of this kind, among the rows the probe locks.
Declined(k) == \E d \in Cards : card[d].status = "rejected" /\ card[d].kind = k

\* StageUnlessDeclined, first half: the identity, then every earlier offer.
Probe(c, k, x) ==
    /\ card[c].status = "absent"
    /\ k \in ServerKinds \cap Kinds[c]
    /\ IdentityFree(c, k)
    /\ ~Declined(k)
    /\ card' = [card EXCEPT ![c] = [Blank EXCEPT !.status = "staging", !.kind = k, !.change = x]]
    /\ UNCHANGED <<work, att, version, upsets, shaken>>

\* Its second half joins a live card for the same change, unless the record has
\* moved under it, and withdraws what the survivor replaces.
Live(c, k) == card[c].status = "pending" /\ card[c].kind = k /\ ~card[c].late
Twin(c) == {d \in Cards \ {c} : Live(d, card[c].kind) /\ card[d].change = card[c].change}
Joins(c) == {d \in Twin(c) : Unmoved(d)}

Superseded(c) ==
    LET survivor == IF Joins(c) = {} THEN {c} ELSE Joins(c)
    IN  {d \in Cards \ {c} : Live(d, card[c].kind)} \ survivor

\* Taken off the inbox, and backdated so that every clock agrees.
Withdrawn(c) == [card[c] EXCEPT !.status = "expired", !.late = TRUE]

Landed(c) ==
    IF Joins(c) = {}
    THEN [card[c] EXCEPT !.status = "pending", !.pin = PinFor(card[c].kind)]
    ELSE Blank

Settle(c) ==
    /\ card[c].status = "staging"
    /\ card' = [d \in Cards |-> IF d = c THEN Landed(c)
                                ELSE IF d \in Superseded(c) THEN Withdrawn(d) ELSE card[d]]
    /\ UNCHANGED <<work, att, version, upsets, shaken>>

\* The owner of the question takes it back.
Withdraw(c) ==
    /\ card[c].status = "pending"
    /\ RowFree(c)
    /\ card' = [card EXCEPT ![c] = Withdrawn(c)]
    /\ UNCHANGED <<work, att, version, upsets, shaken>>

-----------------------------------------------------------------------------
\* Deciding.

\* A step-up is answered yes or no; anything else may be edited on the way.
Editable(c) == IF card[c].kind = "stepup" THEN {card[c].change} ELSE Changes

\* What an approved row sets going: a server's effect or a step-up's.
Effectful(c) == card[c].kind # "call"

Decided(c, status, x) == [card[c] EXCEPT !.status = status, !.change = x, !.late = FALSE]

\* The request goes on to the effects of the cards in S, with the rows it decided.
Releases(S, x) ==
    IF S = {} THEN {Idle}
    ELSE {[at |-> "effect", card |-> c, change |-> x[c], failed |-> 0, ran |-> FALSE,
           todo |-> S \ {c}] : c \in S}

\* A rejection's own work, and its failure, are inside the transaction.
Reject(w, c) ==
    /\ att[w].at = "idle"
    /\ Open(c)
    /\ RowFree(c)
    /\ card' = [card EXCEPT ![c] = Decided(c, "rejected", card[c].change)]
    /\ UNCHANGED <<work, att, version, upsets, shaken>>

Approve(w, c, x) ==
    /\ att[w].at = "idle"
    /\ Open(c)
    /\ RowFree(c)
    /\ x \in Editable(c)
    /\ card' = [card EXCEPT ![c] = Decided(c, "approved", x)]
    /\ \E a \in Releases({c} \cap {d \in Cards : Effectful(d)}, [d \in {c} |-> x]) :
           att' = [att EXCEPT ![w] = a]
    /\ UNCHANGED <<work, version, upsets, shaken>>

\* A bundle: every open member whose preflight passed, in one transaction.
ApproveBundle(w, S) ==
    /\ att[w].at = "idle"
    /\ Cardinality(S) > 1
    /\ \A c \in S : Open(c) /\ RowFree(c)
    /\ card' = [c \in Cards |-> IF c \in S THEN Decided(c, "approved", card[c].change) ELSE card[c]]
    /\ \E a \in Releases({c \in S : Effectful(c)}, [c \in S |-> card[c].change]) :
           att' = [att EXCEPT ![w] = a]
    /\ UNCHANGED <<work, version, upsets, shaken>>

\* Approving again what is approved runs the work it still owes.
ReDrive(w, c) ==
    /\ att[w].at = "idle"
    /\ OwesItsEffect(c)
    /\ RowFree(c)
    /\ card[c].failed < MaxMarks
    /\ att' = [att EXCEPT ![w] = [at |-> "effect", card |-> c, change |-> card[c].change,
                                  failed |-> card[c].failed, ran |-> card[c].ran, todo |-> {}]]
    /\ UNCHANGED <<card, work, version, upsets, shaken>>

\* The agent repeats its call, with the change it asked for or the edited one.
Call(w, c, x) ==
    /\ att[w].at = "idle"
    /\ card[c].kind = "call" /\ card[c].status \notin {"absent", "staging"}
    /\ att' = [att EXCEPT ![w] = [Idle EXCEPT !.at = "effect", !.card = c, !.change = x]]
    /\ UNCHANGED <<card, work, version, upsets, shaken>>

-----------------------------------------------------------------------------
\* Spending a yes.

\* The request is done with this card: the next member of its bundle, or nothing.
Onward(a) == Releases(a.todo, [c \in a.todo |-> card[c].change])

Leave(w) == \E a \in Onward(att[w]) : att' = [att EXCEPT ![w] = a]

\* Mutant: an effect that fails leaves the row as it is.
FailsQuietly(w) == Leave(w)

\* A failed call of an agent's is the agent's to report; a failed effect is marked.
Fails(w) ==
    IF card[att[w].card].kind = "call"
    THEN Leave(w)
    ELSE att' = [att EXCEPT ![w].at = "failed"]

Redeemable(c, x) ==
    /\ card[c].change = x
    /\ card[c].status = "approved"
    /\ ~card[c].consumed
    /\ ~Lapsed(c)
    /\ Unmoved(c)

\* validateRedemption and validateRedemptionTarget, neither under a lock.
Check(w) ==
    LET c == att[w].card
    IN  /\ att[w].at = "effect"
        /\ card[c].kind # "stepup"
        /\ CASE Redeemable(c, att[w].change) -> att' = [att EXCEPT ![w].at = "checked"]
             [] card[c].consumed             -> Leave(w)
             [] OTHER                        -> Fails(w)
        /\ UNCHANGED <<card, work, version, upsets, shaken>>

\* The write the card released: what it wrote, and the version it wrote over.
Worked(c, x) == [times |-> work[c].times + 1, change |-> x,
                 on |-> IF Pins(c) THEN version ELSE 0]

\* The conditional update finds the card spent.
TooLate(w) ==
    LET c == att[w].card
    IN  /\ att[w].at = "checked"
        /\ RowFree(c)
        /\ card[c].consumed
        /\ Leave(w)
        /\ UNCHANGED <<card, work, version, upsets, shaken>>

\* It does not, and the write is made in the same transaction.
SpendAndWrite(w) ==
    LET c == att[w].card
    IN  /\ att[w].at = "checked"
        /\ RowFree(c)
        /\ card[c].kind \in {"atomic", "pinned"}
        /\ ~card[c].consumed
        /\ IF Unmoved(c)
           THEN /\ card' = [card EXCEPT ![c].consumed = TRUE]
                /\ work' = [work EXCEPT ![c] = Worked(c, att[w].change)]
                /\ version' = version + 1
                /\ att' = [att EXCEPT ![w].at = "ran"]
           ELSE Fails(w) /\ UNCHANGED <<card, work, version>>
        /\ UNCHANGED <<upsets, shaken>>

\* It does not, and the write is to follow.
Spend(w) ==
    LET c == att[w].card
    IN  /\ att[w].at = "checked"
        /\ RowFree(c)
        /\ card[c].kind \in {"split", "call"}
        /\ ~card[c].consumed
        /\ card' = [card EXCEPT ![c].consumed = TRUE]
        /\ att' = [att EXCEPT ![w].at = "write"]
        /\ UNCHANGED <<work, version, upsets, shaken>>

\* The write that follows compares the version the card was pinned to.
Write(w) ==
    LET c == att[w].card
    IN  /\ att[w].at = "write"
        /\ IF Unmoved(c)
           THEN /\ work' = [work EXCEPT ![c] = Worked(c, att[w].change)]
                /\ version' = version + 1
                /\ IF card[c].kind = "call" THEN Leave(w) ELSE att' = [att EXCEPT ![w].at = "ran"]
           ELSE Fails(w) /\ UNCHANGED <<work, version>>
        /\ UNCHANGED <<card, upsets, shaken>>

\* A step-up's release never redeems the card.
Release(w) ==
    LET c == att[w].card
    IN  /\ att[w].at = "effect"
        /\ card[c].kind = "stepup"
        /\ work' = [work EXCEPT ![c] = Worked(c, att[w].change)]
        /\ att' = [att EXCEPT ![w].at = "ran"]
        /\ UNCHANGED <<card, version, upsets, shaken>>

RecordRan(w) ==
    LET c == att[w].card
    IN  /\ att[w].at = "ran"
        /\ RowFree(c)
        /\ card' = [card EXCEPT ![c].ran = TRUE, ![c].failed = 0]
        /\ Leave(w)
        /\ UNCHANGED <<work, version, upsets, shaken>>

\* Mutant: an attempt marks its failure whatever has happened since.
SetOutAnyhow(w) == TRUE

\* The mark is compared with the outcome this attempt set out from.
SetOutFrom(w) ==
    LET c == att[w].card
    IN  card[c].failed = att[w].failed /\ card[c].ran = att[w].ran

RecordFailed(w) ==
    LET c == att[w].card
    IN  /\ att[w].at = "failed"
        /\ RowFree(c)
        /\ card' = IF SetOutFrom(w) THEN [card EXCEPT ![c].failed = card[c].failed + 1] ELSE card
        /\ Leave(w)
        /\ UNCHANGED <<work, version, upsets, shaken>>

-----------------------------------------------------------------------------
\* Faults, the clock, the sweeps, and everybody else.

\* The attempt fails of itself: nothing more of it is written.
Fault(w) ==
    /\ upsets < MaxUpsets
    /\ att[w].at \in {"effect", "checked", "write"}
    /\ Fails(w)
    /\ upsets' = upsets + 1
    /\ UNCHANGED <<card, work, version, shaken>>

\* The work is done, and the reply that says so is lost.
Unheard(w) ==
    /\ upsets < MaxUpsets
    /\ att[w].at = "ran"
    /\ att' = [att EXCEPT ![w].at = "failed"]
    /\ upsets' = upsets + 1
    /\ shaken' = shaken \cup {att[w].card}
    /\ UNCHANGED <<card, work, version>>

\* The process dies: what it had committed stays, and it records nothing more.
Crash(w) ==
    /\ upsets < MaxUpsets
    /\ att[w].at # "idle"
    /\ att' = [att EXCEPT ![w] = Idle]
    /\ upsets' = upsets + 1
    /\ shaken' = shaken \cup {att[w].card} \cup att[w].todo
    /\ UNCHANGED <<card, work, version>>

\* A card's window closes: to be decided, or to be redeemed once approved.  Of a
\* spent card nobody asks it.
Elapse(c) ==
    /\ card[c].status \in {"pending", "approved"}
    /\ ~card[c].late /\ ~card[c].consumed
    /\ card' = [card EXCEPT ![c].late = TRUE]
    /\ UNCHANGED <<work, att, version, upsets, shaken>>

\* Mutant: the sweep takes the status from the read that found its candidates.
ExpireAsFound(c) ==
    /\ card[c].status \in {"pending", "approved"}
    /\ card[c].kind \notin Standing
    /\ card[c].late
    /\ RowFree(c)
    /\ card' = [card EXCEPT ![c].status = "expired"]
    /\ UNCHANGED <<work, att, version, upsets, shaken>>

\* ExpireDue: the stored status and the window are asked again under the lock.
Expire(c) ==
    /\ card[c].status = "pending"
    /\ card[c].kind \notin Standing
    /\ card[c].late
    /\ RowFree(c)
    /\ card' = [card EXCEPT ![c].status = "expired"]
    /\ UNCHANGED <<work, att, version, upsets, shaken>>

\* A yes its agent never came back for.
Forgotten(c) ==
    /\ card[c].status = "approved"
    /\ ~ByServer(c)
    /\ ~card[c].consumed
    /\ card[c].failed = 0
    /\ Lapsed(c)

MarkLapsed ==
    /\ \E c \in Cards : Forgotten(c)
    /\ card' = [c \in Cards |-> IF Forgotten(c) THEN [card[c] EXCEPT !.failed = 1] ELSE card[c]]
    /\ UNCHANGED <<work, att, version, upsets, shaken>>

\* Somebody else writes the record.
Move ==
    /\ upsets < MaxUpsets
    /\ upsets' = upsets + 1
    /\ version' = version + 1
    /\ UNCHANGED <<card, work, att, shaken>>

Staging(c) ==
    \/ \E k \in Kinds[c], x \in Asked : Stage(c, k, x) \/ Probe(c, k, x)
    \/ Settle(c)
    \/ Withdraw(c)

Deciding(w) ==
    \/ \E c \in Cards : Reject(w, c) \/ ReDrive(w, c)
    \/ \E c \in Cards, x \in Changes : Approve(w, c, x) \/ Call(w, c, x)
    \/ \E S \in SUBSET Cards : ApproveBundle(w, S)

Working(w) ==
    \/ Check(w)
    \/ TooLate(w)
    \/ SpendAndWrite(w)
    \/ Spend(w)
    \/ Write(w)
    \/ Release(w)
    \/ RecordRan(w)
    \/ RecordFailed(w)

Next ==
    \/ \E c \in Cards : Staging(c) \/ Elapse(c) \/ Expire(c)
    \/ \E w \in Workers : Deciding(w) \/ Working(w) \/ Fault(w) \/ Unheard(w) \/ Crash(w)
    \/ MarkLapsed
    \/ Move

Spec == Init /\ [][Next]_vars

\* A request under way goes on, a stager commits, clocks advance, and the sweep
\* is scheduled for ever.
FairSpec ==
    /\ Spec
    /\ \A w \in Workers : WF_vars(Working(w))
    /\ \A c \in Cards : WF_vars(Settle(c)) /\ WF_vars(Elapse(c)) /\ WF_vars(Expire(c))
    /\ WF_vars(MarkLapsed)

-----------------------------------------------------------------------------
\* Every variable holds a value of its type.
TypeOK ==
    /\ card \in [Cards -> CardRows]
    /\ work \in [Cards -> Works]
    /\ att \in [Workers -> Attempts]
    /\ version \in Nat
    /\ upsets \in 0..MaxUpsets
    /\ shaken \subseteq Cards

\* The promise the engine makes: one verdict a card, one spending of a yes, and
\* terms that are settled with it.
Verdict(c) ==
    CASE card[c].status \in {"absent", "staging"}           -> "none"
      [] card[c].status = "pending"                         -> "open"
      [] card[c].status = "approved" /\ ~card[c].consumed   -> "granted"
      [] card[c].status = "approved" /\ card[c].consumed    -> "spent"
      [] card[c].status = "rejected"                        -> "refused"
      [] card[c].status = "expired"                         -> "closed"

Authority == INSTANCE ApprovalAuthority WITH
    verdict <- [c \in Cards |-> Verdict(c)],
    terms   <- [c \in Cards |-> card[c].change]

\* Two deciders, a bundle, the sweeps, a withdrawal and any number of requests
\* that redeem keep one another to the promise (the row lock of decideInTx, the
\* re-checks under it, and the conditional update of redeemRow).
ImplementsAuthority == Authority!Spec

\* The work of a card is done at most once, only for a yes, with the change that
\* was agreed to, and over the record as it was when the card was staged, however
\* many requests re-drive or redeem it.
ActsAsDecided ==
    \A c \in Cards :
        /\ work[c].times <= 1
        /\ work[c].times = 1 =>
              /\ card[c].status = "approved"
              /\ work[c].change = card[c].change
              /\ Pins(c) => work[c].on = card[c].pin

\* Nobody is at work on the card, nor about to be for a bundle.
Quiet(c) == \A w \in Workers : att[w].card # c /\ c \notin att[w].todo

\* A failure mark on a server's card tells the truth once nobody is at work on
\* it, unless a process died or a reply was lost: the work did not run.
MarkIsTrue ==
    \A c \in Cards :
        Quiet(c) /\ ByServer(c) /\ c \notin shaken /\ card[c].failed # 0 => work[c].times = 0

\* The same of every kind of card, as failureack.go says of a mark that stands.
MarkStandsForFailure ==
    \A c \in Cards : Quiet(c) /\ c \notin shaken /\ card[c].failed # 0 => work[c].times = 0

\* What a human refused is not put to them again: no stager puts a card out over
\* a refusal of its kind, wherever the decision falls between probe and insert.
RefusalIsRemembered ==
    [][\A c \in Cards :
          card[c].status = "staging" /\ card'[c].status = "pending"
              => \A d \in Cards \ {c} : ~(card[d].status = "rejected" /\ card[d].kind = card[c].kind)
      ]_vars

\* Every yes comes to something its approver can see: the work ran or its failure
\* is marked, an agent redeemed it or is marked for never coming back.  Only a
\* death or a lost reply can take that away.
EveryYesIsAnswered ==
    \A c \in Cards :
        card[c].status = "approved" ~>
            \/ card[c].ran \/ card[c].failed # 0 \/ c \in shaken
            \/ card[c].kind = "call" /\ card[c].consumed
=============================================================================
