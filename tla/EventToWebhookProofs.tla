------------------------ MODULE EventToWebhookProofs ------------------------
(***************************************************************************)
(* Theorems about EventToWebhook: relays, stream, group and Dedupe give    *)
(* HandleEvent what WebhookDelivery assumes of its bus, so what is proved  *)
(* of either module holds of the two together, and from the two follows    *)
(* that an event committed to the outbox reaches the rows it is owed.      *)
(*                                                                         *)
(* One invariant ties the sides: a handler runs for a subscriber exactly   *)
(* while that stands between its look for the mark and setting it, and it  *)
(* runs for the event of the entry in hand.                                *)
(***************************************************************************)
EXTENDS EventToWebhook, EventBusProofs

\* The webhooks side with the theorems about it.
P == INSTANCE WebhookFaultsProofs WITH
    bus <- Bus, faults <- hookFaults, MaxFaults <- MaxHookFaults

InHandler(c) == cons[c].pc \in {"run", "mark"}

Ties(c) ==
    /\ cons[c].pc \in {"idle"} \cup EntryPcs
    /\ ~InHandler(c) => fan[c] = W!IdleFan
    /\ InHandler(c) =>
         /\ fan[c].pc # "idle"
         /\ \A i \in cons[c].todo : Lowest(cons[c].todo, i) => log[i] = fan[c].event
    /\ cons[c].pc = "mark" => Through(c) /\ ~fan[c].err

TieInv ==
    /\ ~group.batched
    /\ passed = {}
    /\ \A e \in Events : ran[e] > 0 => Entries(e) # {}
    /\ \A c \in Consumers : Ties(c)

CInv == IInv /\ P!TypeInv /\ TieInv

-----------------------------------------------------------------------------
(* The webhooks side under its two names, and its assumptions.             *)

LEMMA HookAssumptions ==
    /\ P!AttemptsAssumption /\ P!BoundsAssumption /\ P!ProcessAssumption /\ P!NoneAssumption
BY HookSizeAssumption, HookProcessAssumption, NobodyAssumption DEF P!Deliveries

\* What is proved of WebhookDelivery, of its instance.
LEMMA HookTypes ==
    /\ P!Init => P!TypeInv
    /\ P!TypeInv /\ [P!Next]_P!vars => P!TypeInv'
<1>1. P!Init => P!TypeInv
  BY HookAssumptions, P!InitType
<1>2. P!TypeInv /\ [P!Next]_P!vars => P!TypeInv'
  BY HookAssumptions, P!TypeStep
<1> QED
  BY <1>1, <1>2

LEMMA HookFacts ==
    /\ P!Spec => []P!IInv
    /\ P!Spec => []P!AttemptedInv
    /\ P!Spec => []P!OwedInv
<1>1. P!Spec => []P!IInv
  BY HookAssumptions, P!Inductive
<1>2. P!Spec => []P!AttemptedInv
  BY HookAssumptions, P!Attempted
<1>3. P!Spec => []P!OwedInv
  BY HookAssumptions, P!OwedInductive
<1> QED
  BY <1>1, <1>2, <1>3

LEMMA OwedRowStays ==
    ASSUME P!IInv, P!AttemptedInv, [P!Next]_P!vars, NEW d \in P!Deliveries,
           row[d].status # "none"
    PROVE  row'[d].status # "none"
BY HookAssumptions, P!RowsStay

\* WebhookDelivery and the instance that carries its theorems say the same.
LEMMA SameSide ==
    /\ W!Init <=> P!Init
    /\ W!Next <=> P!Next
    /\ W!vars = P!vars
<1>1. W!Init <=> P!Init
  BY DEF W!Init, P!Init, W!Deliveries, P!Deliveries, W!Senders, P!Senders, W!NoRow,
         P!NoRow, W!NewRow, P!NewRow, W!IdleFan, P!IdleFan, W!Idle, P!Idle, W!NewAttempt,
         P!NewAttempt
<1>2. W!Next <=> P!Next
  BY DEF W!Senders, P!Senders, W!Deliveries, P!Deliveries, W!env, P!env, W!ghosts,
         P!ghosts, W!NewRow, P!NewRow, W!NoRow, P!NoRow, W!IdleFan, P!IdleFan,
         W!NewAttempt, P!NewAttempt, W!Idle, P!Idle, W!Live, P!Live, W!Active, P!Active,
         W!MaySee, P!MaySee, W!Eligible, P!Eligible, W!StillSteady, P!StillSteady,
         W!CreateSubscription, P!CreateSubscription, W!UpdateSubscription,
         P!UpdateSubscription, W!ArchiveSubscription, P!ArchiveSubscription, W!ChangeSight,
         P!ChangeSight, W!PublishEvent, P!PublishEvent, W!MarkLapses, P!MarkLapses,
         W!Match, P!Match, W!HandleEvent, P!HandleEvent, W!CheckOwner, P!CheckOwner,
         W!CheckOwnerFails, P!CheckOwnerFails, W!Created, P!Created, W!Named, P!Named,
         W!Enqueue, P!Enqueue, W!AttemptFirst, P!AttemptFirst, W!Handled, P!Handled,
         W!ConsumerDies, P!ConsumerDies, W!Unclaimed, P!Unclaimed, W!Token, P!Token,
         W!TakeClaim, P!TakeClaim, W!ClaimDueRetry, P!ClaimDueRetry, W!RenderFailed,
         P!RenderFailed, W!Replayable, P!Replayable, W!RequireReplay, P!RequireReplay,
         W!LoadTarget, P!LoadTarget, W!StillOwner, P!StillOwner, W!StillSees, P!StillSees,
         W!CheckFails, P!CheckFails, W!MarkVisibilityRevoked, P!MarkVisibilityRevoked,
         W!ResetForReplay, P!ResetForReplay, W!Post, P!Post, W!FailUnsent, P!FailUnsent,
         W!StillHolds, P!StillHolds, W!Outcome, P!Outcome, W!RecordOutcome,
         P!RecordOutcome, W!Abandon, P!Abandon, W!BackoffElapses, P!BackoffElapses,
         W!AtWorkOn, P!AtWorkOn, W!LeaseLapses, P!LeaseLapses, W!Admin, P!Admin, W!FanOut,
         P!FanOut, W!Attempt, P!Attempt, W!Time, P!Time, W!Next, P!Next
<1>3. W!vars = P!vars
  BY DEF W!vars, P!vars
<1> QED
  BY <1>1, <1>2, <1>3

\* What the types say of the hands on both sides.
LEMMA HookParts ==
    ASSUME CInv
    PROVE  /\ fan \in [Consumers -> P!EventInHand]
           /\ at \in [W!Senders -> P!AttemptTarget] /\ Consumers \subseteq W!Senders
           /\ steady \subseteq W!Deliveries
           /\ W!Senders = P!Senders /\ W!Deliveries = P!Deliveries
           /\ W!Idle = P!Idle /\ W!IdleFan = P!IdleFan
<1>1. W!Senders = P!Senders /\ W!Deliveries = P!Deliveries
  BY DEF W!Senders, P!Senders, W!Deliveries, P!Deliveries
<1>2. W!Idle = P!Idle /\ W!IdleFan = P!IdleFan
  BY DEF W!Idle, P!Idle, W!NewAttempt, P!NewAttempt, W!IdleFan, P!IdleFan
<1>3. /\ fan \in [Consumers -> P!EventInHand] /\ at \in [P!Senders -> P!AttemptTarget]
      /\ steady \subseteq P!Deliveries
  BY DEF CInv, P!TypeInv, P!TypeOK
<1> QED
  BY <1>1, <1>2, <1>3 DEF P!Senders

LEMMA BusParts ==
    ASSUME CInv
    PROVE  /\ cons \in [Consumers -> Hands] /\ pel \subseteq Ids /\ marks \subseteq Events
           /\ TypeOK /\ log \in Seq(Events)
           /\ \A c \in Consumers : Ties(c)
           /\ ~group.batched /\ passed = {}
           /\ \A e \in Events : ran[e] > 0 => Entries(e) # {}
           /\ \A e \in marks : ran[e] > 0
BY GroupParts DEF CInv, IInv, TieInv, TypeOK, MarkMeansDone

-----------------------------------------------------------------------------
(* The bus as the webhooks side sees it.                                   *)

LEMMA BusAt ==
    ASSUME NEW e \in Events
    PROVE  /\ Bus[e] = "acked" <=> e \in marks
           /\ Bus[e] = "ready" <=> e \notin marks /\ Entries(e) # {}
           /\ Bus[e] = "unpublished" <=> e \notin marks /\ Entries(e) = {}
BY DEF Bus

LEMMA BusStands ==
    ASSUME UNCHANGED <<log, marks>>
    PROVE  Bus' = Bus /\ \A e \in Events : Entries(e)' = Entries(e)
BY DEF Bus, Entries, Ids

\* An entry in hand is one of its event.
LEMMA InHandHasEntry ==
    ASSUME CInv, NEW c \in Consumers, NEW i \in cons[c].todo
    PROVE  i \in Ids /\ log[i] \in Events /\ i \in Entries(log[i])
BY BusParts DEF Hands, Entries, Ids

\* The event marked becomes acknowledged, and no other changes.
LEMMA BusMarked ==
    ASSUME NEW e \in Events, marks' = marks \cup {e}, log' = log
    PROVE  Bus' = [Bus EXCEPT ![e] = "acked"]
<1>1. \A f \in Events : Entries(f)' = Entries(f)
  BY DEF Entries, Ids
<1> QED
  BY <1>1 DEF Bus

LEMMA BusUnmarked ==
    ASSUME NEW e \in Events, marks' = marks \ {e}, log' = log, Entries(e) # {}
    PROVE  Bus' = [Bus EXCEPT ![e] = "ready"]
<1>1. \A f \in Events : Entries(f)' = Entries(f)
  BY DEF Entries, Ids
<1> QED
  BY <1>1 DEF Bus

\* A new entry publishes its event, if it is the first.
LEMMA BusAdded ==
    ASSUME CInv, NEW e \in Events, Added(e), marks' = marks
    PROVE  /\ \A f \in Events : f # e => Entries(f)' = Entries(f)
           /\ Entries(e)' # {}
           /\ Entries(e) # {} => Bus' = Bus
           /\ Entries(e) = {} => /\ Bus[e] = "unpublished"
                                 /\ Bus' = [Bus EXCEPT ![e] = "ready"]
<1>0. TypeOK /\ log \in Seq(Events) /\ Len(log) \in Nat
  BY BusParts
<1>1. /\ Len(log') = Len(log) + 1 /\ log'[Len(log) + 1] = e
      /\ \A i \in Ids : log'[i] = log[i]
  BY <1>0, AddedFacts
<1>2. Ids' = Ids \cup {Len(log) + 1} /\ Len(log) + 1 \notin Ids
  BY <1>0, <1>1 DEF Ids
<1>3. \A f \in Events : f # e => Entries(f)' = Entries(f)
  BY <1>1, <1>2 DEF Entries
<1>4. Len(log) + 1 \in Entries(e)'
  BY <1>1, <1>2 DEF Entries
<1>5. ASSUME Entries(e) # {} PROVE Bus' = Bus
  BY <1>3, <1>4, <1>5 DEF Bus
<1>6. ASSUME Entries(e) = {}
      PROVE  Bus[e] = "unpublished" /\ Bus' = [Bus EXCEPT ![e] = "ready"]
  <2>1. e \notin marks
    BY <1>6, BusParts
  <2>2. Bus[e] = "unpublished"
    BY <1>6, <2>1, BusAt
  <2> QED
    BY <1>3, <1>4, <2>1, <2>2 DEF Bus
<1> QED
  BY <1>3, <1>4, <1>5, <1>6

-----------------------------------------------------------------------------
(* The tie between the sides holds after every step.                       *)

\* A step of one subscriber, and of anything but the subscribers.
LEMMA TieByOne ==
    ASSUME CInv, NEW c \in Consumers, Ties(c)',
           UNCHANGED <<group, passed>> \/ (~group'.batched /\ passed' = passed),
           \A i \in Ids : log'[i] = log[i],
           \A e \in Events : ran'[e] > 0 => Entries(e)' # {},
           \A d \in Consumers \ {c} : cons'[d] = cons[d] /\ fan'[d] = fan[d] /\ at'[d] = at[d]
    PROVE  TieInv'
<1>1. ~group'.batched /\ passed' = {}
  BY BusParts
<1>2. ASSUME NEW d \in Consumers \ {c} PROVE Ties(d)'
  <2>1. Ties(d) /\ \A i \in cons[d].todo : log'[i] = log[i]
    BY BusParts, InHandHasEntry
  <2> QED
    BY <1>2, <2>1 DEF Ties, InHandler, Through
<1> QED
  BY <1>1, <1>2 DEF TieInv

LEMMA OutsideTies ==
    ASSUME NEW c \in Consumers, cons'[c].pc \in {"idle", "check", "ack"}, fan'[c] = W!IdleFan
    PROVE  Ties(c)'
BY DEF Ties, InHandler, EntryPcs

LEMMA RanKept ==
    ASSUME CInv, UNCHANGED <<log, ran>>
    PROVE  \A e \in Events : ran'[e] > 0 => Entries(e)' # {}
BY BusParts DEF Entries, Ids

\* Entries taken up, one by one as the group is not batched.
LEMMA TakenUp ==
    ASSUME CInv, NEW S
    PROVE  /\ InHand(S).pc \in {"idle", "check"}
           /\ OneByOne(S).pc \in {"idle", "check"}
           /\ IdleConsumer.pc = "idle"
BY BusParts DEF InHand, OneByOne, IdleConsumer

LEMMA BusStepTies ==
    ASSUME CInv, BusStep
    PROVE  TieInv'
<1>0. UNCHANGED <<log, ran, marks, passed, fan, at>>
  BY DEF BusStep, hook, Write, Stage, Settle, Take, Stamp, RelayDies, ReadFresh, Reclaim,
     EnsureGroup, Ack, stream, ghosts
<1>1. \A e \in Events : ran'[e] > 0 => Entries(e)' # {}
  BY <1>0, RanKept
<1>2. ASSUME UNCHANGED <<group, cons>> PROVE TieInv'
  BY <1>0, <1>1, <1>2, BusParts DEF TieInv, Ties, InHandler, Through
<1>3. ASSUME NEW c \in Consumers, ReadFresh(c) \/ Reclaim(c) \/ EnsureGroup(c) \/ Ack(c)
      PROVE  TieInv'
  <2>1. fan[c] = W!IdleFan
    BY <1>3, BusParts DEF Ties, InHandler, ReadFresh, Reclaim, EnsureGroup, Ack
  <2>2. ~group'.batched
    BY <1>3, BusParts DEF ReadFresh, Reclaim, EnsureGroup, Ack, GroupAtStart, TypeOK
  <2>3. /\ cons'[c].pc \in {"idle", "check", "ack"}
        /\ \A d \in Consumers \ {c} : cons'[d] = cons[d]
    <3>1. CASE EnsureGroup(c)
      BY <3>1 DEF EnsureGroup
    <3>2. CASE ~EnsureGroup(c)
      <4>1. PICK S : cons' = [cons EXCEPT ![c] = InHand(S)] \/ cons' = [cons EXCEPT ![c] = OneByOne(S)]
        <5>1. CASE ReadFresh(c)
          BY <5>1 DEF ReadFresh
        <5>2. CASE Reclaim(c)
          BY <5>2 DEF Reclaim
        <5>3. CASE Ack(c)
          BY <5>3 DEF Ack
        <5> QED
          BY <1>3, <3>2, <5>1, <5>2, <5>3
      <4>2. cons'[c] \in {InHand(S), OneByOne(S)} /\ \A d \in Consumers \ {c} : cons'[d] = cons[d]
        BY <4>1, BusParts
      <4> QED
        BY <4>2, TakenUp
    <3> QED
      BY <3>1, <3>2
  <2>4. Ties(c)'
    BY <1>0, <2>1, <2>3, OutsideTies
  <2> QED
    BY <1>0, <1>1, <2>2, <2>3, <2>4, TieByOne
<1>4. CASE Write \/ \E r \in Relays : Take(r) \/ Stamp(r) \/ RelayDies(r)
  BY <1>2, <1>4 DEF Write, Stage, Settle, Take, Stamp, RelayDies
<1> QED
  BY <1>3, <1>4 DEF BusStep

LEMMA AnnounceTies ==
    ASSUME CInv, NEW r \in Relays, Announce(r)
    PROVE  TieInv'
<1>1. PICK e \in Events : Added(e) \/ UNCHANGED <<log, low, cut>>
  BY DEF Announce, Ship, ShipFails
<1>2. UNCHANGED <<group, cons, ran, marks, passed, fan, at>>
  BY DEF Announce, Ship, ShipFails, work, ghosts
<1>3. \A i \in Ids : log'[i] = log[i]
  BY <1>1, BusParts, AddedFacts
<1>4. \A f \in Events : Entries(f) # {} => Entries(f)' # {}
  <2>1. CASE Added(e)
    BY <1>2, <2>1, BusAdded
  <2>2. CASE UNCHANGED <<log, low, cut>>
    BY <2>2 DEF Entries, Ids
  <2> QED
    BY <1>1, <2>1, <2>2
<1>5. \A f \in Events : ran'[f] > 0 => Entries(f)' # {}
  BY <1>2, <1>4, BusParts
<1>6. ASSUME NEW d \in Consumers PROVE Ties(d)'
  <2>1. Ties(d) /\ \A i \in cons[d].todo : log'[i] = log[i]
    BY <1>3, BusParts, InHandHasEntry
  <2> QED
    BY <1>2, <2>1 DEF Ties, InHandler, Through
<1> QED
  BY <1>2, <1>5, <1>6, BusParts DEF TieInv

LEMMA CheckTies ==
    ASSUME CInv, NEW c \in Consumers, CheckAndCall(c)
    PROVE  TieInv'
<1>1. PICK i \in cons[c].todo :
        /\ Lowest(cons[c].todo, i)
        /\ Goto(c, IF Seen(log[i]) THEN "ack" ELSE "run")
  BY DEF CheckAndCall, Check
<1>2. PICK j \in cons[c].todo :
        /\ Lowest(cons[c].todo, j)
        /\ IF Seen(log[j]) THEN UNCHANGED fan ELSE W!Match(c, log[j])
  BY DEF CheckAndCall
<1>3. i = j
  BY <1>1, <1>2, BusParts, InHandHasEntry DEF Lowest, Ids
<1>4. cons[c].pc = "check" /\ UNCHANGED <<group, log, ran, passed, at>>
  BY DEF CheckAndCall, Check, work, stream
<1>5. /\ cons'[c].pc = (IF Seen(log[i]) THEN "ack" ELSE "run") /\ cons'[c].todo = cons[c].todo
      /\ \A d \in Consumers \ {c} : cons'[d] = cons[d]
  BY <1>1, BusParts DEF Goto, Hands
<1>6. fan[c] = W!IdleFan
  BY <1>4, BusParts DEF Ties, InHandler
<1>7. CASE Seen(log[i])
  <2>1. fan' = fan
    BY <1>2, <1>3, <1>7
  <2>2. Ties(c)'
    BY <1>5, <1>6, <1>7, <2>1, OutsideTies
  <2> QED
    BY <1>4, <1>5, <2>1, <2>2, RanKept, TieByOne
<1>8. CASE ~Seen(log[i])
  <2>1. W!Match(c, log[i])
    BY <1>2, <1>3, <1>8
  <2>2. /\ fan'[c].pc = "check" /\ fan'[c].event = log[i]
        /\ \A d \in Consumers \ {c} : fan'[d] = fan[d]
    BY <2>1, HookParts DEF W!Match, W!IdleFan
  <2>3. \A k \in cons[c].todo : Lowest(cons[c].todo, k) => log[k] = log[i]
    BY <1>1, BusParts, InHandHasEntry DEF Lowest, Ids
  <2>4. Ties(c)'
    BY <1>4, <1>5, <1>8, <2>2, <2>3 DEF Ties, InHandler, EntryPcs
  <2> QED
    BY <1>4, <1>5, <2>2, <2>4, RanKept, TieByOne
<1> QED
  BY <1>7, <1>8

LEMMA ReturnTies ==
    ASSUME CInv, NEW c \in Consumers, Return(c)
    PROVE  TieInv'
<1>1. PICK i \in cons[c].todo : Lowest(cons[c].todo, i) /\ Runs({i})
  BY DEF Return, Handle
<1>2. /\ cons[c].pc = "run" /\ Goto(c, "mark") /\ Through(c) /\ ~fan[c].err
      /\ UNCHANGED <<group, log, passed, fan, at>>
  BY DEF Return, Handle, hook, stream
<1>3. /\ cons'[c].pc = "mark" /\ cons'[c].todo = cons[c].todo
      /\ \A d \in Consumers \ {c} : cons'[d] = cons[d]
  BY <1>2, BusParts DEF Goto, Hands
<1>4. Ties(c)'
  BY <1>2, <1>3, BusParts DEF Ties, InHandler, Through, EntryPcs
<1>5. \A e \in Events : e # log[i] => ran'[e] = ran[e]
  <2> SUFFICES ASSUME NEW e \in Events, e # log[i] PROVE ran'[e] = ran[e]
    OBVIOUS
  <2>1. {k \in {i} : log[k] = e} = {}
    OBVIOUS
  <2>2. ran'[e] = ran[e] + Cardinality({k \in {i} : log[k] = e}) /\ ran[e] \in Nat
    BY <1>1, BusParts DEF Runs, Tally, TypeOK
  <2> QED
    BY <2>1, <2>2, FS_EmptySet
<1>6. \A e \in Events : Entries(e)' = Entries(e)
  BY <1>2 DEF Entries, Ids
<1>7. \A e \in Events : ran'[e] > 0 => Entries(e)' # {}
  BY <1>1, <1>5, <1>6, BusParts, InHandHasEntry
<1> QED
  BY <1>2, <1>3, <1>4, <1>7, TieByOne

\* A subscriber leaves the handler, or was not in it, and holds no more of the entry.
LEMMA LeftTies ==
    ASSUME CInv, NEW c \in Consumers,
           cons'[c].pc \in {"idle", "check", "ack"}, fan'[c] = W!IdleFan,
           \A d \in Consumers \ {c} : cons'[d] = cons[d] /\ fan'[d] = fan[d] /\ at'[d] = at[d],
           UNCHANGED <<group, log, ran, passed>>
    PROVE  TieInv'
BY OutsideTies, RanKept, TieByOne

LEMMA LeaveFacts ==
    ASSUME CInv, NEW c \in Consumers, LeaveHandler(c)
    PROVE  fan'[c] = W!IdleFan /\ \A d \in Consumers \ {c} : fan'[d] = fan[d]
BY HookParts DEF LeaveHandler

LEMMA GiveUpFacts ==
    ASSUME CInv, NEW c \in Consumers, GiveUp(c)
    PROVE  /\ fan'[c] = W!IdleFan
           /\ \A d \in Consumers \ {c} : fan'[d] = fan[d] /\ at'[d] = at[d]
BY LeaveFacts, HookParts DEF GiveUp

\* The entry stays pending, and the subscriber goes on to the next.
LEMMA FailFacts ==
    ASSUME CInv, NEW c \in Consumers, DeliverFails(c)
    PROVE  /\ cons'[c].pc \in {"idle", "check"}
           /\ \A d \in Consumers \ {c} : cons'[d] = cons[d]
           /\ UNCHANGED <<group, log, marks, passed>>
<1>1. PICK i \in cons[c].todo : cons' = [cons EXCEPT ![c] = OneByOne(cons[c].todo \ {i})]
  BY DEF DeliverFails
<1>2. UNCHANGED <<group, log, marks, passed>>
  BY DEF DeliverFails, stream
<1> QED
  BY <1>1, <1>2, BusParts, TakenUp

\* A failure on the way says nothing of the handler.
LEMMA LookRunsNothing ==
    ASSUME CInv, NEW c \in Consumers, LookFails(c)
    PROVE  ran' = ran
<1>1. PICK i \in cons[c].todo, did \in BOOLEAN :
        (did => cons[c].pc = "run") /\ Runs(IF did THEN {i} ELSE {})
  BY DEF LookFails, DeliverFails
<1>2. Runs({})
  BY <1>1 DEF LookFails
<1>3. \A e \in Events : {j \in {} : log[j] = e} = {}
  OBVIOUS
<1>4. \A e \in Events : ran'[e] = ran[e] + 0
  BY <1>2, <1>3, FS_EmptySet DEF Runs, Tally
<1>5. ran \in [Events -> Nat] /\ ran' = [e \in Events |-> ran'[e]]
  BY <1>2, BusParts DEF Runs, Tally, TypeOK
<1> QED
  BY <1>4, <1>5

LEMMA MarkTies ==
    ASSUME CInv, NEW c \in Consumers, ReturnAndMark(c)
    PROVE  TieInv'
<1>1. /\ Goto(c, "ack") /\ LeaveHandler(c) /\ UNCHANGED <<group, log, ran, passed, at>>
  BY DEF ReturnAndMark, Mark, work, stream, ghosts
<1>2. /\ cons'[c].pc = "ack"
      /\ \A d \in Consumers \ {c} : cons'[d] = cons[d]
  BY <1>1, BusParts DEF Goto, Hands
<1> QED
  BY <1>1, <1>2, LeaveFacts, LeftTies

LEMMA FailTies ==
    ASSUME CInv, NEW c \in Consumers, ReturnError(c) \/ LookFails(c) \/ HandlerFails(c)
    PROVE  TieInv'
<1>1. DeliverFails(c)
  BY DEF ReturnError, LookFails, HandlerFails
<1>2. CASE ReturnError(c)
  BY <1>1, <1>2, FailFacts, LeaveFacts, LeftTies DEF ReturnError, work
<1>3. CASE HandlerFails(c)
  BY <1>1, <1>3, FailFacts, GiveUpFacts, LeftTies DEF HandlerFails
<1>4. CASE LookFails(c)
  <2>1. fan[c] = W!IdleFan /\ UNCHANGED <<fan, at>>
    BY <1>4, BusParts DEF LookFails, hook, Ties, InHandler
  <2> QED
    BY <1>1, <1>4, <2>1, LookRunsNothing, FailFacts, LeftTies
<1> QED
  BY <1>2, <1>3, <1>4

LEMMA DieTies ==
    ASSUME CInv, NEW c \in Consumers, ProcessDies(c)
    PROVE  TieInv'
<1>1. cons' = [cons EXCEPT ![c] = IdleConsumer] /\ UNCHANGED <<group, log, ran, passed>>
  BY DEF ProcessDies, ConsumerDies, stream
<1>2. cons'[c].pc = "idle" /\ \A d \in Consumers \ {c} : cons'[d] = cons[d]
  BY <1>1, BusParts, TakenUp
<1>3. CASE cons[c].pc \in {"run", "mark"}
  BY <1>1, <1>2, <1>3, GiveUpFacts, LeftTies DEF ProcessDies
<1>4. CASE cons[c].pc \notin {"run", "mark"}
  <2>1. fan[c] = W!IdleFan /\ UNCHANGED <<fan, at>>
    BY <1>4, BusParts DEF ProcessDies, hook, Ties, InHandler
  <2> QED
    BY <1>1, <1>2, <2>1, LeftTies
<1> QED
  BY <1>3, <1>4

LEMMA LapseTies ==
    ASSUME CInv, NEW e \in Events, Lapse(e)
    PROVE  TieInv'
<1>1. UNCHANGED <<group, log, ran, passed, cons, fan, at>>
  BY DEF Lapse, MarkExpires, stream, work
<1>2. \A c \in Consumers : Ties(c)'
  BY <1>1, BusParts DEF Ties, InHandler, Through
<1> QED
  BY <1>1, <1>2, RanKept, BusParts DEF TieInv

\* What the steps of the webhooks side alone do to a handler that is running.
LEMMA HandlerMoves ==
    ASSUME CInv, HookStep, NEW c \in Consumers
    PROVE  /\ Through(c) => fan'[c] = fan[c] /\ at'[c] = at[c]
           /\ fan[c] = W!IdleFan => fan'[c] = fan[c]
           /\ fan[c].pc # "idle" => fan'[c].pc # "idle" /\ fan'[c].event = fan[c].event
<1> DEFINE Goal == /\ Through(c) => fan'[c] = fan[c] /\ at'[c] = at[c]
                   /\ fan[c] = W!IdleFan => fan'[c] = fan[c]
                   /\ fan[c].pc # "idle" => fan'[c].pc # "idle" /\ fan'[c].event = fan[c].event
<1>0. fan[c] \in P!EventInHand /\ c \in W!Senders /\ W!IdleFan.pc = "idle"
  BY HookParts DEF W!IdleFan
<1>1. ASSUME UNCHANGED <<fan, at>> PROVE Goal
  BY <1>1
<1>2. CASE W!Admin \/ W!Time
  BY <1>1, <1>2 DEF W!Admin, W!CreateSubscription, W!UpdateSubscription, W!ArchiveSubscription,
     W!ChangeSight, W!Time, W!BackoffElapses, W!LeaseLapses
<1>3. ASSUME NEW p \in W!Senders, UNCHANGED fan, \A q \in W!Senders \ {p} : at'[q] = at[q],
             p \in Consumers => at[p] # W!Idle
      PROVE  Goal
  BY <1>0, <1>3 DEF Through
<1>4. ASSUME NEW p \in Sweepers \cup Replayers, NEW d \in W!Deliveries,
             W!ClaimDueRetry(p, d) \/ W!RequireReplay(p, d)
      PROVE  Goal
  <2>1. p \in W!Senders /\ p \notin Consumers
    BY <1>4, HookProcessAssumption DEF W!Senders
  <2>2. UNCHANGED fan /\ \A q \in W!Senders \ {p} : at'[q] = at[q]
    BY <1>4, <2>1, HookParts DEF W!ClaimDueRetry, W!RequireReplay
  <2> QED
    BY <1>3, <2>1, <2>2
<1>5. ASSUME NEW p \in W!Senders, W!Attempt(p) \/ W!CheckFails(p) \/ W!Abandon(p)
      PROVE  Goal
  <2>1. at[p] # W!Idle
    BY <1>5 DEF W!Attempt, W!LoadTarget, W!StillOwner, W!StillSees, W!CheckFails,
       W!MarkVisibilityRevoked, W!ResetForReplay, W!Post, W!FailUnsent, W!RecordOutcome,
       W!Abandon, W!Idle, W!NewAttempt
  <2>2. UNCHANGED fan /\ \A q \in W!Senders \ {p} : at'[q] = at[q]
    BY <1>5, HookParts DEF W!Attempt, W!LoadTarget, W!StillOwner, W!StillSees, W!CheckFails,
       W!MarkVisibilityRevoked, W!ResetForReplay, W!Post, W!FailUnsent, W!RecordOutcome,
       W!Abandon
  <2> QED
    BY <1>3, <2>1, <2>2
<1>6. ASSUME NEW x \in Consumers, FanOut(x) PROVE Goal
  <2>1. fan[x] \in P!EventInHand /\ fan[x].pc # "idle" /\ ~Through(x)
    BY <1>6, HookParts DEF FanOut, W!CheckOwner, W!CheckOwnerFails, W!Enqueue, W!AttemptFirst,
       Through
  <2>2. /\ fan'[x].pc # "idle" /\ fan'[x].event = fan[x].event
        /\ \A y \in Consumers \ {x} : fan'[y] = fan[y] /\ at'[y] = at[y]
    <3>1. CASE W!CheckOwner(x)
      BY <2>1, <3>1, HookParts DEF W!CheckOwner, P!EventInHand
    <3>2. CASE W!CheckOwnerFails(x)
      BY <2>1, <3>2, HookParts DEF W!CheckOwnerFails, P!EventInHand
    <3>3. CASE W!Enqueue(x)
      BY <2>1, <3>3, HookParts DEF W!Enqueue, P!EventInHand
    <3>4. CASE W!AttemptFirst(x)
      BY <2>1, <3>4, HookParts DEF W!AttemptFirst, P!EventInHand
    <3> QED
      BY <1>6, <3>1, <3>2, <3>3, <3>4 DEF FanOut
  <2> QED
    BY <1>0, <2>1, <2>2
<1> QED
  BY <1>2, <1>4, <1>5, <1>6 DEF HookStep

LEMMA HookTies ==
    ASSUME CInv, HookStep
    PROVE  TieInv'
<1>1. UNCHANGED <<group, log, ran, passed, cons>>
  BY DEF HookStep, vars
<1>2. ASSUME NEW c \in Consumers PROVE Ties(c)'
  <2>1. Ties(c)
    BY BusParts
  <2>2. InHandler(c)' <=> InHandler(c)
    BY <1>1 DEF InHandler
  <2> QED
    BY <1>1, <2>1, <2>2, HandlerMoves DEF Ties, Through, InHandler
<1> QED
  BY <1>1, <1>2, RanKept, BusParts DEF TieInv

-----------------------------------------------------------------------------
(* Each step is one of the backbone, and one of the webhooks side.         *)

LEMMA StepOfBus == [CNext]_cvars => [Next]_vars
<1> SUFFICES ASSUME [CNext]_cvars PROVE [Next]_vars
  OBVIOUS
<1>1. CASE BusStep
  BY <1>1 DEF BusStep, Next, RelayStep, ConsumerStep, Deliver
<1>2. ASSUME NEW r \in Relays, Announce(r) PROVE Next
  BY <1>2 DEF Announce, Next, RelayStep
<1>3. ASSUME NEW c \in Consumers, CheckAndCall(c) \/ Return(c) \/ ReturnAndMark(c) PROVE Next
  BY <1>3 DEF CheckAndCall, Return, ReturnAndMark, Next, ConsumerStep, Deliver
<1>4. ASSUME NEW c \in Consumers,
             ReturnError(c) \/ LookFails(c) \/ HandlerFails(c) \/ ProcessDies(c)
      PROVE  Next
  BY <1>4 DEF ReturnError, LookFails, HandlerFails, ProcessDies, Next
<1>5. ASSUME NEW e \in Events, Lapse(e) PROVE Next
  BY <1>5 DEF Lapse, Next
<1>6. CASE HookStep
  BY <1>6 DEF HookStep
<1>7. CASE UNCHANGED cvars
  BY <1>7 DEF cvars
<1> QED
  BY <1>1, <1>2, <1>3, <1>4, <1>5, <1>6, <1>7 DEF CNext

LEMMA StutterOfHook ==
    ASSUME UNCHANGED <<log, marks, hook>>
    PROVE  UNCHANGED W!vars
BY BusStands DEF hook, W!vars

\* The webhooks side's view of what a subscriber does.
LEMMA CallOfHook ==
    ASSUME CInv, NEW c \in Consumers, CheckAndCall(c)
    PROVE  [W!Next]_W!vars
<1>1. PICK i \in cons[c].todo :
        /\ Lowest(cons[c].todo, i)
        /\ IF Seen(log[i]) THEN UNCHANGED fan ELSE W!Match(c, log[i])
  BY DEF CheckAndCall
<1>2. /\ cons[c].pc = "check"
      /\ UNCHANGED <<log, marks, admin, work, hookFaults, steady>>
  BY DEF CheckAndCall, Check, stream
<1>3. Bus' = Bus
  BY <1>2, BusStands
<1>4. CASE Seen(log[i])
  BY <1>1, <1>2, <1>4, StutterOfHook DEF hook, admin, work
<1>5. CASE ~Seen(log[i])
  <2>1. fan[c] = W!IdleFan
    BY <1>2, BusParts DEF Ties, InHandler
  <2>2. log[i] \in Events /\ Bus[log[i]] = "ready"
    BY <1>5, InHandHasEntry, BusAt DEF Seen
  <2>3. W!HandleEvent(c, log[i])
    BY <1>1, <1>2, <1>3, <1>5, <2>1, <2>2 DEF W!HandleEvent, W!env, W!ghosts, admin, work
  <2> QED
    BY <2>2, <2>3 DEF W!Next, W!FanOut
<1> QED
  BY <1>4, <1>5

LEMMA MarkOfHook ==
    ASSUME CInv, NEW c \in Consumers, ReturnAndMark(c)
    PROVE  [W!Next]_W!vars
<1>1. PICK i \in cons[c].todo : Lowest(cons[c].todo, i) /\ marks' = marks \cup {log[i]}
  BY DEF ReturnAndMark, Mark
<1>2. /\ cons[c].pc = "mark" /\ LeaveHandler(c)
      /\ UNCHANGED <<log, admin, work, hookFaults, steady>>
  BY DEF ReturnAndMark, Mark, stream
<1>3. Through(c) /\ ~fan[c].err /\ fan[c].event = log[i]
  BY <1>1, <1>2, BusParts DEF Ties, InHandler
<1>4. Bus' = [Bus EXCEPT ![fan[c].event] = "acked"]
  BY <1>1, <1>2, <1>3, InHandHasEntry, BusMarked
<1>5. W!Handled(c)
  BY <1>2, <1>3, <1>4 DEF W!Handled, Through, LeaveHandler, W!env, W!ghosts, admin, work
<1> QED
  BY <1>5 DEF W!Next, W!FanOut

LEMMA ErrorOfHook ==
    ASSUME CInv, NEW c \in Consumers, ReturnError(c)
    PROVE  [W!Next]_W!vars
<1>1. /\ Through(c) /\ fan[c].err /\ LeaveHandler(c) /\ DeliverFails(c)
      /\ UNCHANGED <<admin, work, hookFaults, steady>>
  BY DEF ReturnError
<1>2. Bus' = Bus
  BY <1>1, FailFacts, BusStands
<1>3. W!Handled(c)
  BY <1>1, <1>2 DEF W!Handled, Through, LeaveHandler, W!env, W!ghosts, admin, work
<1> QED
  BY <1>3 DEF W!Next, W!FanOut

LEMMA LossOfHook ==
    ASSUME CInv, NEW c \in Consumers, HandlerFails(c) \/ ProcessDies(c)
    PROVE  [W!Next]_W!vars
<1>1. UNCHANGED <<log, marks>>
  BY FailFacts DEF HandlerFails, ProcessDies, ConsumerDies, stream
<1>2. Bus' = Bus
  BY <1>1, BusStands
<1>3. CASE UNCHANGED hook
  BY <1>1, <1>3, StutterOfHook
<1>4. CASE cons[c].pc \in {"run", "mark"} /\ GiveUp(c)
  <2>1. fan[c].pc # "idle" /\ W!IdleFan.pc = "idle"
    BY <1>4, BusParts DEF Ties, InHandler, W!IdleFan
  <2>2. W!ConsumerDies(c)
    BY <1>2, <1>4, <2>1 DEF W!ConsumerDies, GiveUp, LeaveHandler, W!env, W!ghosts, admin
  <2> QED
    BY <2>2 DEF W!Next, W!FanOut
<1> QED
  BY <1>3, <1>4 DEF HandlerFails, ProcessDies

LEMMA LapseOfHook ==
    ASSUME CInv, NEW e \in Events, Lapse(e)
    PROVE  [W!Next]_W!vars
<1>1. /\ e \in marks /\ marks' = marks \ {e} /\ log' = log
      /\ UNCHANGED <<admin, work, fan, steady>>
      /\ hookFaults < MaxHookFaults /\ hookFaults' = hookFaults + 1
  BY DEF Lapse, MarkExpires, stream
<1>2. Bus[e] = "acked" /\ Entries(e) # {}
  BY <1>1, BusAt, BusParts
<1>3. Bus' = [Bus EXCEPT ![e] = "ready"]
  BY <1>1, <1>2, BusUnmarked
<1>4. W!MarkLapses(e)
  BY <1>1, <1>2, <1>3 DEF W!MarkLapses, W!env, W!ghosts, admin, work
<1> QED
  BY <1>4 DEF W!Next

LEMMA AnnounceOfHook ==
    ASSUME CInv, NEW r \in Relays, Announce(r)
    PROVE  [W!Next]_W!vars
<1> DEFINE New == {d \in W!Deliveries : /\ Entries(d[2]) = {} /\ Entries(d[2])' # {}
                                        /\ W!Eligible(d)}
<1>1. PICK e \in Events : Added(e) \/ UNCHANGED <<log, low, cut>>
  BY DEF Announce, Ship, ShipFails
<1>2. /\ marks' = marks /\ steady' = steady \cup New
      /\ UNCHANGED <<admin, work, fan, hookFaults>>
  BY DEF Announce, Ship, ShipFails
<1>3. \A d \in W!Deliveries : d[2] \in Events
  BY DEF W!Deliveries
<1>4. CASE Added(e) /\ Entries(e) = {}
  <2>1. /\ \A f \in Events : f # e => Entries(f)' = Entries(f)
        /\ Entries(e)' # {} /\ Bus[e] = "unpublished" /\ Bus' = [Bus EXCEPT ![e] = "ready"]
    BY <1>2, <1>4, BusAdded
  <2>2. New = {d \in W!Deliveries : d[2] = e /\ W!Eligible(d)}
    BY <1>3, <1>4, <2>1
  <2>3. W!PublishEvent(e)
    BY <1>2, <2>1, <2>2 DEF W!PublishEvent, admin, work
  <2> QED
    BY <2>3 DEF W!Next
<1>5. CASE (Added(e) /\ Entries(e) # {}) \/ UNCHANGED <<log, low, cut>>
  <2>1. Bus' = Bus /\ \A f \in Events : Entries(f) = {} => Entries(f)' = {}
    BY <1>2, <1>5, BusAdded, BusStands
  <2>2. New = {}
    BY <1>3, <2>1
  <2> QED
    BY <1>2, <2>1, <2>2 DEF W!vars, admin, work
<1> QED
  BY <1>1, <1>4, <1>5

LEMMA StepOfHook ==
    ASSUME CInv, [CNext]_cvars
    PROVE  [W!Next]_W!vars
<1>1. CASE BusStep
  BY <1>1, StutterOfHook DEF BusStep, Write, Stage, Settle, Take, Stamp, RelayDies, ReadFresh,
     Reclaim, EnsureGroup, Ack, stream
<1>2. ASSUME NEW c \in Consumers, Return(c) \/ LookFails(c) PROVE UNCHANGED W!vars
  BY <1>2, FailFacts, StutterOfHook DEF Return, Handle, LookFails, stream
<1>3. CASE HookStep
  BY <1>3 DEF HookStep, W!Next, W!FanOut, FanOut
<1>4. CASE UNCHANGED cvars
  BY <1>4, StutterOfHook DEF cvars, vars
<1> QED
  BY <1>1, <1>2, <1>3, <1>4, CallOfHook, MarkOfHook, ErrorOfHook, LossOfHook, LapseOfHook,
     AnnounceOfHook DEF CNext

LEMMA StepOfSide ==
    ASSUME CInv, [CNext]_cvars
    PROVE  [P!Next]_P!vars
<1>1. W!vars' = P!vars'
  BY DEF W!vars, P!vars
<1>2. CASE W!Next
  BY <1>2, SameSide
<1>3. CASE W!vars' = W!vars
  BY <1>1, <1>3, SameSide
<1> QED
  BY <1>2, <1>3, StepOfHook

LEMMA CInvStep == CInv /\ [CNext]_cvars => CInv'
<1> SUFFICES ASSUME CInv, [CNext]_cvars PROVE CInv'
  OBVIOUS
<1>1. IInv'
  BY StepOfBus, NextKeeps DEF CInv
<1>2. P!TypeInv'
  BY StepOfSide, HookTypes DEF CInv
<1>3. UNCHANGED cvars => TieInv'
  <2> SUFFICES ASSUME UNCHANGED cvars PROVE TieInv'
    OBVIOUS
  <2>1. UNCHANGED <<group, log, ran, passed, cons, fan, at>>
    BY DEF cvars, vars, hook
  <2>2. \A c \in Consumers : Ties(c)'
    BY <2>1, BusParts DEF Ties, InHandler, Through
  <2> QED
    BY <2>1, <2>2, RanKept, BusParts DEF TieInv
<1>4. TieInv'
  BY <1>3, BusStepTies, AnnounceTies, CheckTies, ReturnTies, MarkTies, FailTies, DieTies,
     LapseTies, HookTies DEF CNext
<1> QED
  BY <1>1, <1>2, <1>4 DEF CInv

LEMMA CInvInit == CInit => CInv
<1> SUFFICES ASSUME CInit PROVE CInv
  OBVIOUS
<1>1. IInv
  BY InitHolds DEF CInit
<1>2. P!TypeInv
  BY SameSide, HookTypes DEF CInit
<1>3. TieInv
  <2>1. ~group.batched /\ passed = {} /\ \A e \in Events : ~(ran[e] > 0)
    <3>1. group.batched \in Modes
      BY DEF CInit, Init
    <3>2. \A e \in Events : ran[e] = 0
      BY DEF CInit, Init
    <3>3. passed = {}
      BY DEF CInit, Init
    <3>4. group.batched = FALSE
      BY <3>1, GroupAssumption
    <3>5. ~group.batched
      BY <3>4, Zenon
    <3>6. \A e \in Events : ~(ran[e] > 0)
      BY <3>2
    <3> QED
      BY <3>3, <3>5, <3>6
  <2>2. ASSUME NEW c \in Consumers PROVE cons[c].pc = "idle" /\ fan[c] = W!IdleFan
    BY DEF CInit, Init, W!Init, IdleConsumer
  <2>3. \A c \in Consumers : Ties(c)
    BY <2>2 DEF Ties, InHandler
  <2> QED
    BY <2>1, <2>3 DEF TieInv
<1> QED
  BY <1>1, <1>2, <1>3 DEF CInv

LEMMA CInductive == CSpec => []CInv
BY CInvInit, CInvStep, PTL DEF CSpec

-----------------------------------------------------------------------------
(* What is proved of either side holds of it here.                         *)

\* The two sides together are a backbone: the handler adds nothing to what relays
\* and subscribers may do, so all that is proved of EventBus holds here.
THEOREM BackboneKept == CSpec => Spec
<1>1. CInit => Init
  BY DEF CInit
<1> QED
  BY <1>1, StepOfBus, PTL DEF CSpec, Spec

LEMMA HookSpec == CSpec => P!Spec
<1>1. CInit => P!Init
  BY SameSide DEF CInit
<1> QED
  BY <1>1, StepOfSide, CInductive, PTL DEF CSpec, P!Spec

LEMMA HookInductive == CSpec => [](P!IInv /\ P!AttemptedInv /\ P!OwedInv)
BY HookSpec, HookFacts, PTL

-----------------------------------------------------------------------------
(* An event that was handled has the rows it is owed.                      *)

RowsInv == \A d \in steady : ran[d[2]] > 0 => row[d].status # "none"

Both == CInv /\ P!IInv /\ P!AttemptedInv /\ P!OwedInv

LEMMA RowsByStanding ==
    ASSUME Both, RowsInv, [CNext]_cvars, steady' \subseteq steady,
           \A e \in Events : ran'[e] > 0 => ran[e] > 0
    PROVE  RowsInv'
<1> SUFFICES ASSUME NEW d \in steady', ran'[d[2]] > 0 PROVE row'[d].status # "none"
  BY DEF RowsInv
<1>1. CInv /\ d \in steady
  BY DEF Both
<1>2. d \in P!Deliveries /\ d[2] \in Events
  BY <1>1, HookParts DEF W!Deliveries
<1>3. row[d].status # "none"
  BY <1>1, <1>2 DEF RowsInv
<1> QED
  BY <1>1, <1>2, <1>3, StepOfSide, OwedRowStays DEF Both

LEMMA RowsByReturn ==
    ASSUME Both, RowsInv, [CNext]_cvars, NEW c \in Consumers, Return(c)
    PROVE  RowsInv'
<1> SUFFICES ASSUME NEW d \in steady', ran'[d[2]] > 0 PROVE row'[d].status # "none"
  BY DEF RowsInv
<1>1. /\ CInv /\ cons[c].pc = "run" /\ Through(c) /\ ~fan[c].err
      /\ UNCHANGED <<row, steady>>
  BY DEF Both, Return, Handle, hook
<1>2. PICK i \in cons[c].todo : Lowest(cons[c].todo, i) /\ Runs({i})
  BY DEF Return, Handle
<1>3. d \in steady /\ d[2] \in Events
  BY <1>1, HookParts DEF W!Deliveries
<1>4. fan[c].event = log[i]
  BY <1>1, <1>2, BusParts DEF Ties, InHandler
<1>5. CASE d[2] = log[i]
  <2>1. P!InView(c, d)
    BY <1>3 DEF Both, P!OwedInv
  <2> QED
    BY <1>1, <1>4, <1>5, <2>1 DEF P!InView, Through
<1>6. CASE d[2] # log[i]
  <2>1. {j \in {i} : log[j] = d[2]} = {}
    BY <1>6
  <2>2. ran'[d[2]] = ran[d[2]] + 0 /\ ran[d[2]] \in Nat
    BY <1>1, <1>2, <1>3, <2>1, FS_EmptySet, BusParts DEF Runs, Tally, TypeOK
  <2> QED
    BY <1>1, <1>3, <2>2 DEF RowsInv
<1> QED
  BY <1>5, <1>6

\* Who is owed an event from its publication on: nobody handled that yet.
LEMMA RowsByPublication ==
    ASSUME Both, RowsInv, [CNext]_cvars, NEW r \in Relays, Announce(r)
    PROVE  RowsInv'
<1> SUFFICES ASSUME NEW d \in steady', ran'[d[2]] > 0 PROVE row'[d].status # "none"
  BY DEF RowsInv
<1>1. /\ CInv /\ UNCHANGED <<row, ran>>
      /\ d \in steady \/ (d \in W!Deliveries /\ Entries(d[2]) = {})
  BY DEF Both, Announce, Ship, ShipFails, work
<1>2. d \in W!Deliveries
  BY <1>1, HookParts
<1>3. d[2] \in Events
  BY <1>2 DEF W!Deliveries
<1>4. d \in steady
  BY <1>1, <1>3, BusParts
<1> QED
  BY <1>1, <1>4 DEF RowsInv

\* The webhooks side alone makes nobody owed more.
LEMMA NobodyMoreIsOwed ==
    ASSUME CInv, HookStep
    PROVE  steady' \subseteq steady
<1>1. CASE W!Admin
  BY <1>1 DEF W!Admin, W!CreateSubscription, W!UpdateSubscription, W!ArchiveSubscription,
     W!ChangeSight, W!StillSteady
<1>2. CASE W!Time
  BY <1>2 DEF W!Time, W!BackoffElapses, W!LeaseLapses, W!ghosts
<1>3. ASSUME NEW c \in Consumers, FanOut(c) PROVE steady' = steady
  BY <1>3 DEF FanOut, W!CheckOwner, W!CheckOwnerFails, W!Enqueue, W!AttemptFirst, W!ghosts
<1>4. ASSUME NEW p \in Sweepers \cup Replayers, NEW d \in W!Deliveries,
             W!ClaimDueRetry(p, d) \/ W!RequireReplay(p, d)
      PROVE  steady' = steady
  BY <1>4 DEF W!ClaimDueRetry, W!RequireReplay, W!ghosts
<1>5. ASSUME NEW p \in W!Senders, W!Attempt(p) \/ W!CheckFails(p) \/ W!Abandon(p)
      PROVE  steady' = steady
  BY <1>5 DEF W!Attempt, W!LoadTarget, W!StillOwner, W!StillSees, W!CheckFails,
     W!MarkVisibilityRevoked, W!ResetForReplay, W!Post, W!FailUnsent, W!RecordOutcome,
     W!Abandon, W!ghosts
<1> QED
  BY <1>1, <1>2, <1>3, <1>4, <1>5 DEF HookStep

LEMMA RowsStep == Both /\ RowsInv /\ [CNext]_cvars => RowsInv'
<1> SUFFICES ASSUME Both, RowsInv, [CNext]_cvars PROVE RowsInv'
  OBVIOUS
<1>0. CInv
  BY DEF Both
<1>1. ASSUME ran' = ran, steady' \subseteq steady PROVE RowsInv'
  BY <1>1, RowsByStanding
<1>2. CASE BusStep
  BY <1>1, <1>2 DEF BusStep, hook, Write, Stage, Settle, Take, Stamp, RelayDies, ReadFresh,
     Reclaim, EnsureGroup, Ack, ghosts
<1>3. ASSUME NEW c \in Consumers, CheckAndCall(c) \/ ReturnAndMark(c) PROVE RowsInv'
  BY <1>1, <1>3 DEF CheckAndCall, Check, ReturnAndMark, Mark, ghosts
<1>4. ASSUME NEW c \in Consumers, ReturnError(c) \/ HandlerFails(c) PROVE RowsInv'
  BY <1>1, <1>4 DEF ReturnError, HandlerFails, GiveUp
<1>5. ASSUME NEW c \in Consumers, ProcessDies(c) PROVE RowsInv'
  BY <1>1, <1>5 DEF ProcessDies, ConsumerDies, GiveUp, hook
<1>6. ASSUME NEW c \in Consumers, LookFails(c) PROVE RowsInv'
  <2>1. steady' = steady
    BY <1>6 DEF LookFails, hook
  <2> QED
    BY <1>0, <1>1, <1>6, <2>1, LookRunsNothing
<1>7. ASSUME NEW e \in Events, Lapse(e) PROVE RowsInv'
  <2>1. steady' = steady /\ (ran' = ran)
    BY <1>7 DEF Lapse, MarkExpires
  <2> QED
    BY <1>1, <2>1
<1>8. CASE HookStep
  BY <1>0, <1>1, <1>8, NobodyMoreIsOwed DEF HookStep, vars, ghosts
<1>9. CASE UNCHANGED cvars
  BY <1>1, <1>9 DEF cvars, vars, ghosts, hook
<1> QED
  BY <1>2, <1>3, <1>4, <1>5, <1>6, <1>7, <1>8, <1>9, RowsByReturn, RowsByPublication DEF CNext

LEMMA RowsInductive == CSpec => [](Both /\ RowsInv)
<1>1. CInit => RowsInv
  BY DEF CInit, W!Init, RowsInv
<1>2. CSpec => []Both
  BY CInductive, HookInductive, PTL DEF Both
<1> QED
  BY <1>1, <1>2, RowsStep, PTL DEF CSpec

-----------------------------------------------------------------------------
(* The theorems.                                                           *)

\* Seen from HandleEvent, relays, stream, group and Dedupe are the bus that
\* WebhookDelivery assumes, whatever dies, is slow, is trimmed or is repeated: the
\* handler is called for published events without a mark only, and an event is
\* marked only when it returned without an error.
THEOREM BusIsAsAssumed == CSpec => ImplementsWebhooks
<1>1. CInit => W!Init
  BY DEF CInit
<1> QED
  BY <1>1, StepOfHook, CInductive, PTL DEF CSpec, ImplementsWebhooks, W!Spec

\* So what is proved of HandleEvent under its assumption holds of it behind the
\* real bus: copies of an entry, entries taken over and lapsed marks make no second
\* first attempt and lose nothing that was owed, and a budget is overdrawn by faults
\* of the webhooks side alone.
THEOREM WebhookPromisesKept ==
    CSpec => [](W!FirstAttemptOnce /\ W!NothingOwedIsLost /\ W!BudgetHolds)
<1>1. P!Spec => []P!FirstAttemptOnce
  BY HookAssumptions, P!FirstsOnce
<1>2. P!Spec => []P!NothingOwedIsLost
  BY HookAssumptions, P!OwedIsKept
<1>3. P!Spec => []P!BudgetHolds
  BY HookAssumptions, P!BudgetIsKept
<1>4. /\ P!FirstAttemptOnce => W!FirstAttemptOnce
      /\ P!NothingOwedIsLost => W!NothingOwedIsLost
      /\ P!BudgetHolds => W!BudgetHolds
  BY DEF P!FirstAttemptOnce, W!FirstAttemptOnce, P!NothingOwedIsLost, W!NothingOwedIsLost,
     P!BudgetHolds, W!BudgetHolds, P!Deliveries, W!Deliveries
<1> QED
  BY <1>1, <1>2, <1>3, <1>4, HookSpec, PTL

\* Whatever fails, dies or is repeated between the commit and the row: of an event
\* relayBatch stamped, with no entry trimmed, every subscription that was owed it
\* when it was published and stayed so has its row, or the group is still to be
\* given an entry of it.
THEOREM OwedIsServed == CSpec => []OwedReachesRow
<1>1. Both /\ RowsInv /\ Accounted => OwedReachesRow
  <2> SUFFICES ASSUME Both, RowsInv, Accounted, NEW d \in steady,
                      outbox[d[2]] = "published", d[2] \notin cut
               PROVE  row[d].status # "none" \/ Owed(d[2]) # {}
    BY DEF OwedReachesRow
  <2>1. CInv
    BY DEF Both
  <2>2. d[2] \in Events /\ passed = {}
    BY <2>1, HookParts, BusParts DEF W!Deliveries
  <2>3. Owed(d[2]) # {} \/ ran[d[2]] > 0
    BY <2>2 DEF Accounted, Done
  <2> QED
    BY <2>3 DEF RowsInv
<1> QED
  BY <1>1, RowsInductive, BackboneKept, PublishedIsAccounted, PTL
=============================================================================
