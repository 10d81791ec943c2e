--------------------------- MODULE EventToWebhook ---------------------------
(***************************************************************************)
(* The consumer group cg:webhooks as cmd/api wires it: a subscriber of the *)
(* event backbone whose handler, behind Dedupe, is HandleEvent of the      *)
(* webhooks module.  EventBus and WebhookDelivery run side by side and     *)
(* meet in the subscriber's calls of the handler and in its marks.         *)
(*                                                                         *)
(* WebhookDelivery assumes of its bus that an event comes until it is      *)
(* acknowledged.  Here that bus is the outbox, the relays, the stream and  *)
(* the group, and a joint step says what each side does, never that the    *)
(* other allows it.                                                        *)
(***************************************************************************)
EXTENDS EventBus

CONSTANTS
    Subs, Owners, Sweepers, Replayers, None,
    MaxAttempts, MaxClaims, MaxEdits,
    MaxHookFaults  \* bound: faults of the webhooks side, MaxFaults of WebhookDelivery

VARIABLES sub, sees, row, issued, fan, at, edits, hookFaults, firsts, sent, steady

\* The group is given every event, imports too, and one at a time.
ASSUME GroupAssumption == Imported = {} /\ Modes = {FALSE}
ASSUME HookSizeAssumption ==
    /\ MaxAttempts \in Nat \ {0}
    /\ MaxClaims \in Nat /\ MaxEdits \in Nat /\ MaxHookFaults \in Nat
ASSUME HookProcessAssumption ==
    Consumers \cap (Sweepers \cup Replayers) = {} /\ Sweepers \cap Replayers = {}
ASSUME NobodyAssumption == None \notin (Subs \X Events) \cup Owners \cup Events

\* What the webhooks side sees of an event: nothing, an entry that may be handed
\* to its handler, or a mark that keeps the handler from it.
Bus == [e \in Events |->
          CASE e \in marks -> "acked"
            [] e \notin marks /\ Entries(e) # {} -> "ready"
            [] OTHER -> "unpublished"]

W == INSTANCE WebhookDelivery WITH
    bus <- Bus, faults <- hookFaults, MaxFaults <- MaxHookFaults

work == <<row, issued, at, firsts, sent>>
admin == <<sub, sees, edits>>
hook == <<sub, sees, row, issued, fan, at, edits, hookFaults, firsts, sent, steady>>

----------------------------------------------------------------------------
(* Steps of the backbone in which no handler runs. *)

BusStep ==
    /\ \/ Write
       \/ \E r \in Relays : Take(r) \/ Stamp(r) \/ RelayDies(r)
       \/ \E c \in Consumers : ReadFresh(c) \/ Reclaim(c) \/ EnsureGroup(c) \/ Ack(c)
    /\ UNCHANGED hook

\* An event's first entry is its publication: who is owed it then, is owed it.
Announce(r) ==
    /\ Ship(r) \/ ShipFails(r)
    /\ steady' = steady \cup {d \in W!Deliveries : /\ Entries(d[2]) = {} /\ Entries(d[2])' # {}
                                                   /\ W!Eligible(d)}
    /\ UNCHANGED <<admin, work, fan, hookFaults>>

----------------------------------------------------------------------------
(* The handler behind Dedupe. *)

\* No mark: HandleEvent begins, by matching subscriptions.
CheckAndCall(c) ==
    /\ Check(c)
    /\ \E i \in cons[c].todo :
         /\ Lowest(cons[c].todo, i)
         /\ IF Seen(log[i]) THEN UNCHANGED fan ELSE W!Match(c, log[i])
    /\ UNCHANGED <<admin, work, hookFaults, steady>>

\* HandleEvent and the first attempts it makes.
FanOut(c) == W!CheckOwner(c) \/ W!CheckOwnerFails(c) \/ W!Enqueue(c) \/ W!AttemptFirst(c)

Through(c) == fan[c].pc = "attempt" /\ fan[c].targets = {} /\ at[c] = W!Idle

\* HandleEvent returns nil ...
Return(c) ==
    /\ Handle(c)
    /\ Through(c) /\ ~fan[c].err
    /\ UNCHANGED hook

LeaveHandler(c) == fan' = [fan EXCEPT ![c] = W!IdleFan]

\* ... and Dedupe marks the event.
ReturnAndMark(c) ==
    /\ Mark(c)
    /\ LeaveHandler(c)
    /\ UNCHANGED <<admin, work, hookFaults, steady>>

\* HandleEvent returns the error it retained: no mark, the entry stays pending.
ReturnError(c) ==
    /\ DeliverFails(c)
    /\ cons[c].pc = "run" /\ ran' = ran
    /\ Through(c) /\ fan[c].err
    /\ LeaveHandler(c)
    /\ UNCHANGED <<admin, work, hookFaults, steady>>

\* The look for the mark fails: HandleEvent is not called.
LookFails(c) ==
    /\ DeliverFails(c)
    /\ cons[c].pc = "check"
    /\ UNCHANGED hook

\* The handler is given up half way, or its mark is not set.
GiveUp(c) ==
    /\ hookFaults < MaxHookFaults
    /\ hookFaults' = hookFaults + 1
    /\ LeaveHandler(c)
    /\ at' = [at EXCEPT ![c] = W!Idle]
    /\ UNCHANGED <<admin, row, issued, firsts, sent, steady>>

HandlerFails(c) ==
    /\ DeliverFails(c)
    /\ cons[c].pc \in {"run", "mark"} /\ ran' = ran
    /\ GiveUp(c)

\* The process dies, in the handler or outside it.
ProcessDies(c) ==
    /\ ConsumerDies(c)
    /\ IF cons[c].pc \in {"run", "mark"} THEN GiveUp(c) ELSE UNCHANGED hook

\* The mark lapses under an entry that is still to come, or under none.
Lapse(e) ==
    /\ MarkExpires(e)
    /\ hookFaults < MaxHookFaults
    /\ hookFaults' = hookFaults + 1
    /\ UNCHANGED <<admin, work, fan, steady>>

----------------------------------------------------------------------------
CInit == Init /\ W!Init

\* Steps of the webhooks side alone.
HookStep ==
    /\ UNCHANGED vars
    /\ \/ W!Admin
       \/ \E c \in Consumers : FanOut(c)
       \/ \E p \in Sweepers, d \in W!Deliveries : W!ClaimDueRetry(p, d)
       \/ \E p \in Replayers, d \in W!Deliveries : W!RequireReplay(p, d)
       \/ \E p \in W!Senders : W!Attempt(p) \/ W!CheckFails(p) \/ W!Abandon(p)
       \/ W!Time

CNext ==
    \/ BusStep
    \/ \E r \in Relays : Announce(r)
    \/ \E c \in Consumers :
         \/ CheckAndCall(c) \/ Return(c) \/ ReturnAndMark(c) \/ ReturnError(c)
         \/ LookFails(c) \/ HandlerFails(c) \/ ProcessDies(c)
    \/ \E e \in Events : Lapse(e)
    \/ HookStep

cvars == <<vars, hook>>
CSpec == CInit /\ [][CNext]_cvars

----------------------------------------------------------------------------
(* Properties. *)

\* What WebhookDelivery assumes of its bus is what relays, stream, group and
\* Dedupe give it (cmd/api wires them): seen from the webhooks module, every
\* behaviour of the backbone is one that module was checked against.
ImplementsWebhooks == W!Spec

\* From the outbox to the row: of a stamped event whose entry was not trimmed,
\* every subscription owed it since publication has its row, or the group is
\* still to be given an entry. Neither module says so alone (relayBatch,
\* deliver, Dedupe, the retained error of HandleEvent).
OwedReachesRow ==
    \A d \in steady :
        outbox[d[2]] = "published" /\ d[2] \notin cut =>
            row[d].status # "none" \/ Owed(d[2]) # {}
=============================================================================
