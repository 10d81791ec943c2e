------------------------------ MODULE EventBus ------------------------------
(***************************************************************************)
(* The event backbone (backend/internal/platform/events): the outbox that  *)
(* transactions stage events in, the relays that ship committed rows to a  *)
(* Redis stream, and one consumer group of subscribers behind Dedupe.      *)
(*                                                                         *)
(* One stream and one group stand for all of them: streams share nothing,  *)
(* and each group has its own position, pending list and marks.  Every     *)
(* transaction, Redis command and handler call is a step of its own, so    *)
(* relays, consumers and a data reset interleave and die between any two.  *)
(***************************************************************************)
EXTENDS Naturals, Sequences, FiniteSets

CONSTANTS
    Events, EntityOf,
    Imported,     \* events an import wrote; this group leaves them out
    Relays, Consumers,
    Limit,        \* batchSize of the relay
    Count,        \* batch of the subscriber: entries of one read
    Modes,        \* was the subscriber given a BatchHandler (WithBatch)? TRUE, FALSE
    MaxLen,       \* the stream's cap
    MaxFaults,    \* bound: crashes, failed calls and expired marks
    MaxSlow,      \* bound: entries reclaimed from a consumer still at work
    MaxResets     \* bound: data resets

ASSUME EventsAssumption == IsFiniteSet(Events)
ASSUME EntityAssumption == DOMAIN EntityOf = Events
ASSUME ImportedAssumption == Imported \subseteq Events
ASSUME SizeAssumption ==
    /\ Limit \in Nat \ {0} /\ Count \in Nat \ {0} /\ MaxLen \in Nat \ {0}
    /\ Modes \subseteq BOOLEAN
    /\ MaxFaults \in Nat /\ MaxSlow \in Nat /\ MaxResets \in Nat

VARIABLES
    outbox,  \* event_outbox: where each event's row is
    seq,     \* event_outbox.seq, 0 before the insert
    log,     \* every entry ever added to the stream, in order; its id is its place
    low,     \* entries up to this id were trimmed or unlinked
    group,   \* the consumer group: whether it exists, its last-delivered id, and
             \* whether its subscribers take the entries of a read as one batch
    pel,     \* its pending entries: delivered, not acknowledged
    relay,   \* each relay's pass
    cons,    \* each consumer's entries in hand
    marks,   \* the dedupe keys that are set
    reset,   \* a data reset's progress, and the rows its DELETE is about
    faults, slow,
    ran,     \* history: how often the handler's effect was run for an event
    passed,  \* history: events acknowledged without an effect
    cut,     \* history: events an entry of which was trimmed or unlinked
    excused  \* history: reasons why an effect may be run once more

staging == <<outbox, seq>>
stream == <<log, low>>
ghosts == <<ran, passed, cut, excused>>
vars == <<outbox, seq, log, low, group, pel, relay, cons, marks, reset,
          faults, slow, ran, passed, cut, excused>>

Ids == 1 .. Len(log)
OnStream == {i \in Ids : i > low}

IdlePass == [pc |-> "idle", batch |-> {}, shipped |-> {}]
IdleConsumer == [pc |-> "idle", todo |-> {}, fresh |-> {}]

RelayPass == [pc : {"idle", "ship", "stamp"},
              batch : SUBSET Events, shipped : SUBSET Events]
EntryPcs == {"check", "run", "mark", "ack"}
BatchPcs == {"bcheck", "brun", "bmark", "back"}

TypeOK ==
    /\ outbox \in [Events -> {"none", "staged", "aborted", "committed", "published", "deleted"}]
    /\ seq \in [Events -> Nat]
    /\ log \in Seq(Events)
    /\ low \in 0 .. Len(log)
    /\ group \in [exists : BOOLEAN, last : Nat, batched : BOOLEAN]
    /\ pel \subseteq Ids
    /\ relay \in [Relays -> RelayPass]
    /\ \A r \in Relays : \A e \in relay[r].batch : outbox[e] = "committed"
    /\ cons \in [Consumers -> [pc : {"idle"} \cup EntryPcs \cup BatchPcs,
                               todo : SUBSET Ids, fresh : SUBSET Ids]]
    /\ marks \subseteq Events
    /\ reset \in [pc : {"idle", "clearing", "cleared", "unlinked", "restored", "done"},
                  doomed : SUBSET Events, taken : 0 .. MaxResets]
    /\ faults \in 0 .. MaxFaults
    /\ slow \in 0 .. MaxSlow
    /\ ran \in [Events -> Nat]
    /\ passed \subseteq Events
    /\ cut \subseteq Events
    /\ excused \in [Events -> Nat]

Fault == faults < MaxFaults /\ faults' = faults + 1

----------------------------------------------------------------------------
(* Staging: a transaction inserts its event beside its domain write.        *)

\* Two transactions on one entity wait on its row lock, so the second one
\* inserts after the first one has ended.
Stage(e) ==
    /\ outbox[e] = "none"
    /\ \A f \in Events : EntityOf[f] = EntityOf[e] => outbox[f] # "staged"
    /\ outbox' = [outbox EXCEPT ![e] = "staged"]
    /\ seq' = [seq EXCEPT ![e] = 1 + Cardinality({f \in Events : seq[f] > 0})]
    /\ UNCHANGED <<stream, group, pel, relay, cons, marks, reset, faults, slow, ghosts>>

Settle(e) ==
    /\ outbox[e] = "staged"
    /\ \E end \in {"committed", "aborted"} : outbox' = [outbox EXCEPT ![e] = end]
    /\ UNCHANGED <<seq, stream, group, pel, relay, cons, marks, reset, faults, slow, ghosts>>

----------------------------------------------------------------------------
(* relayBatch: one transaction that locks a batch, adds each row to the     *)
(* stream and stamps those that were added.                                 *)

Before(e, f) == seq[e] < seq[f]

\* published_at IS NULL ... FOR UPDATE SKIP LOCKED
Unpublished == {e \in Events : outbox[e] = "committed"
                               /\ \A r \in Relays : e \notin relay[r].batch}

\* ... ORDER BY seq LIMIT
FirstRows(rows) == {e \in rows : Cardinality({f \in rows : Before(f, e)}) < Limit}

Take(r) ==
    /\ relay[r] = IdlePass
    /\ Unpublished # {}
    /\ relay' = [relay EXCEPT ![r] = [pc |-> "ship", batch |-> FirstRows(Unpublished),
                                      shipped |-> {}]]
    /\ UNCHANGED <<staging, stream, group, pel, cons, marks, reset, faults, slow, ghosts>>

Larger(m, n) == IF m > n THEN m ELSE n

\* XADD ... MAXLEN ~: old entries may go once there are more than MaxLen.
Added(e) ==
    /\ log' = Append(log, e)
    /\ \E gone \in low .. Larger(low, Len(log) + 1 - MaxLen) :
         /\ low' = gone
         /\ cut' = cut \cup {log'[i] : i \in low + 1 .. gone}

NextToShip(r, e) ==
    /\ e \in relay[r].batch \ relay[r].shipped
    /\ \A f \in relay[r].batch \ relay[r].shipped : f # e => Before(e, f)

Ship(r) ==
    /\ relay[r].pc = "ship"
    /\ \E e \in Events :
         /\ NextToShip(r, e)
         /\ Added(e)
         /\ relay' = [relay EXCEPT
                ![r].shipped = relay[r].shipped \cup {e},
                ![r].pc = IF relay[r].batch = relay[r].shipped \cup {e} THEN "stamp" ELSE "ship"]
    /\ UNCHANGED <<staging, group, pel, cons, marks, reset, faults, slow, ran, passed, excused>>

\* Mutant: the pass goes on with the next row after a failed XADD.
ShipFailsSkips(r) ==
    /\ relay[r].pc = "ship"
    /\ Fault
    /\ \E e \in Events :
         /\ NextToShip(r, e)
         /\ relay' = [relay EXCEPT ![r].batch = relay[r].batch \ {e},
                                   ![r].pc = IF relay[r].batch \ {e} = relay[r].shipped
                                               THEN "stamp" ELSE "ship"]
    /\ UNCHANGED <<staging, stream, group, pel, cons, marks, reset, slow, ghosts>>

\* An XADD answers with an error, whether or not Redis took the entry: the pass
\* stops there and stamps what was shipped before; with nothing shipped it rolls back.
ShipFails(r) ==
    /\ relay[r].pc = "ship"
    /\ Fault
    /\ \E e \in Events : NextToShip(r, e) /\ (Added(e) \/ UNCHANGED <<log, low, cut>>)
    /\ relay' = [relay EXCEPT ![r] = IF relay[r].shipped = {} THEN IdlePass
                                     ELSE [relay[r] EXCEPT !.pc = "stamp"]]
    /\ UNCHANGED <<staging, group, pel, cons, marks, reset, slow, ran, passed, excused>>

\* UPDATE published_at of the shipped rows, and commit.
Stamp(r) ==
    /\ relay[r].pc = "stamp"
    /\ outbox' = [e \in Events |-> IF e \in relay[r].shipped THEN "published" ELSE outbox[e]]
    /\ relay' = [relay EXCEPT ![r] = IdlePass]
    /\ UNCHANGED <<seq, stream, group, pel, cons, marks, reset, faults, slow, ghosts>>

\* The relay dies, or its UPDATE or COMMIT fails: the rows stay unpublished.
RelayDies(r) ==
    /\ relay[r] # IdlePass
    /\ Fault
    /\ relay' = [relay EXCEPT ![r] = IdlePass]
    /\ UNCHANGED <<staging, stream, group, pel, cons, marks, reset, slow, ghosts>>

----------------------------------------------------------------------------
(* The subscriber takes entries up: fresh ones, or ones left pending.       *)

Lowest(S, i) == i \in S /\ \A j \in S : i <= j

\* deliverAll: one entry at a time, or as one batch.
InHand(S) ==
    IF S = {} THEN IdleConsumer
    ELSE [pc |-> IF group.batched /\ Cardinality(S) >= 2 THEN "bcheck" ELSE "check",
          todo |-> S, fresh |-> {}]

\* After one entry is dealt with, the next one of the read.
OneByOne(S) == IF S = {} THEN IdleConsumer ELSE [pc |-> "check", todo |-> S, fresh |-> {}]

\* XREADGROUP ">": the next Count entries no consumer was given.
ReadFresh(c) ==
    LET start == Larger(group.last, low)
        got == {i \in Ids : i > start /\ i <= start + Count} IN
    /\ cons[c].pc = "idle"
    /\ group.exists
    /\ got # {}
    /\ cons' = [cons EXCEPT ![c] = InHand(got)]
    /\ pel' = pel \cup got
    /\ group' = [group EXCEPT !.last = CHOOSE i \in got : \A j \in got : j <= i]
    /\ UNCHANGED <<staging, stream, relay, marks, reset, faults, slow, ghosts>>

AtWork(i) == \E c \in Consumers : i \in cons[c].todo

\* Mutant: the reclaim pass is disabled.
ReclaimNothing(c) == FALSE

\* XAUTOCLAIM of entries pending longer than minIdle. Entries that are no longer
\* on the stream leave the pending list. minIdle is to exceed any handler's run,
\* but idle time counts from the read: an entry some consumer has yet to get to
\* may be claimed too.
Reclaim(c) ==
    /\ cons[c].pc = "idle"
    /\ group.exists
    /\ \E S \in SUBSET pel :
         /\ S # {} /\ Cardinality(S) <= Count
         /\ IF \E i \in S : AtWork(i)
              THEN slow < MaxSlow /\ slow' = slow + 1
              ELSE UNCHANGED slow
         /\ cons' = [cons EXCEPT ![c] = InHand(S \cap OnStream)]
         /\ pel' = pel \ {i \in S : i \notin OnStream}
    /\ UNCHANGED <<staging, stream, group, relay, marks, reset, faults, ghosts>>

\* Mutant: a group is declared at the end of the stream, "$".
GroupAtEnd == [group EXCEPT !.exists = TRUE, !.last = Len(log)]

\* XGROUP CREATE ... MKSTREAM "0".
GroupAtStart == [group EXCEPT !.exists = TRUE, !.last = 0]

\* ensureGroups at start and after NOGROUP.
EnsureGroup(c) ==
    /\ cons[c].pc = "idle"
    /\ ~group.exists
    /\ group' = GroupAtStart
    /\ UNCHANGED <<staging, stream, pel, relay, cons, marks, reset, faults, slow, ghosts>>

----------------------------------------------------------------------------
(* deliver: one entry through Dedupe, and its XACK.                         *)

\* The entries whose effect a consumer has decided to run.
Past(c) ==
    CASE cons[c].pc \in {"run", "mark"} -> {i \in cons[c].todo : Lowest(cons[c].todo, i)}
      [] cons[c].pc \in {"brun", "bmark"} -> cons[c].fresh
      [] OTHER -> {}

Raced(c, i) == \E d \in Consumers \ {c} : \E j \in Past(d) : log[j] = log[i]

\* The entries of S without the later copies of an event a relay shipped twice.
Firsts(S) == {i \in S : \A j \in S : log[j] = log[i] => i <= j}

EventsOf(S) == {log[i] : i \in S}
Tally(count, S) == [e \in Events |-> count[e] + Cardinality({i \in S : log[i] = e})]
Excuse(S) == excused' = Tally(excused, S)
Runs(S) == ran' = Tally(ran, S)
ExcuseMarks(S) == excused' = [e \in Events |-> excused[e] + Cardinality({e} \cap S)]

Goto(c, pc) == cons' = [cons EXCEPT ![c].pc = pc]

LeaveOut(c) ==
    /\ cons[c].pc = "check"
    /\ \E i \in cons[c].todo :
         /\ Lowest(cons[c].todo, i)
         /\ log[i] \in Imported
         /\ passed' = passed \cup {log[i]}
    /\ Goto(c, "ack")
    /\ UNCHANGED <<staging, stream, group, pel, relay, marks, reset, faults, slow, ran, cut, excused>>

\* Mutant: the marks are not looked at.
SeenNever(e) == FALSE

\* EXISTS of the event's dedupe key.
Seen(e) == e \in marks

\* Mutant: the event is marked before its effect is run.
MarkFirst(c) ==
    /\ cons[c].pc = "check"
    /\ \E i \in cons[c].todo :
         /\ Lowest(cons[c].todo, i)
         /\ log[i] \notin Imported
         /\ Goto(c, IF Seen(log[i]) THEN "ack" ELSE "run")
         /\ Excuse({j \in {i} : ~Seen(log[i]) /\ Raced(c, i)})
         /\ marks' = marks \cup {log[i]}
    /\ UNCHANGED <<staging, stream, group, pel, relay, reset, faults, slow, ran, passed, cut>>

Check(c) ==
    /\ cons[c].pc = "check"
    /\ \E i \in cons[c].todo :
         /\ Lowest(cons[c].todo, i)
         /\ log[i] \notin Imported
         /\ Goto(c, IF Seen(log[i]) THEN "ack" ELSE "run")
         /\ Excuse({j \in {i} : ~Seen(log[i]) /\ Raced(c, i)})
    /\ UNCHANGED <<staging, stream, group, pel, relay, marks, reset, faults, slow, ran, passed, cut>>

Handle(c) ==
    /\ cons[c].pc = "run"
    /\ \E i \in cons[c].todo : Lowest(cons[c].todo, i) /\ Runs({i})
    /\ Goto(c, "mark")
    /\ UNCHANGED <<staging, stream, group, pel, relay, marks, reset, faults, slow, passed, cut, excused>>

\* ErrUnactionable: the subject is gone.
Unactionable(c) ==
    /\ cons[c].pc = "run"
    /\ \E i \in cons[c].todo : Lowest(cons[c].todo, i) /\ passed' = passed \cup {log[i]}
    /\ Goto(c, "ack")
    /\ UNCHANGED <<staging, stream, group, pel, relay, marks, reset, faults, slow, ran, cut, excused>>

Mark(c) ==
    /\ cons[c].pc = "mark"
    /\ \E i \in cons[c].todo : Lowest(cons[c].todo, i) /\ marks' = marks \cup {log[i]}
    /\ Goto(c, "ack")
    /\ UNCHANGED <<staging, stream, group, pel, relay, reset, faults, slow, ghosts>>

\* The check, the handler or the mark fails: the entry stays pending. A handler
\* may fail before or after its effect.
DeliverFails(c) ==
    /\ cons[c].pc \in {"check", "run", "mark"}
    /\ Fault
    /\ \E i \in cons[c].todo, did \in BOOLEAN :
         /\ Lowest(cons[c].todo, i)
         /\ did => cons[c].pc = "run"
         /\ Runs(IF did THEN {i} ELSE {})
         /\ Excuse(IF did \/ cons[c].pc = "mark" THEN {i} ELSE {})
         /\ cons' = [cons EXCEPT ![c] = OneByOne(cons[c].todo \ {i})]
    /\ UNCHANGED <<staging, stream, group, pel, relay, marks, reset, slow, passed, cut>>

\* XACK does not ask who holds the entry.
Ack(c) ==
    /\ cons[c].pc = "ack"
    /\ \E i \in cons[c].todo :
         /\ Lowest(cons[c].todo, i)
         /\ \/ pel' = pel \ {i} /\ UNCHANGED faults
            \/ Fault /\ UNCHANGED pel
         /\ cons' = [cons EXCEPT ![c] = OneByOne(cons[c].todo \ {i})]
    /\ UNCHANGED <<staging, stream, group, relay, marks, reset, slow, ghosts>>

----------------------------------------------------------------------------
(* deliverAll with a BatchHandler behind DedupeBatch.                       *)

\* Entries the group leaves out are acknowledged before the batch is handled.
BatchLeaveOut(c) ==
    /\ cons[c].pc = "bcheck"
    /\ \E i \in cons[c].todo :
         /\ log[i] \in Imported
         /\ passed' = passed \cup {log[i]}
         /\ pel' = pel \ {i}
         /\ cons' = [cons EXCEPT ![c] = IF cons[c].todo = {i} THEN IdleConsumer
                                        ELSE [cons[c] EXCEPT !.todo = cons[c].todo \ {i}]]
    /\ UNCHANGED <<staging, stream, group, relay, marks, reset, faults, slow, ran, cut, excused>>

BatchCheck(c) ==
    /\ cons[c].pc = "bcheck"
    /\ \A i \in cons[c].todo : log[i] \notin Imported
    /\ LET fresh == {i \in cons[c].todo : ~Seen(log[i])} IN
       /\ cons' = [cons EXCEPT ![c].pc = IF fresh = {} THEN "back" ELSE "brun",
                               ![c].fresh = fresh]
       /\ Excuse({i \in Firsts(fresh) : Raced(c, i)})
    /\ UNCHANGED <<staging, stream, group, pel, relay, marks, reset, faults, slow, ran, passed, cut>>

\* Copies of one event within a batch all reach the handler: neither was marked
\* when the batch was checked.
BatchHandle(c) ==
    /\ cons[c].pc = "brun"
    /\ Runs(cons[c].fresh)
    /\ Excuse(cons[c].fresh \ Firsts(cons[c].fresh))
    /\ Goto(c, "bmark")
    /\ UNCHANGED <<staging, stream, group, pel, relay, marks, reset, faults, slow, passed, cut>>

BatchMark(c) ==
    /\ cons[c].pc = "bmark"
    /\ marks' = marks \cup EventsOf(cons[c].fresh)
    /\ Goto(c, "back")
    /\ UNCHANGED <<staging, stream, group, pel, relay, reset, faults, slow, ghosts>>

\* A step of the batch fails, in part perhaps: its entries go one by one.
BatchFails(c) ==
    /\ cons[c].pc \in {"bcheck", "brun", "bmark"}
    /\ \A i \in cons[c].todo : log[i] \notin Imported
    /\ Fault
    /\ \E S \in SUBSET cons[c].fresh :
         /\ Runs(IF cons[c].pc = "brun" THEN S ELSE {})
         /\ marks' = IF cons[c].pc = "bmark" THEN marks \cup EventsOf(S) ELSE marks
         /\ Excuse(CASE cons[c].pc = "brun" -> S
                     [] cons[c].pc = "bmark" ->
                          {i \in Firsts(cons[c].fresh) : log[i] \notin EventsOf(S)}
                     [] OTHER -> {})
    /\ cons' = [cons EXCEPT ![c] = OneByOne(cons[c].todo)]
    /\ UNCHANGED <<staging, stream, group, pel, relay, reset, slow, passed, cut>>

BatchAck(c) ==
    /\ cons[c].pc = "back"
    /\ \/ pel' = pel \ cons[c].todo /\ UNCHANGED faults
       \/ Fault /\ UNCHANGED pel
    /\ cons' = [cons EXCEPT ![c] = IdleConsumer]
    /\ UNCHANGED <<staging, stream, group, relay, marks, reset, slow, ghosts>>

\* A consumer dies; what it had in hand stays pending. An effect it had run but
\* not marked may be run again.
ConsumerDies(c) ==
    /\ cons[c] # IdleConsumer
    /\ Fault
    /\ Excuse(IF cons[c].pc \in {"mark", "bmark"} THEN Firsts(Past(c)) ELSE {})
    /\ cons' = [cons EXCEPT ![c] = IdleConsumer]
    /\ UNCHANGED <<staging, stream, group, pel, relay, marks, reset, slow, ran, passed, cut>>

\* DedupeTTL passes; nobody is at work on anything that long.
MarkExpires(e) ==
    /\ e \in marks
    /\ \A c \in Consumers : cons[c].pc = "idle"
    /\ Fault
    /\ marks' = marks \ {e}
    /\ ExcuseMarks({e})
    /\ UNCHANGED <<staging, stream, group, pel, relay, cons, reset, slow, ran, passed, cut>>

----------------------------------------------------------------------------
(* A data reset: clearOutbox, PurgeStreams, PurgeDedupe. Neither the relays *)
(* nor the subscribers are stopped for it.                                  *)

\* DELETE FROM event_outbox sees the rows committed so far ...
ClearOutbox ==
    /\ reset.pc \in {"idle", "done"}
    /\ reset.taken < MaxResets
    /\ reset' = [pc |-> "clearing", taken |-> reset.taken + 1,
                 doomed |-> {e \in Events : outbox[e] \in {"committed", "published"}}]
    /\ UNCHANGED <<staging, stream, group, pel, relay, cons, marks, faults, slow, ghosts>>

\* Mutant: the DELETE does not wait for the rows a relay has locked.
NoDoomedLocked == TRUE

\* ... and waits for those a relay has locked.
DoomedUnlocked == \A r \in Relays : relay[r].batch \cap reset.doomed = {}

OutboxCleared ==
    /\ reset.pc = "clearing"
    /\ DoomedUnlocked
    /\ outbox' = [e \in Events |-> IF e \in reset.doomed THEN "deleted" ELSE outbox[e]]
    /\ reset' = [reset EXCEPT !.pc = "cleared"]
    /\ UNCHANGED <<seq, stream, group, pel, relay, cons, marks, faults, slow, ghosts>>

\* UNLINK of the stream takes its groups and their pending lists with it.
UnlinkStreams ==
    /\ reset.pc = "cleared"
    /\ cut' = cut \cup {log[i] : i \in OnStream}
    /\ low' = Len(log)
    /\ group' = [group EXCEPT !.exists = FALSE]
    /\ pel' = {}
    /\ reset' = [reset EXCEPT !.pc = "unlinked"]
    /\ UNCHANGED <<staging, log, relay, cons, marks, faults, slow, ran, passed, excused>>

\* BUSYGROUP is tolerated: a subscriber may have been faster.
RestoreGroups ==
    /\ reset.pc = "unlinked"
    /\ group' = IF group.exists THEN group ELSE GroupAtStart
    /\ reset' = [reset EXCEPT !.pc = "restored"]
    /\ UNCHANGED <<staging, stream, pel, relay, cons, marks, faults, slow, ghosts>>

PurgeDedupe ==
    /\ reset.pc = "restored"
    /\ marks' = {}
    /\ ExcuseMarks(marks)
    /\ reset' = [reset EXCEPT !.pc = "done"]
    /\ UNCHANGED <<staging, stream, group, pel, relay, cons, faults, slow, ran, passed, cut>>

\* A step of the reset fails; what was cleared stays cleared.
ResetFails ==
    /\ reset.pc \notin {"idle", "done"}
    /\ Fault
    /\ reset' = [reset EXCEPT !.pc = "idle"]
    /\ UNCHANGED <<staging, stream, group, pel, relay, cons, marks, slow, ghosts>>

----------------------------------------------------------------------------
Init ==
    /\ outbox = [e \in Events |-> "none"]
    /\ seq = [e \in Events |-> 0]
    /\ log = <<>>
    /\ low = 0
    /\ group \in [exists : {FALSE}, last : {0}, batched : Modes]
    /\ pel = {}
    /\ relay = [r \in Relays |-> IdlePass]
    /\ cons = [c \in Consumers |-> IdleConsumer]
    /\ marks = {}
    /\ reset = [pc |-> "idle", doomed |-> {}, taken |-> 0]
    /\ faults = 0 /\ slow = 0
    /\ ran = [e \in Events |-> 0]
    /\ passed = {}
    /\ cut = {}
    /\ excused = [e \in Events |-> 0]

Write == \E e \in Events : Stage(e) \/ Settle(e)

RelayStep(r) == Take(r) \/ Ship(r) \/ Stamp(r)

Deliver(c) == LeaveOut(c) \/ Check(c) \/ Handle(c) \/ Unactionable(c) \/ Mark(c) \/ Ack(c)

DeliverBatch(c) ==
    BatchLeaveOut(c) \/ BatchCheck(c) \/ BatchHandle(c) \/ BatchMark(c) \/ BatchAck(c)

ConsumerStep(c) ==
    ReadFresh(c) \/ Reclaim(c) \/ EnsureGroup(c) \/ Deliver(c) \/ DeliverBatch(c)

Reset ==
    \/ ClearOutbox \/ OutboxCleared \/ UnlinkStreams \/ RestoreGroups \/ PurgeDedupe
    \/ ResetFails

Next ==
    \/ Write
    \/ \E r \in Relays : RelayStep(r) \/ ShipFails(r) \/ RelayDies(r)
    \/ \E c \in Consumers :
         ConsumerStep(c) \/ DeliverFails(c) \/ BatchFails(c) \/ ConsumerDies(c)
    \/ \E e \in Events : MarkExpires(e)
    \/ Reset

Spec == Init /\ [][Next]_vars

\* Relays and subscribers loop for as long as their processes run. Crashes,
\* failures and resets are not fair; neither is the staging of events, but a
\* transaction once begun ends.
FairSpec ==
    /\ Spec
    /\ \A e \in Events : WF_vars(Settle(e))
    /\ \A r \in Relays : WF_vars(RelayStep(r))
    /\ \A c \in Consumers : WF_vars(ConsumerStep(c))

----------------------------------------------------------------------------
(* Properties.                                                              *)

Entries(e) == {i \in Ids : log[i] = e}
Done(e) == ran[e] > 0 \/ e \in passed

\* What the group has yet to see of an event: entries not delivered, or pending.
Owed(e) == {i \in Entries(e) \cap OnStream : i > group.last \/ i \in pel}

\* An outbox row stamped published is never lost on its way (at-least-once,
\* relayBatch with deliver): its event was handled or set aside, is still to
\* come to the group, or went with a trimmed or purged stream.
Accounted ==
    \A e \in Events :
        outbox[e] = "published" /\ e \notin cut => Done(e) \/ Owed(e) # {}

\* A mark is no claim without an effect (Dedupe and DedupeBatch: run, then
\* mark): whatever crashed, an event that redelivery is to skip was handled.
MarkMeansDone == \A e \in marks : ran[e] > 0

\* Dedupe absorbs redelivery: the effect of an event is run again only because
\* a consumer died or failed between effect and mark, two consumers held the
\* event at once, a batch held two copies of it, or its mark went away.
EffectRunsExplained == \A e \in Events : ran[e] <= 1 + excused[e]

\* Relays divide the backlog (FOR UPDATE SKIP LOCKED in relayBatch): without a
\* crash or a failed call an event is added to the stream once, and each such
\* fault repeats an event at most once.
PublishedOnce == \A e \in Events : Cardinality(Entries(e)) <= 1 + faults

\* The stream has an entity's events in commit order (relayBatch: ORDER BY seq,
\* and the pass stops at the first failed XADD): an event follows every earlier
\* one of its entity that committed.
CommitOrder ==
    \A e, f \in Events :
        /\ EntityOf[e] = EntityOf[f]
        /\ seq[e] > 0 /\ Before(e, f)
        /\ outbox[e] \in {"committed", "published"}
        => \A j \in Entries(f) : \E i \in Entries(e) : i < j

\* After a data reset has emptied the streams no relay brings an event back
\* that was staged before it (clearOutbox runs before PurgeStreams and waits
\* for the batches in flight).
ResetLeavesNothing ==
    reset.pc \in {"unlinked", "restored", "done"} =>
        \A i \in OnStream : log[i] \notin reset.doomed

\* Every committed event reaches the group, whoever crashes and whenever
\* (Relay.Run, Subscriber.Run): it is handled or set aside in the end, unless a
\* reset deleted its row or its entry was trimmed.
EventsArrive ==
    \A e \in Events :
        outbox[e] = "committed" ~> (Done(e) \/ e \in cut \/ outbox[e] = "deleted")
=============================================================================
