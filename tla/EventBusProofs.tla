--------------------------- MODULE EventBusProofs ---------------------------
(***************************************************************************)
(* Theorems about EventBus, for any finite set of events, any relays and   *)
(* subscribers, any batch sizes and stream cap, and any number of faults.  *)
(*                                                                         *)
(* The inductive invariant says of the relays that no two hold one row, of *)
(* each subscriber that what it is about to acknowledge was dealt with, of *)
(* every event that it is accounted for from the moment its entry is on    *)
(* the stream, and it counts an event's entries against the faults so far. *)
(*                                                                         *)
(* Two more invariants on top of it relate a state to how it came about:   *)
(* InLine keeps an entity's events in commit order on the stream, as long  *)
(* as no two relays hold rows of one entity at once, and Balanced has      *)
(* every effect that was run more than once paid for by a cause.           *)
(***************************************************************************)
EXTENDS EventBus, FiniteSetTheorems, WellFoundedInduction, TLAPS

\* No two relays hold one row, and a relay has added rows of its own batch only.
Divided ==
    \A r \in Relays :
        /\ relay[r].shipped \subseteq relay[r].batch
        /\ \A s \in Relays : s # r => relay[r].batch \cap relay[s].batch = {}

Shipped(e) == \E r \in Relays : e \in relay[r].shipped

\* Accounted from the XADD on, before the row is stamped.
Tracked ==
    \A e \in Events :
        (outbox[e] = "published" \/ Shipped(e)) /\ e \notin cut => Done(e) \/ Owed(e) # {}

\* What a subscriber is about to acknowledge, or to mark, was dealt with.
Knows(c) ==
    /\ cons[c].fresh \subseteq cons[c].todo
    /\ cons[c].pc \in {"idle", "bcheck"} \cup EntryPcs => cons[c].fresh = {}
    /\ cons[c].pc = "mark" =>
         \A i \in cons[c].todo : Lowest(cons[c].todo, i) => ran[log[i]] > 0
    /\ cons[c].pc = "ack" =>
         \A i \in cons[c].todo : Lowest(cons[c].todo, i) => Done(log[i])
    /\ cons[c].pc \in {"brun", "bmark"} =>
         \A i \in cons[c].todo \ cons[c].fresh : Done(log[i])
    /\ cons[c].pc = "bmark" => \A i \in cons[c].fresh : ran[log[i]] > 0
    /\ cons[c].pc = "back" => \A i \in cons[c].todo : Done(log[i])

\* The rows of a finished DELETE are gone.
DoomedGone ==
    reset.pc \in {"cleared", "unlinked", "restored", "done"} =>
        \A e \in reset.doomed : outbox[e] = "deleted"

\* A row no relay has added in a pass that still stands.
Due(e) == outbox[e] \in {"none", "staged", "committed"} /\ ~Shipped(e)

\* Each entry of an event but the one of its last pass was paid for by a fault.
PaidFor ==
    \A e \in Events :
        Cardinality(Entries(e)) <= (IF Due(e) THEN 0 ELSE 1) + faults

IInv ==
    /\ TypeOK
    /\ Divided
    /\ group.last <= Len(log)
    /\ Tracked
    /\ \A c \in Consumers : Knows(c)
    /\ MarkMeansDone
    /\ DoomedGone
    /\ ResetLeavesNothing
    /\ PaidFor

-----------------------------------------------------------------------------
(* Counting and the stream.                                                *)

\* Entries are counted by natural numbers.
LEMMA IdsCounted ==
    ASSUME TypeOK, NEW S \in SUBSET Ids
    PROVE  IsFiniteSet(S) /\ Cardinality(S) \in Nat
<1>1. Len(log) \in Nat
  BY DEF TypeOK
<1>2. IsFiniteSet(Ids)
  BY <1>1, FS_Interval DEF Ids
<1>3. IsFiniteSet(S)
  BY <1>2, FS_Subset
<1> QED
  BY <1>3, FS_CardinalityType

\* A tally over entries in hand keeps the counters natural and never lowers one;
\* it raises that of every event it counts.
LEMMA TallyFacts ==
    ASSUME TypeOK, NEW count \in [Events -> Nat], NEW S \in SUBSET Ids
    PROVE  /\ Tally(count, S) \in [Events -> Nat]
           /\ \A e \in Events : Tally(count, S)[e] >= count[e]
           /\ \A i \in S : Tally(count, S)[log[i]] > 0
<1> DEFINE Of(e) == {i \in S : log[i] = e}
<1>1. ASSUME NEW e \in Events
      PROVE  IsFiniteSet(Of(e)) /\ Cardinality(Of(e)) \in Nat
  BY IdsCounted
<1>2. ASSUME NEW i \in S PROVE log[i] \in Events /\ Cardinality(Of(log[i])) > 0
  <2>1. log[i] \in Events
    BY DEF TypeOK, Ids
  <2>2. Of(log[i]) # {}
    OBVIOUS
  <2>3. Cardinality(Of(log[i])) # 0
    BY <1>1, <2>1, <2>2, FS_EmptySet
  <2> QED
    BY <1>1, <2>1, <2>3
<1>3. Tally(count, S) = [e \in Events |-> count[e] + Cardinality(Of(e))]
  BY DEF Tally
<1> HIDE DEF Of
<1>4. \A i \in S : Tally(count, S)[log[i]] > 0
  BY <1>1, <1>2, <1>3
<1> QED
  BY <1>1, <1>3, <1>4

\* XADD puts the entry behind the others and trims old ones only.
LEMMA AddedFacts ==
    ASSUME TypeOK, NEW e \in Events, Added(e)
    PROVE  /\ log' \in Seq(Events)
           /\ Len(log') = Len(log) + 1
           /\ log'[Len(log) + 1] = e
           /\ \A i \in Ids : log'[i] = log[i]
           /\ low' \in 0 .. Len(log) /\ low <= low'
           /\ cut' = cut \cup {log[i] : i \in low + 1 .. low'}
           /\ cut' \subseteq Events
<1>1. /\ log \in Seq(Events) /\ Len(log) \in Nat /\ low \in 0 .. Len(log)
      /\ MaxLen \in Nat \ {0} /\ cut \subseteq Events
  BY SizeAssumption DEF TypeOK
<1>2. log' = Append(log, e)
  BY DEF Added
<1>3. /\ log' \in Seq(Events) /\ Len(log') = Len(log) + 1
      /\ log'[Len(log) + 1] = e /\ \A i \in Ids : log'[i] = log[i]
  BY <1>1, <1>2 DEF Ids
<1>4. low' \in low .. Larger(low, Len(log) + 1 - MaxLen)
  BY DEF Added
<1>5. low' \in 0 .. Len(log) /\ low <= low'
  BY <1>1, <1>4 DEF Larger
<1>6. cut' = cut \cup {log'[i] : i \in low + 1 .. low'}
  BY DEF Added
<1>7. \A i \in low + 1 .. low' : i \in Ids /\ log'[i] = log[i] /\ log[i] \in Events
  BY <1>1, <1>3, <1>5 DEF Ids
<1>8. {log'[i] : i \in low + 1 .. low'} = {log[i] : i \in low + 1 .. low'}
  BY <1>7
<1> QED
  BY <1>1, <1>3, <1>5, <1>6, <1>7, <1>8

\* The entries of an event after one more was added.
LEMMA AddedCounts ==
    ASSUME TypeOK, NEW e \in Events, Added(e), NEW f \in Events
    PROVE  /\ Cardinality(Entries(f)) \in Nat
           /\ Cardinality(Entries(f)') = Cardinality(Entries(f)) + (IF f = e THEN 1 ELSE 0)
<1> DEFINE n == Len(log) + 1
<1>1. n \in Nat /\ n \notin Ids /\ Ids' = Ids \cup {n}
  <2>1. Len(log) \in Nat
    BY DEF TypeOK
  <2>2. Len(log') = Len(log) + 1
    BY AddedFacts
  <2> QED
    BY <2>1, <2>2 DEF Ids
<1>2. log'[n] = e /\ \A i \in Ids : log'[i] = log[i]
  BY AddedFacts
<1>3. IsFiniteSet(Entries(f)) /\ Cardinality(Entries(f)) \in Nat
  BY IdsCounted DEF Entries
<1> HIDE DEF n
<1>4. CASE f = e
  <2>1. Entries(f)' = Entries(f) \cup {n} /\ n \notin Entries(f)
    BY <1>1, <1>2, <1>4 DEF Entries
  <2> QED
    BY <1>3, <1>4, <2>1, FS_AddElement
<1>5. CASE f # e
  <2>1. Entries(f)' = Entries(f)
    BY <1>1, <1>2, <1>5 DEF Entries
  <2> QED
    BY <1>3, <1>5, <2>1
<1> QED
  BY <1>4, <1>5

-----------------------------------------------------------------------------
(* What the steps of the group have in common.                             *)

Hands == [pc : {"idle"} \cup EntryPcs \cup BatchPcs, todo : SUBSET Ids, fresh : SUBSET Ids]

ResetTyped ==
    reset \in [pc : {"idle", "clearing", "cleared", "unlinked", "restored", "done"},
               doomed : SUBSET Events, taken : 0 .. MaxResets]

\* A step of the group leaves the outbox, the stream and the relays alone (a
\* reset's steps on the group and its marks are of this kind too); it lets go of an entry only when its event was dealt with, and a subscriber whose
\* hand changes knows what it has to.
GroupMove ==
    /\ UNCHANGED <<outbox, seq, log, low, relay, cut>>
    /\ \/ reset' = reset
       \/ ResetTyped' /\ DoomedGone' /\ ResetLeavesNothing'
    /\ cons' \in [Consumers -> Hands]
    /\ \A c \in Consumers : cons'[c] = cons[c] \/ Knows(c)'
    /\ group' \in [exists : BOOLEAN, last : 0 .. Len(log), batched : BOOLEAN]
    /\ pel' \subseteq Ids
    /\ \A i \in OnStream :
         i > group.last \/ i \in pel => i > group'.last \/ i \in pel' \/ Done(log[i])'
    /\ marks' \subseteq Events /\ \A e \in marks' : e \in marks \/ ran'[e] > 0
    /\ faults' \in 0 .. MaxFaults /\ faults' >= faults
    /\ slow' \in 0 .. MaxSlow
    /\ ran' \in [Events -> Nat] /\ \A e \in Events : ran'[e] >= ran[e]
    /\ passed \subseteq passed' /\ passed' \subseteq Events
    /\ excused' \in [Events -> Nat]

LEMMA GroupKeeps ==
    ASSUME IInv, GroupMove
    PROVE  IInv'
<1>0. TypeOK /\ Len(log) \in Nat /\ group.last \in Nat
  BY DEF IInv, TypeOK
<1>1. TypeOK'
  <2>1. ResetTyped'
    BY <1>0 DEF TypeOK, GroupMove, ResetTyped
  <2> QED
    BY <1>0, <2>1 DEF TypeOK, GroupMove, Hands, Ids, ResetTyped
<1>2. Divided'
  BY DEF IInv, Divided, GroupMove
<1>3. (group.last <= Len(log))'
  BY <1>0 DEF GroupMove
<1>4. \A e \in Events : Done(e) => Done(e)'
  BY <1>0 DEF Done, GroupMove, TypeOK
<1>5. Tracked'
  <2> SUFFICES ASSUME NEW e \in Events,
                      (outbox[e] = "published" \/ Shipped(e))', e \notin cut',
                      ~Done(e)'
               PROVE  Owed(e)' # {}
    BY DEF Tracked
  <2>1. Owed(e) # {}
    BY <1>4 DEF IInv, Tracked, GroupMove, Shipped
  <2>2. PICK i \in Ids : i \in OnStream /\ log[i] = e /\ (i > group.last \/ i \in pel)
    BY <2>1 DEF Owed, Entries
  <2>3. i > group'.last \/ i \in pel'
    <3>1. Done(log[i])' = Done(e)'
      BY <2>2 DEF Done, GroupMove
    <3> QED
      BY <2>2, <3>1 DEF GroupMove
  <2>4. Ids' = Ids /\ OnStream' = OnStream /\ log' = log
    BY DEF Ids, OnStream, GroupMove
  <2>5. i \in Owed(e)'
    BY <2>2, <2>3, <2>4 DEF Owed, Entries
  <2> QED
    BY <2>5
<1>6. ASSUME NEW c \in Consumers PROVE Knows(c)'
  <2>1. CASE Knows(c)'
    BY <2>1
  <2>2. CASE cons'[c] = cons[c]
    <3>1. /\ Knows(c) /\ cons[c].todo \subseteq Ids
          /\ log' = log /\ cons'[c] = cons[c]
      BY <2>2 DEF IInv, TypeOK, GroupMove
    <3>2. \A i \in Ids : log[i] \in Events
      BY <1>0 DEF TypeOK, Ids
    <3>3. \A i \in Ids :
            /\ Done(log[i]) => Done(log[i])'
            /\ ran[log[i]] > 0 => ran'[log[i]] > 0
      BY <1>0, <1>4, <3>1, <3>2 DEF GroupMove, TypeOK
    <3> QED
      BY <3>1, <3>3 DEF Knows, Lowest
  <2> QED
    BY <2>1, <2>2 DEF GroupMove
<1>7. MarkMeansDone'
  BY <1>0 DEF IInv, MarkMeansDone, GroupMove, TypeOK
<1>8. DoomedGone' /\ ResetLeavesNothing'
  BY DEF IInv, DoomedGone, ResetLeavesNothing, GroupMove, OnStream, Ids
<1>9. PaidFor'
  <2> SUFFICES ASSUME NEW e \in Events
               PROVE  Cardinality(Entries(e)') <= (IF Due(e)' THEN 0 ELSE 1) + faults'
    BY DEF PaidFor
  <2>1. Entries(e)' = Entries(e) /\ Due(e)' = Due(e)
    BY DEF Entries, Ids, Due, Shipped, GroupMove
  <2>2. Cardinality(Entries(e)) \in Nat
    BY <1>0, IdsCounted DEF Entries
  <2>3. faults \in Nat /\ faults' \in Nat /\ faults' >= faults
    BY <1>0, SizeAssumption DEF TypeOK, GroupMove
  <2>4. Cardinality(Entries(e)) <= (IF Due(e) THEN 0 ELSE 1) + faults
    BY DEF IInv, PaidFor
  <2> QED
    BY <2>1, <2>2, <2>3, <2>4
<1> QED
  BY <1>1, <1>2, <1>3, <1>5, <1>6, <1>7, <1>8, <1>9 DEF IInv

\* What the invariant says of the parts a step of the group may touch.
LEMMA GroupParts ==
    ASSUME IInv
    PROVE  /\ cons \in [Consumers -> Hands]
           /\ group \in [exists : BOOLEAN, last : 0 .. Len(log), batched : BOOLEAN]
           /\ pel \subseteq Ids /\ marks \subseteq Events
           /\ faults \in 0 .. MaxFaults /\ slow \in 0 .. MaxSlow
           /\ ran \in [Events -> Nat] /\ excused \in [Events -> Nat] /\ passed \subseteq Events
           /\ \A i \in Ids : log[i] \in Events
           /\ \A c \in Consumers : /\ cons[c] \in Hands
                                   /\ cons[c].todo \subseteq Ids /\ cons[c].fresh \subseteq Ids
           /\ TypeOK /\ MarkMeansDone /\ \A c \in Consumers : Knows(c)
<1>1. TypeOK /\ group.last <= Len(log) /\ Len(log) \in Nat
  BY DEF IInv, TypeOK
<1>2. cons \in [Consumers -> Hands] /\ \A i \in Ids : log[i] \in Events
  BY <1>1 DEF TypeOK, Hands, Ids
<1>3. group \in [exists : BOOLEAN, last : 0 .. Len(log), batched : BOOLEAN]
  BY <1>1 DEF TypeOK
<1>4. \A c \in Consumers : /\ cons[c] \in Hands
                           /\ cons[c].todo \subseteq Ids /\ cons[c].fresh \subseteq Ids
  BY <1>2 DEF Hands
<1> QED
  BY <1>1, <1>2, <1>3, <1>4 DEF IInv, TypeOK

\* A fault is counted within its bound.
LEMMA FaultFacts ==
    ASSUME TypeOK, Fault
    PROVE  faults' \in 0 .. MaxFaults /\ faults' >= faults /\ faults' = faults + 1
BY SizeAssumption DEF TypeOK, Fault

\* A hand that was just filled claims to know nothing.
NewHand(h) == h \in Hands /\ h.pc \in {"idle", "check", "bcheck"} /\ h.fresh = {}

LEMMA NewHandFacts ==
    ASSUME IInv, NEW c \in Consumers, NEW h, NewHand(h), cons' = [cons EXCEPT ![c] = h]
    PROVE  /\ cons' \in [Consumers -> Hands]
           /\ \A d \in Consumers : cons'[d] = cons[d] \/ Knows(d)'
<1>1. cons \in [Consumers -> Hands]
  BY GroupParts
<1>2. cons'[c] = h /\ \A d \in Consumers : d # c => cons'[d] = cons[d]
  BY <1>1
<1>3. Knows(c)'
  BY <1>2 DEF Knows, NewHand
<1> QED
  BY <1>1, <1>2, <1>3 DEF NewHand

LEMMA HandsFilled ==
    ASSUME NEW S \in SUBSET Ids
    PROVE  NewHand(InHand(S)) /\ NewHand(OneByOne(S)) /\ NewHand(IdleConsumer)
BY DEF NewHand, InHand, OneByOne, IdleConsumer, Hands, EntryPcs, BatchPcs

\* A subscriber goes on with the entries it has.
LEMMA GotoFacts ==
    ASSUME IInv, NEW c \in Consumers, NEW pc \in {"idle"} \cup EntryPcs \cup BatchPcs,
           Goto(c, pc)
    PROVE  /\ cons' \in [Consumers -> Hands]
           /\ \A d \in Consumers : d # c => cons'[d] = cons[d]
           /\ cons'[c].pc = pc /\ cons'[c].todo = cons[c].todo
           /\ cons'[c].fresh = cons[c].fresh
<1>1. cons \in [Consumers -> Hands] /\ cons[c] \in Hands
  BY GroupParts
<1>2. [cons[c] EXCEPT !.pc = pc] \in Hands
  BY <1>1 DEF Hands
<1> QED
  BY <1>1, <1>2 DEF Goto, Hands

-----------------------------------------------------------------------------
(* The steps of a subscriber.                                              *)

LEMMA ReadFreshMove ==
    ASSUME IInv, NEW c \in Consumers, ReadFresh(c)
    PROVE  GroupMove
<1> DEFINE start == Larger(group.last, low)
           got == {i \in Ids : i > start /\ i <= start + Count}
           top == CHOOSE i \in got : \A j \in got : j <= i
<1>1. /\ got # {} /\ cons' = [cons EXCEPT ![c] = InHand(got)] /\ pel' = pel \cup got
      /\ group' = [group EXCEPT !.last = top]
  BY DEF ReadFresh
<1>2. /\ Len(log) \in Nat /\ group.last \in 0 .. Len(log) /\ low \in 0 .. Len(log)
      /\ Count \in Nat \ {0} /\ start \in Nat /\ start >= group.last /\ start >= low
  <2>1. TypeOK /\ group.last \in 0 .. Len(log)
    BY GroupParts
  <2>2. Len(log) \in Nat /\ low \in 0 .. Len(log) /\ Count \in Nat \ {0}
    BY <2>1, SizeAssumption DEF TypeOK
  <2> QED
    BY <2>1, <2>2 DEF Larger
<1> HIDE DEF start
<1>3. top \in got /\ \A j \in got : j <= top
  <2> DEFINE m == IF Len(log) < start + Count THEN Len(log) ELSE start + Count
  <2>1. m \in got
    BY <1>1, <1>2 DEF Ids
  <2>2. \A j \in got : j <= m
    BY <1>2 DEF Ids
  <2> QED
    BY <2>1, <2>2
<1> HIDE DEF top
<1>4. got \in SUBSET Ids
  OBVIOUS
<1>5. group' \in [exists : BOOLEAN, last : 0 .. Len(log), batched : BOOLEAN]
  <2>1. top \in 0 .. Len(log)
    BY <1>2, <1>3 DEF Ids
  <2> QED
    BY <1>1, <2>1, GroupParts
<1>6. group'.last = top
  BY <1>1, GroupParts
<1>7. ASSUME NEW i \in OnStream, i > group.last \/ i \in pel
      PROVE  i > group'.last \/ i \in pel'
  <2>1. CASE i \in pel
    BY <1>1, <2>1
  <2>2. CASE i > group.last /\ i <= top
    <3>1. i \in Ids /\ i > low /\ i \in Nat /\ top \in Nat /\ top <= start + Count
      BY <1>2, <1>3 DEF OnStream, Ids
    <3>2. i > start
      BY <2>2, <3>1 DEF start, Larger
    <3>3. i \in got
      BY <1>2, <2>2, <3>1, <3>2
    <3> QED
      BY <1>1, <3>3
  <2>3. CASE i > top
    BY <1>6, <2>3
  <2>4. i \in Nat /\ top \in Nat
    BY <1>2, <1>3 DEF OnStream, Ids
  <2> QED
    BY <1>7, <2>1, <2>2, <2>3, <2>4
<1>8. /\ cons' \in [Consumers -> Hands]
      /\ \A d \in Consumers : cons'[d] = cons[d] \/ Knows(d)'
  BY <1>1, <1>4, HandsFilled, NewHandFacts
<1>9. /\ UNCHANGED <<outbox, seq, log, low, relay, reset, cut>>
      /\ UNCHANGED <<marks, faults, slow, ran, passed, excused>>
  BY DEF ReadFresh, staging, stream, ghosts
<1> QED
  BY <1>1, <1>4, <1>5, <1>7, <1>8, <1>9, GroupParts DEF GroupMove

LEMMA ReclaimMove ==
    ASSUME IInv, NEW c \in Consumers, Reclaim(c)
    PROVE  GroupMove
<1>1. PICK S \in SUBSET pel :
        /\ slow' = slow \/ (slow < MaxSlow /\ slow' = slow + 1)
        /\ cons' = [cons EXCEPT ![c] = InHand(S \cap OnStream)]
        /\ pel' = pel \ {i \in S : i \notin OnStream}
  BY DEF Reclaim
<1>2. S \cap OnStream \in SUBSET Ids
  BY DEF OnStream
<1>3. /\ cons' \in [Consumers -> Hands]
      /\ \A d \in Consumers : cons'[d] = cons[d] \/ Knows(d)'
  BY <1>1, <1>2, HandsFilled, NewHandFacts
<1>4. slow' \in 0 .. MaxSlow
  BY <1>1, GroupParts, SizeAssumption
<1>5. /\ UNCHANGED <<outbox, seq, log, low, relay, reset, cut>>
      /\ UNCHANGED <<group, marks, faults, ran, passed, excused>>
  BY DEF Reclaim, staging, stream, ghosts
<1>6. pel' \subseteq Ids /\ \A i \in OnStream : i \in pel => i \in pel'
  BY <1>1, GroupParts
<1> QED
  BY <1>3, <1>4, <1>5, <1>6, GroupParts DEF GroupMove

\* A group declared at the start of the stream is owed all that is on it.
LEMMA GroupAtStartFacts ==
    ASSUME IInv
    PROVE  /\ GroupAtStart \in [exists : BOOLEAN, last : 0 .. Len(log), batched : BOOLEAN]
           /\ \A i \in OnStream : i > GroupAtStart.last
<1>1. Len(log) \in Nat /\ low \in Nat
  BY GroupParts DEF TypeOK
<1>2. group \in [exists : BOOLEAN, last : 0 .. Len(log), batched : BOOLEAN]
  BY GroupParts
<1>3. 0 \in 0 .. Len(log) /\ \A i \in OnStream : i > 0
  BY <1>1 DEF OnStream, Ids
<1> DEFINE there == [group EXCEPT !.exists = TRUE]
<1>4. there \in [exists : BOOLEAN, last : 0 .. Len(log), batched : BOOLEAN]
  BY <1>2
<1>5. GroupAtStart = [there EXCEPT !.last = 0]
  BY DEF GroupAtStart
<1> HIDE DEF there
<1>6. /\ GroupAtStart \in [exists : BOOLEAN, last : 0 .. Len(log), batched : BOOLEAN]
      /\ GroupAtStart.last = 0
  BY <1>3, <1>4, <1>5
<1> QED
  BY <1>3, <1>6

LEMMA EnsureGroupMove ==
    ASSUME IInv, NEW c \in Consumers, EnsureGroup(c)
    PROVE  GroupMove
<1>1. group' = GroupAtStart
  BY DEF EnsureGroup
<1>2. /\ UNCHANGED <<outbox, seq, log, low, relay, reset, cut>>
      /\ UNCHANGED <<pel, cons, marks, faults, slow, ran, passed, excused>>
  BY DEF EnsureGroup, staging, stream, ghosts
<1> QED
  BY <1>1, <1>2, GroupAtStartFacts, GroupParts DEF GroupMove

\* A subscriber that goes on with its lowest entry knows what it has to.
LEMMA NextHandFacts ==
    ASSUME IInv, NEW c \in Consumers, NEW pc \in EntryPcs, Goto(c, pc), log' = log,
           cons[c].pc \in EntryPcs,
           NEW i \in cons[c].todo, Lowest(cons[c].todo, i),
           pc = "ack" => Done(log[i])', pc = "mark" => ran'[log[i]] > 0
    PROVE  /\ cons' \in [Consumers -> Hands]
           /\ \A d \in Consumers : cons'[d] = cons[d] \/ Knows(d)'
<1>1. /\ cons' \in [Consumers -> Hands]
      /\ \A d \in Consumers : d # c => cons'[d] = cons[d]
      /\ cons'[c].pc = pc /\ cons'[c].todo = cons[c].todo /\ cons'[c].fresh = cons[c].fresh
  BY GotoFacts
<1>2. cons[c].todo \subseteq Ids /\ Knows(c)
  BY GroupParts
<1>3. \A j \in cons[c].todo : Lowest(cons[c].todo, j) => j = i
  BY <1>2 DEF Lowest, Ids
<1>4. cons[c].fresh \subseteq cons[c].todo /\ cons[c].fresh = {}
  BY <1>2 DEF Knows
<1>5. Knows(c)'
  BY <1>1, <1>3, <1>4 DEF Knows, Lowest, EntryPcs
<1> QED
  BY <1>1, <1>5

\* The entries in hand are entries of the model's events.
LEMMA InHandFacts ==
    ASSUME IInv, NEW c \in Consumers, NEW i \in cons[c].todo
    PROVE  i \in Ids /\ log[i] \in Events
BY GroupParts

LEMMA LeaveOutMove ==
    ASSUME IInv, NEW c \in Consumers, LeaveOut(c)
    PROVE  GroupMove
<1>1. PICK i \in cons[c].todo : Lowest(cons[c].todo, i) /\ passed' = passed \cup {log[i]}
  BY DEF LeaveOut
<1>2. /\ UNCHANGED <<outbox, seq, log, low, relay, reset, cut>>
      /\ UNCHANGED <<group, pel, marks, faults, slow, ran, excused>>
  BY DEF LeaveOut, staging, stream
<1>3. Done(log[i])'
  BY <1>1, <1>2 DEF Done
<1>4. /\ cons' \in [Consumers -> Hands]
      /\ \A d \in Consumers : cons'[d] = cons[d] \/ Knows(d)'
  BY <1>1, <1>2, <1>3, NextHandFacts DEF LeaveOut, EntryPcs
<1>5. passed \subseteq passed' /\ passed' \subseteq Events
  BY <1>1, InHandFacts, GroupParts
<1> QED
  BY <1>2, <1>4, <1>5, GroupParts DEF GroupMove

LEMMA CheckMove ==
    ASSUME IInv, NEW c \in Consumers, Check(c)
    PROVE  GroupMove
<1>1. PICK i \in cons[c].todo :
        /\ Lowest(cons[c].todo, i)
        /\ Goto(c, IF Seen(log[i]) THEN "ack" ELSE "run")
        /\ Excuse({j \in {i} : ~Seen(log[i]) /\ Raced(c, i)})
  BY DEF Check
<1>2. /\ UNCHANGED <<outbox, seq, log, low, relay, reset, cut>>
      /\ UNCHANGED <<group, pel, marks, faults, slow, ran, passed>>
  BY DEF Check, staging, stream
<1>3. Seen(log[i]) => Done(log[i])'
  BY <1>2, GroupParts DEF Seen, MarkMeansDone, Done
<1>4. /\ cons' \in [Consumers -> Hands]
      /\ \A d \in Consumers : cons'[d] = cons[d] \/ Knows(d)'
  <2>1. CASE Seen(log[i])
    BY <1>1, <1>2, <1>3, <2>1, NextHandFacts DEF Check, EntryPcs
  <2>2. CASE ~Seen(log[i])
    BY <1>1, <1>2, <2>2, NextHandFacts DEF Check, EntryPcs
  <2> QED
    BY <2>1, <2>2
<1>5. excused' \in [Events -> Nat]
  <2>1. {j \in {i} : ~Seen(log[i]) /\ Raced(c, i)} \in SUBSET Ids
    BY InHandFacts
  <2> QED
    BY <1>1, <2>1, GroupParts, TallyFacts DEF Excuse
<1> QED
  BY <1>2, <1>4, <1>5, GroupParts DEF GroupMove

LEMMA HandleMove ==
    ASSUME IInv, NEW c \in Consumers, Handle(c)
    PROVE  GroupMove
<1>1. PICK i \in cons[c].todo : Lowest(cons[c].todo, i) /\ Runs({i})
  BY DEF Handle
<1>2. /\ UNCHANGED <<outbox, seq, log, low, relay, reset, cut>>
      /\ UNCHANGED <<group, pel, marks, faults, slow, passed, excused>>
  BY DEF Handle, staging, stream
<1>3. /\ ran' \in [Events -> Nat] /\ \A e \in Events : ran'[e] >= ran[e]
      /\ ran'[log[i]] > 0
  <2>1. {i} \in SUBSET Ids
    BY InHandFacts
  <2> QED
    BY <1>1, <2>1, GroupParts, TallyFacts DEF Runs
<1>4. /\ cons' \in [Consumers -> Hands]
      /\ \A d \in Consumers : cons'[d] = cons[d] \/ Knows(d)'
  BY <1>1, <1>2, <1>3, NextHandFacts DEF Handle, EntryPcs
<1> QED
  BY <1>2, <1>3, <1>4, GroupParts DEF GroupMove

LEMMA UnactionableMove ==
    ASSUME IInv, NEW c \in Consumers, Unactionable(c)
    PROVE  GroupMove
<1>1. PICK i \in cons[c].todo : Lowest(cons[c].todo, i) /\ passed' = passed \cup {log[i]}
  BY DEF Unactionable
<1>2. /\ UNCHANGED <<outbox, seq, log, low, relay, reset, cut>>
      /\ UNCHANGED <<group, pel, marks, faults, slow, ran, excused>>
  BY DEF Unactionable, staging, stream
<1>3. Done(log[i])'
  BY <1>1, <1>2 DEF Done
<1>4. /\ cons' \in [Consumers -> Hands]
      /\ \A d \in Consumers : cons'[d] = cons[d] \/ Knows(d)'
  BY <1>1, <1>2, <1>3, NextHandFacts DEF Unactionable, EntryPcs
<1>5. passed \subseteq passed' /\ passed' \subseteq Events
  BY <1>1, InHandFacts, GroupParts
<1> QED
  BY <1>2, <1>4, <1>5, GroupParts DEF GroupMove

LEMMA MarkMove ==
    ASSUME IInv, NEW c \in Consumers, Mark(c)
    PROVE  GroupMove
<1>1. PICK i \in cons[c].todo : Lowest(cons[c].todo, i) /\ marks' = marks \cup {log[i]}
  BY DEF Mark
<1>2. /\ UNCHANGED <<outbox, seq, log, low, relay, reset, cut>>
      /\ UNCHANGED <<group, pel, faults, slow, ran, passed, excused>>
  BY DEF Mark, staging, stream, ghosts
<1>3. ran[log[i]] > 0
  BY <1>1, GroupParts DEF Mark, Knows
<1>4. Done(log[i])'
  BY <1>2, <1>3 DEF Done
<1>5. /\ cons' \in [Consumers -> Hands]
      /\ \A d \in Consumers : cons'[d] = cons[d] \/ Knows(d)'
  BY <1>1, <1>2, <1>4, NextHandFacts DEF Mark, EntryPcs
<1>6. marks' \subseteq Events /\ \A e \in marks' : e \in marks \/ ran'[e] > 0
  BY <1>1, <1>2, <1>3, InHandFacts, GroupParts
<1> QED
  BY <1>2, <1>5, <1>6, GroupParts DEF GroupMove

LEMMA DeliverFailsMove ==
    ASSUME IInv, NEW c \in Consumers, DeliverFails(c)
    PROVE  GroupMove
<1>1. PICK i \in cons[c].todo, did \in BOOLEAN :
        /\ Runs(IF did THEN {i} ELSE {})
        /\ Excuse(IF did \/ cons[c].pc = "mark" THEN {i} ELSE {})
        /\ cons' = [cons EXCEPT ![c] = OneByOne(cons[c].todo \ {i})]
  BY DEF DeliverFails
<1>2. /\ UNCHANGED <<outbox, seq, log, low, relay, reset, cut>>
      /\ UNCHANGED <<group, pel, marks, slow, passed>>
      /\ Fault
  BY DEF DeliverFails, staging, stream
<1>3. \A S \in {{}, {i}} : S \in SUBSET Ids
  BY InHandFacts
<1>4. ran' \in [Events -> Nat] /\ \A e \in Events : ran'[e] >= ran[e]
  BY <1>1, <1>3, GroupParts, TallyFacts DEF Runs
<1>5. excused' \in [Events -> Nat]
  BY <1>1, <1>3, GroupParts, TallyFacts DEF Excuse
<1>6. /\ cons' \in [Consumers -> Hands]
      /\ \A d \in Consumers : cons'[d] = cons[d] \/ Knows(d)'
  <2>1. cons[c].todo \ {i} \in SUBSET Ids
    BY GroupParts
  <2> QED
    BY <1>1, <2>1, HandsFilled, NewHandFacts
<1>7. faults' \in 0 .. MaxFaults /\ faults' >= faults
  BY <1>2, FaultFacts, GroupParts
<1> QED
  BY <1>2, <1>4, <1>5, <1>6, <1>7, GroupParts DEF GroupMove

LEMMA AckMove ==
    ASSUME IInv, NEW c \in Consumers, Ack(c)
    PROVE  GroupMove
<1>1. PICK i \in cons[c].todo :
        /\ Lowest(cons[c].todo, i)
        /\ \/ pel' = pel \ {i} /\ UNCHANGED faults
           \/ Fault /\ UNCHANGED pel
        /\ cons' = [cons EXCEPT ![c] = OneByOne(cons[c].todo \ {i})]
  BY DEF Ack
<1>2. /\ UNCHANGED <<outbox, seq, log, low, relay, reset, cut>>
      /\ UNCHANGED <<group, marks, slow, ran, passed, excused>>
  BY DEF Ack, staging, stream, ghosts
<1>3. Done(log[i])'
  <2>1. Done(log[i])
    BY <1>1, GroupParts DEF Ack, Knows
  <2> QED
    BY <1>2, <2>1 DEF Done
<1>4. /\ cons' \in [Consumers -> Hands]
      /\ \A d \in Consumers : cons'[d] = cons[d] \/ Knows(d)'
  <2>1. cons[c].todo \ {i} \in SUBSET Ids
    BY GroupParts
  <2> QED
    BY <1>1, <2>1, HandsFilled, NewHandFacts
<1>5. faults' \in 0 .. MaxFaults /\ faults' >= faults
  BY <1>1, FaultFacts, GroupParts, SizeAssumption
<1>6. pel' \subseteq Ids /\ \A j \in pel : j \in pel' \/ j = i
  BY <1>1, GroupParts
<1> QED
  BY <1>2, <1>3, <1>4, <1>5, <1>6, GroupParts DEF GroupMove

\* The entries of a batch, and the events they are of.
LEMMA FreshFacts ==
    ASSUME IInv, NEW c \in Consumers, NEW S \in SUBSET cons[c].fresh
    PROVE  /\ S \in SUBSET Ids /\ Firsts(S) \in SUBSET Ids
           /\ EventsOf(S) \subseteq Events
BY GroupParts DEF Firsts, EventsOf

LEMMA BatchLeaveOutMove ==
    ASSUME IInv, NEW c \in Consumers, BatchLeaveOut(c)
    PROVE  GroupMove
<1>1. PICK i \in cons[c].todo :
        /\ passed' = passed \cup {log[i]}
        /\ pel' = pel \ {i}
        /\ cons' = [cons EXCEPT ![c] = IF cons[c].todo = {i} THEN IdleConsumer
                                       ELSE [cons[c] EXCEPT !.todo = cons[c].todo \ {i}]]
  BY DEF BatchLeaveOut
<1>2. /\ UNCHANGED <<outbox, seq, log, low, relay, reset, cut>>
      /\ UNCHANGED <<group, marks, faults, slow, ran, excused>>
      /\ cons[c].pc = "bcheck"
  BY DEF BatchLeaveOut, staging, stream
<1>3. Done(log[i])' /\ passed \subseteq passed' /\ passed' \subseteq Events
  <2>1. passed' \subseteq Events
    BY <1>1, InHandFacts, GroupParts
  <2> QED
    BY <1>1, <1>2, <2>1 DEF Done
<1>4. /\ cons' \in [Consumers -> Hands]
      /\ \A d \in Consumers : cons'[d] = cons[d] \/ Knows(d)'
  <2>1. CASE cons[c].todo = {i}
    BY <1>1, <2>1, HandsFilled, NewHandFacts
  <2>2. CASE cons[c].todo # {i}
    <3> DEFINE h == [cons[c] EXCEPT !.todo = cons[c].todo \ {i}]
    <3>1. cons[c] \in Hands /\ cons[c].fresh = {} /\ cons[c].todo \ {i} \in SUBSET Ids
      BY <1>2, GroupParts DEF Knows
    <3>2. h \in Hands /\ h.pc = "bcheck" /\ h.fresh = {}
      BY <1>2, <3>1 DEF Hands
    <3>3. cons' = [cons EXCEPT ![c] = h]
      BY <1>1, <2>2
    <3> HIDE DEF h
    <3> QED
      BY <3>2, <3>3, NewHandFacts DEF NewHand
  <2> QED
    BY <2>1, <2>2
<1>5. pel' \subseteq Ids /\ \A j \in pel : j \in pel' \/ j = i
  BY <1>1, GroupParts
<1> QED
  BY <1>2, <1>3, <1>4, <1>5, GroupParts DEF GroupMove

LEMMA BatchCheckMove ==
    ASSUME IInv, NEW c \in Consumers, BatchCheck(c)
    PROVE  GroupMove
<1> DEFINE fresh == {i \in cons[c].todo : ~Seen(log[i])}
           pc == IF fresh = {} THEN "back" ELSE "brun"
           half == [cons[c] EXCEPT !.pc = pc]
           hand == [half EXCEPT !.fresh = fresh]
<1>1. /\ cons' = [cons EXCEPT ![c].pc = pc, ![c].fresh = fresh]
      /\ Excuse({i \in Firsts(fresh) : Raced(c, i)})
  BY DEF BatchCheck
<1>2. /\ UNCHANGED <<outbox, seq, log, low, relay, reset, cut>>
      /\ UNCHANGED <<group, pel, marks, faults, slow, ran, passed>>
  BY DEF BatchCheck, staging, stream
<1>3. fresh \in SUBSET Ids /\ fresh \subseteq cons[c].todo /\ pc \in BatchPcs
  BY GroupParts DEF BatchPcs
<1>4. \A i \in cons[c].todo \ fresh : Done(log[i])
  BY GroupParts DEF Seen, MarkMeansDone, Done
<1>5. pc \in {"brun", "back"} /\ (pc = "back" => fresh = {})
  OBVIOUS
<1> HIDE DEF fresh, pc
<1>6. hand \in Hands /\ hand.pc = pc /\ hand.fresh = fresh /\ hand.todo = cons[c].todo
  <2>1. half \in Hands /\ half.pc = pc /\ half.todo = cons[c].todo
    BY <1>3, GroupParts DEF Hands
  <2> HIDE DEF half
  <2> QED
    BY <1>3, <2>1 DEF Hands
<1>7. cons' = [cons EXCEPT ![c] = hand]
  BY <1>1, GroupParts
<1> HIDE DEF hand
<1>8. cons' \in [Consumers -> Hands] /\ cons'[c] = hand
      /\ \A d \in Consumers : d # c => cons'[d] = cons[d]
  BY <1>6, <1>7, GroupParts
<1>9. Knows(c)'
  BY <1>2, <1>3, <1>4, <1>5, <1>6, <1>8 DEF Knows, EntryPcs, Done
<1>10. excused' \in [Events -> Nat]
  <2>1. {i \in Firsts(fresh) : Raced(c, i)} \in SUBSET Ids
    BY <1>3 DEF Firsts
  <2> QED
    BY <1>1, <2>1, GroupParts, TallyFacts DEF Excuse
<1> QED
  BY <1>2, <1>8, <1>9, <1>10, GroupParts DEF GroupMove

LEMMA BatchHandleMove ==
    ASSUME IInv, NEW c \in Consumers, BatchHandle(c)
    PROVE  GroupMove
<1>1. /\ Runs(cons[c].fresh) /\ Excuse(cons[c].fresh \ Firsts(cons[c].fresh))
      /\ Goto(c, "bmark") /\ cons[c].pc = "brun"
  BY DEF BatchHandle
<1>2. /\ UNCHANGED <<outbox, seq, log, low, relay, reset, cut>>
      /\ UNCHANGED <<group, pel, marks, faults, slow, passed>>
  BY DEF BatchHandle, staging, stream
<1>3. /\ cons[c].fresh \in SUBSET Ids /\ cons[c].todo \subseteq Ids /\ Knows(c)
      /\ \A i \in Ids : log[i] \in Events
  BY GroupParts
<1>4. /\ ran' \in [Events -> Nat] /\ \A e \in Events : ran'[e] >= ran[e]
      /\ \A i \in cons[c].fresh : ran'[log[i]] > 0
  BY <1>1, <1>3, GroupParts, TallyFacts DEF Runs
<1>5. excused' \in [Events -> Nat]
  BY <1>1, <1>3, GroupParts, TallyFacts DEF Excuse
<1>6. /\ cons' \in [Consumers -> Hands]
      /\ \A d \in Consumers : d # c => cons'[d] = cons[d]
      /\ cons'[c].pc = "bmark" /\ cons'[c].todo = cons[c].todo
      /\ cons'[c].fresh = cons[c].fresh
  BY <1>1, GotoFacts DEF BatchPcs
<1>7. \A i \in cons[c].todo \ cons[c].fresh : Done(log[i])'
  <2>1. \A i \in cons[c].todo \ cons[c].fresh : Done(log[i]) /\ log[i] \in Events
    BY <1>1, <1>3 DEF Knows
  <2> QED
    BY <1>2, <1>4, <2>1, GroupParts DEF Done
<1>8. Knows(c)'
  BY <1>2, <1>3, <1>4, <1>6, <1>7 DEF Knows, EntryPcs
<1> QED
  BY <1>2, <1>4, <1>5, <1>6, <1>8, GroupParts DEF GroupMove

LEMMA BatchMarkMove ==
    ASSUME IInv, NEW c \in Consumers, BatchMark(c)
    PROVE  GroupMove
<1>1. /\ marks' = marks \cup EventsOf(cons[c].fresh)
      /\ Goto(c, "back") /\ cons[c].pc = "bmark"
  BY DEF BatchMark
<1>2. /\ UNCHANGED <<outbox, seq, log, low, relay, reset, cut>>
      /\ UNCHANGED <<group, pel, faults, slow, ran, passed, excused>>
  BY DEF BatchMark, staging, stream, ghosts
<1>3. Knows(c)
  BY GroupParts
<1>4. marks' \subseteq Events /\ \A e \in marks' : e \in marks \/ ran'[e] > 0
  BY <1>1, <1>2, <1>3, FreshFacts, GroupParts DEF Knows, EventsOf
<1>5. /\ cons' \in [Consumers -> Hands]
      /\ \A d \in Consumers : d # c => cons'[d] = cons[d]
      /\ cons'[c].pc = "back" /\ cons'[c].todo = cons[c].todo
      /\ cons'[c].fresh = cons[c].fresh
  BY <1>1, GotoFacts DEF BatchPcs
<1>6. \A i \in cons[c].todo : Done(log[i])'
  BY <1>1, <1>2, <1>3 DEF Knows, Done
<1>7. Knows(c)'
  BY <1>2, <1>3, <1>5, <1>6 DEF Knows, EntryPcs
<1> QED
  BY <1>2, <1>4, <1>5, <1>7, GroupParts DEF GroupMove

LEMMA BatchFailsMove ==
    ASSUME IInv, NEW c \in Consumers, BatchFails(c)
    PROVE  GroupMove
<1>1. PICK S \in SUBSET cons[c].fresh :
        /\ Runs(IF cons[c].pc = "brun" THEN S ELSE {})
        /\ marks' = IF cons[c].pc = "bmark" THEN marks \cup EventsOf(S) ELSE marks
        /\ Excuse(CASE cons[c].pc = "brun" -> S
                    [] cons[c].pc = "bmark" ->
                         {i \in Firsts(cons[c].fresh) : log[i] \notin EventsOf(S)}
                    [] OTHER -> {})
  BY DEF BatchFails
<1>2. /\ UNCHANGED <<outbox, seq, log, low, relay, reset, cut>>
      /\ UNCHANGED <<group, pel, slow, passed>>
      /\ Fault /\ cons[c].pc \in {"bcheck", "brun", "bmark"}
      /\ cons' = [cons EXCEPT ![c] = OneByOne(cons[c].todo)]
  BY DEF BatchFails, staging, stream
<1>3. S \in SUBSET Ids /\ Firsts(cons[c].fresh) \in SUBSET Ids /\ EventsOf(S) \subseteq Events
  BY FreshFacts
<1>4. ran' \in [Events -> Nat] /\ \A e \in Events : ran'[e] >= ran[e]
  BY <1>1, <1>3, GroupParts, TallyFacts DEF Runs
<1>5. excused' \in [Events -> Nat]
  <2>1. PICK T \in SUBSET Ids : Excuse(T)
    <3>1. CASE cons[c].pc = "brun"
      BY <1>1, <1>3, <3>1
    <3>2. CASE cons[c].pc = "bmark"
      BY <1>1, <1>3, <3>2
    <3>3. CASE cons[c].pc = "bcheck"
      BY <1>1, <1>3, <3>3
    <3> QED
      BY <1>2, <3>1, <3>2, <3>3
  <2> QED
    BY <2>1, GroupParts, TallyFacts DEF Excuse
<1>6. marks' \subseteq Events /\ \A e \in marks' : e \in marks \/ ran'[e] > 0
  <2>1. CASE cons[c].pc = "bmark"
    <3>1. \A i \in S : ran[log[i]] > 0 /\ log[i] \in Events
      BY <1>3, <2>1, GroupParts DEF Knows
    <3>2. \A i \in S : ran'[log[i]] > 0
      BY <1>4, <3>1, GroupParts
    <3> QED
      BY <1>1, <1>3, <2>1, <3>2, GroupParts DEF EventsOf
  <2>2. CASE cons[c].pc # "bmark"
    BY <1>1, <2>2, GroupParts
  <2> QED
    BY <2>1, <2>2
<1>7. /\ cons' \in [Consumers -> Hands]
      /\ \A d \in Consumers : cons'[d] = cons[d] \/ Knows(d)'
  BY <1>2, GroupParts, HandsFilled, NewHandFacts
<1>8. faults' \in 0 .. MaxFaults /\ faults' >= faults
  BY <1>2, FaultFacts, GroupParts
<1> QED
  BY <1>2, <1>4, <1>5, <1>6, <1>7, <1>8, GroupParts DEF GroupMove

LEMMA BatchAckMove ==
    ASSUME IInv, NEW c \in Consumers, BatchAck(c)
    PROVE  GroupMove
<1>1. /\ \/ pel' = pel \ cons[c].todo /\ UNCHANGED faults
         \/ Fault /\ UNCHANGED pel
      /\ cons' = [cons EXCEPT ![c] = IdleConsumer]
      /\ UNCHANGED <<outbox, seq, log, low, relay, reset, cut>>
      /\ UNCHANGED <<group, marks, slow, ran, passed, excused>>
      /\ cons[c].pc = "back"
  BY DEF BatchAck, staging, stream, ghosts
<1>2. \A i \in cons[c].todo : Done(log[i])'
  BY <1>1, GroupParts DEF Knows, Done
<1>3. /\ cons' \in [Consumers -> Hands]
      /\ \A d \in Consumers : cons'[d] = cons[d] \/ Knows(d)'
  BY <1>1, HandsFilled, NewHandFacts
<1>4. faults' \in 0 .. MaxFaults /\ faults' >= faults
  BY <1>1, FaultFacts, GroupParts, SizeAssumption
<1>5. pel' \subseteq Ids /\ \A i \in pel : i \in pel' \/ i \in cons[c].todo
  BY <1>1, GroupParts
<1> QED
  BY <1>1, <1>2, <1>3, <1>4, <1>5, GroupParts DEF GroupMove

LEMMA ConsumerDiesMove ==
    ASSUME IInv, NEW c \in Consumers, ConsumerDies(c)
    PROVE  GroupMove
<1>1. /\ Excuse(IF cons[c].pc \in {"mark", "bmark"} THEN Firsts(Past(c)) ELSE {})
      /\ cons' = [cons EXCEPT ![c] = IdleConsumer]
      /\ UNCHANGED <<outbox, seq, log, low, relay, reset, cut>>
      /\ UNCHANGED <<group, pel, marks, slow, ran, passed>>
      /\ Fault
  BY DEF ConsumerDies, staging, stream
<1>2. Firsts(Past(c)) \in SUBSET Ids
  <2>1. Past(c) \subseteq Ids
    BY GroupParts DEF Past
  <2> QED
    BY <2>1 DEF Firsts
<1>3. excused' \in [Events -> Nat]
  <2>1. PICK T \in SUBSET Ids : Excuse(T)
    BY <1>1, <1>2
  <2> QED
    BY <2>1, GroupParts, TallyFacts DEF Excuse
<1>4. /\ cons' \in [Consumers -> Hands]
      /\ \A d \in Consumers : cons'[d] = cons[d] \/ Knows(d)'
  BY <1>1, HandsFilled, NewHandFacts
<1>5. faults' \in 0 .. MaxFaults /\ faults' >= faults
  BY <1>1, FaultFacts, GroupParts
<1> QED
  BY <1>1, <1>3, <1>4, <1>5, GroupParts DEF GroupMove

\* Marks that went away excuse their events, in natural numbers.
LEMMA ExcuseMarksFacts ==
    ASSUME IInv, NEW S \in SUBSET Events, ExcuseMarks(S)
    PROVE  excused' \in [Events -> Nat]
<1> DEFINE Lost(e) == Cardinality({e} \cap S)
<1>1. ASSUME NEW e \in Events PROVE Lost(e) \in Nat
  <2>1. IsFiniteSet({e})
    BY FS_Singleton
  <2>2. IsFiniteSet({e} \cap S)
    BY <2>1, FS_Intersection
  <2> QED
    BY <2>2, FS_CardinalityType
<1>2. excused' = [e \in Events |-> excused[e] + Lost(e)]
  BY DEF ExcuseMarks
<1> HIDE DEF Lost
<1> QED
  BY <1>1, <1>2, GroupParts

LEMMA MarkExpiresMove ==
    ASSUME IInv, NEW e \in Events, MarkExpires(e)
    PROVE  GroupMove
<1>1. /\ marks' = marks \ {e} /\ ExcuseMarks({e}) /\ Fault
      /\ UNCHANGED <<outbox, seq, log, low, relay, reset, cut>>
      /\ UNCHANGED <<group, pel, cons, slow, ran, passed>>
  BY DEF MarkExpires, staging, stream
<1>2. excused' \in [Events -> Nat]
  BY <1>1, ExcuseMarksFacts
<1>3. faults' \in 0 .. MaxFaults /\ faults' >= faults
  BY <1>1, FaultFacts, GroupParts
<1> QED
  BY <1>1, <1>2, <1>3, GroupParts DEF GroupMove

\* Every step of a subscriber, and a lapsed mark, is such a step.
LEMMA ConsumersKeep ==
    ASSUME IInv,
           NEW c \in Consumers,
           ConsumerStep(c) \/ DeliverFails(c) \/ BatchFails(c) \/ ConsumerDies(c)
    PROVE  IInv'
<1>1. GroupMove
  BY ReadFreshMove, ReclaimMove, EnsureGroupMove, LeaveOutMove, CheckMove, HandleMove,
     UnactionableMove, MarkMove, AckMove, BatchLeaveOutMove, BatchCheckMove,
     BatchHandleMove, BatchMarkMove, BatchAckMove, DeliverFailsMove, BatchFailsMove,
     ConsumerDiesMove
     DEF ConsumerStep, Deliver, DeliverBatch
<1> QED
  BY <1>1, GroupKeeps

-----------------------------------------------------------------------------
(* Transactions that stage events.                                         *)

\* A step that touches neither the stream nor the group, removes no row that was
\* accounted for, and makes no shipped or published row due again.
OutboxMove ==
    /\ UNCHANGED <<log, low, group, pel, cons, marks, slow, ran, passed, cut, excused>>
    /\ TypeOK' /\ Divided' /\ DoomedGone' /\ ResetLeavesNothing'
    /\ faults' >= faults
    /\ \A e \in Events :
         /\ (outbox[e] = "published" \/ Shipped(e))' => outbox[e] = "published" \/ Shipped(e)
         /\ Due(e)' => Due(e) \/ faults' > faults

LEMMA OutboxKeeps ==
    ASSUME IInv, OutboxMove
    PROVE  IInv'
<1>0. TypeOK /\ log' = log
  BY DEF IInv, OutboxMove
<1>1. (group.last <= Len(log))' /\ MarkMeansDone'
  BY DEF IInv, OutboxMove, MarkMeansDone
<1>2. \A e \in Events : Done(e)' = Done(e) /\ Owed(e)' = Owed(e) /\ Entries(e)' = Entries(e)
  BY DEF OutboxMove, Done, Owed, Entries, OnStream, Ids
<1>3. Tracked'
  BY <1>2 DEF IInv, Tracked, OutboxMove
<1>4. ASSUME NEW c \in Consumers PROVE Knows(c)'
  BY DEF IInv, OutboxMove, Knows, Done, Lowest
<1>5. PaidFor'
  <2> SUFFICES ASSUME NEW e \in Events
               PROVE  Cardinality(Entries(e)') <= (IF Due(e)' THEN 0 ELSE 1) + faults'
    BY DEF PaidFor
  <2>1. Cardinality(Entries(e)) \in Nat /\ Entries(e)' = Entries(e)
    BY <1>0, <1>2, IdsCounted DEF Entries
  <2>2. Cardinality(Entries(e)) <= (IF Due(e) THEN 0 ELSE 1) + faults
    BY DEF IInv, PaidFor
  <2>3. faults \in Nat /\ faults' \in Nat
    BY <1>0, SizeAssumption DEF TypeOK, OutboxMove
  <2> QED
    BY <2>1, <2>2, <2>3 DEF OutboxMove
<1> QED
  BY <1>1, <1>3, <1>4, <1>5 DEF IInv, OutboxMove

\* What the invariant says of the outbox, the relays and the reset.
LEMMA OutboxParts ==
    ASSUME IInv
    PROVE  /\ TypeOK /\ Divided /\ DoomedGone /\ ResetLeavesNothing
           /\ \A r \in Relays :
                /\ relay[r] \in RelayPass /\ relay[r].shipped \subseteq relay[r].batch
                /\ \A e \in relay[r].batch : e \in Events /\ outbox[e] = "committed"
           /\ faults \in Nat
<1>1. TypeOK /\ Divided /\ DoomedGone /\ ResetLeavesNothing
  BY DEF IInv
<1>2. \A r \in Relays : relay[r] \in RelayPass
  BY <1>1 DEF TypeOK
<1> QED
  BY <1>1, <1>2, SizeAssumption DEF TypeOK, Divided, RelayPass

LEMMA StageKeeps ==
    ASSUME IInv, NEW e \in Events, Stage(e)
    PROVE  IInv'
<1>1. /\ outbox[e] = "none" /\ outbox' = [outbox EXCEPT ![e] = "staged"]
      /\ seq' = [seq EXCEPT ![e] = 1 + Cardinality({f \in Events : seq[f] > 0})]
      /\ UNCHANGED <<log, low, group, pel, cons, marks, slow, ran, passed, cut, excused>>
      /\ UNCHANGED <<relay, reset, faults>>
  BY DEF Stage, stream, ghosts
<1>2. Cardinality({f \in Events : seq[f] > 0}) \in Nat
  <2>1. IsFiniteSet({f \in Events : seq[f] > 0})
    BY EventsAssumption, FS_Subset
  <2> QED
    BY <2>1, FS_CardinalityType
<1>3. \A r \in Relays : \A f \in relay[r].batch : f # e
  BY <1>1, OutboxParts
<1>4. /\ outbox' \in [Events -> {"none", "staged", "aborted", "committed", "published", "deleted"}]
      /\ seq' \in [Events -> Nat]
      /\ outbox'[e] = "staged" /\ \A f \in Events : f # e => outbox'[f] = outbox[f]
  BY <1>1, <1>2, OutboxParts DEF TypeOK
<1>5. TypeOK'
  <2>1. \A r \in Relays : \A f \in relay[r].batch : outbox'[f] = "committed"
    BY <1>3, <1>4, OutboxParts
  <2> QED
    BY <1>1, <1>4, <2>1, OutboxParts DEF TypeOK, Ids
<1>6. Divided'
  BY <1>1, OutboxParts DEF Divided
<1>7. DoomedGone' /\ ResetLeavesNothing'
  BY <1>1, <1>4, OutboxParts DEF DoomedGone, ResetLeavesNothing, OnStream, Ids, TypeOK
<1>8. \A f \in Events : Shipped(f)' = Shipped(f)
  BY <1>1 DEF Shipped
<1>9. ~Shipped(e)
  BY <1>3, OutboxParts DEF Shipped
<1> QED
  BY <1>1, <1>4, <1>5, <1>6, <1>7, <1>8, <1>9, OutboxKeeps, OutboxParts DEF OutboxMove, Due

LEMMA SettleKeeps ==
    ASSUME IInv, NEW e \in Events, Settle(e)
    PROVE  IInv'
<1>1. /\ outbox[e] = "staged"
      /\ UNCHANGED <<log, low, group, pel, cons, marks, slow, ran, passed, cut, excused>>
      /\ UNCHANGED <<relay, reset, faults, seq>>
  BY DEF Settle, stream, ghosts
<1>2. \A r \in Relays : \A f \in relay[r].batch : f # e
  BY <1>1, OutboxParts
<1>3. /\ outbox' \in [Events -> {"none", "staged", "aborted", "committed", "published", "deleted"}]
      /\ outbox'[e] \in {"committed", "aborted"}
      /\ \A f \in Events : f # e => outbox'[f] = outbox[f]
  BY OutboxParts DEF TypeOK, Settle
<1>4. TypeOK'
  <2>1. \A r \in Relays : \A f \in relay[r].batch : outbox'[f] = "committed"
    BY <1>2, <1>3, OutboxParts
  <2> QED
    BY <1>1, <1>3, <2>1, OutboxParts DEF TypeOK, Ids
<1>5. Divided'
  BY <1>1, OutboxParts DEF Divided
<1>6. DoomedGone' /\ ResetLeavesNothing'
  BY <1>1, <1>3, OutboxParts DEF DoomedGone, ResetLeavesNothing, OnStream, Ids, TypeOK
<1>7. \A f \in Events : Shipped(f)' = Shipped(f)
  BY <1>1 DEF Shipped
<1> QED
  BY <1>1, <1>3, <1>4, <1>5, <1>6, <1>7, OutboxKeeps, OutboxParts DEF OutboxMove, Due

-----------------------------------------------------------------------------
(* The relays.                                                             *)

\* An entry added for a row that was due keeps the invariant, if the pass that
\* added it counts it or a fault pays for it.
LEMMA AddedKeeps ==
    ASSUME IInv, NEW e \in Events, Added(e), outbox[e] = "committed", Due(e),
           UNCHANGED <<outbox, seq, group, pel, cons, marks, reset, slow, ran, passed, excused>>,
           relay' \in [Relays -> RelayPass], Divided',
           \A r \in Relays : \A f \in relay'[r].batch : outbox[f] = "committed",
           faults' \in 0 .. MaxFaults, faults' >= faults,
           \A f \in Events : f # e /\ Shipped(f)' => Shipped(f),
           \A f \in Events : f # e /\ Due(f)' => Due(f) \/ faults' > faults,
           Due(e)' => faults' > faults
    PROVE  IInv'
<1> DEFINE n == Len(log) + 1
<1>1. /\ TypeOK /\ Len(log) \in Nat /\ low \in 0 .. Len(log) /\ group.last \in Nat
      /\ group.last <= Len(log) /\ Ids = 1 .. Len(log) /\ faults \in Nat /\ faults' \in Nat
  BY SizeAssumption DEF IInv, TypeOK, Ids
<1>2. /\ log' \in Seq(Events) /\ Len(log') = n
      /\ log'[n] = e /\ \A i \in Ids : log'[i] = log[i]
      /\ low' \in 0 .. Len(log) /\ low <= low'
      /\ cut' = cut \cup {log[i] : i \in low + 1 .. low'}
      /\ cut' \subseteq Events
  BY <1>1, AddedFacts
<1>3. n \in Nat /\ n \notin Ids /\ Ids' = Ids \cup {n} /\ \A i \in Ids : i \in Nat /\ i < n
  BY <1>1, <1>2 DEF Ids
<1>4. TypeOK'
  <2>1. low' \in 0 .. Len(log')
    BY <1>1, <1>2
  <2>2. cons' \in [Consumers -> [pc : {"idle"} \cup EntryPcs \cup BatchPcs,
                                 todo : SUBSET Ids', fresh : SUBSET Ids']]
    <3>1. \A c \in Consumers : cons[c] \in [pc : {"idle"} \cup EntryPcs \cup BatchPcs,
                                            todo : SUBSET Ids', fresh : SUBSET Ids']
      BY <1>1, <1>3 DEF TypeOK
    <3>2. cons \in [Consumers -> [pc : {"idle"} \cup EntryPcs \cup BatchPcs,
                                  todo : SUBSET Ids', fresh : SUBSET Ids']]
      BY <1>1, <3>1 DEF TypeOK
    <3> QED
      BY <3>2
  <2>3. pel' \subseteq Ids'
    BY <1>1, <1>3 DEF TypeOK
  <2> QED
    BY <1>1, <1>2, <2>1, <2>2, <2>3 DEF TypeOK
<1>5. (group.last <= Len(log))'
  BY <1>1, <1>2
<1>6. \A f \in Events : Done(f)' = Done(f)
  BY DEF Done
<1> HIDE DEF n
<1>7. Tracked'
  <2> SUFFICES ASSUME NEW f \in Events,
                      (outbox[f] = "published" \/ Shipped(f))', f \notin cut', ~Done(f)'
               PROVE  Owed(f)' # {}
    BY DEF Tracked
  <2>1. CASE f = e
    <3>1. n > low' /\ n > group'.last /\ n \in Ids' /\ log'[n] = f
      BY <1>1, <1>2, <1>3, <2>1 DEF n
    <3>2. n \in Owed(f)'
      BY <3>1 DEF Owed, Entries, OnStream
    <3> QED
      BY <3>2
  <2>2. CASE f # e
    <3>1. Owed(f) # {}
      BY <1>2, <1>6, <2>2 DEF IInv, Tracked
    <3>2. PICK i \in Ids : log[i] = f /\ i > low /\ (i > group.last \/ i \in pel)
      BY <3>1 DEF Owed, Entries, OnStream
    <3>3. i > low'
      BY <1>1, <1>2, <1>3, <3>2
    <3>4. i \in Owed(f)'
      BY <1>2, <1>3, <3>2, <3>3 DEF Owed, Entries, OnStream
    <3> QED
      BY <3>4
  <2> QED
    BY <2>1, <2>2
<1>8. ASSUME NEW c \in Consumers PROVE Knows(c)'
  <2>1. Knows(c) /\ cons[c].todo \subseteq Ids /\ cons[c].fresh \subseteq cons[c].todo
    BY <1>1 DEF IInv, TypeOK, Knows
  <2>2. \A i \in cons[c].todo : log'[i] = log[i]
    BY <1>2, <2>1
  <2>3. \A i \in cons[c].todo : Done(log[i])' = Done(log[i]) /\ ran'[log'[i]] = ran[log[i]]
    BY <2>2 DEF Done
  <2> QED
    BY <2>1, <2>3 DEF Knows, Lowest
<1>9. MarkMeansDone' /\ DoomedGone'
  BY DEF IInv, MarkMeansDone, DoomedGone
<1>10. ResetLeavesNothing'
  <2> SUFFICES ASSUME reset.pc \in {"unlinked", "restored", "done"},
                      NEW i \in OnStream'
               PROVE  log'[i] \notin reset.doomed
    BY DEF ResetLeavesNothing
  <2>1. e \notin reset.doomed
    BY DEF IInv, DoomedGone
  <2>2. i \in Ids' /\ i > low'
    BY DEF OnStream
  <2>3. CASE i = n
    BY <1>2, <2>1, <2>3
  <2>4. CASE i \in Ids
    <3>1. i \in OnStream
      BY <1>1, <1>2, <1>3, <2>2, <2>4 DEF OnStream
    <3> QED
      BY <1>2, <2>4, <3>1 DEF IInv, ResetLeavesNothing
  <2> QED
    BY <1>3, <2>2, <2>3, <2>4
<1>11. PaidFor'
  <2> SUFFICES ASSUME NEW f \in Events
               PROVE  Cardinality(Entries(f)') <= (IF Due(f)' THEN 0 ELSE 1) + faults'
    BY DEF PaidFor
  <2>1. /\ Cardinality(Entries(f)) \in Nat
        /\ Cardinality(Entries(f)') = Cardinality(Entries(f)) + (IF f = e THEN 1 ELSE 0)
    BY <1>1, AddedCounts
  <2>2. Cardinality(Entries(f)) <= (IF Due(f) THEN 0 ELSE 1) + faults
    BY DEF IInv, PaidFor
  <2>3. CASE f = e
    BY <1>1, <2>1, <2>2, <2>3
  <2>4. CASE f # e
    BY <1>1, <2>1, <2>2, <2>4
  <2> QED
    BY <2>3, <2>4
<1> QED
  BY <1>4, <1>5, <1>7, <1>8, <1>9, <1>10, <1>11 DEF IInv

\* The row a pass adds next is due.
LEMMA NextIsDue ==
    ASSUME IInv, NEW r \in Relays, NEW e \in Events, NextToShip(r, e)
    PROVE  outbox[e] = "committed" /\ Due(e) /\ e \in relay[r].batch
<1>1. e \in relay[r].batch /\ e \notin relay[r].shipped
  BY DEF NextToShip
<1>2. \A s \in Relays : e \notin relay[s].shipped
  BY <1>1, OutboxParts DEF Divided
<1>3. outbox[e] = "committed"
  BY <1>1, OutboxParts
<1> QED
  BY <1>1, <1>2, <1>3 DEF Due, Shipped

LEMMA ShipKeeps ==
    ASSUME IInv, NEW r \in Relays, Ship(r)
    PROVE  IInv'
<1>1. PICK e \in Events :
        /\ NextToShip(r, e)
        /\ Added(e)
        /\ relay' = [relay EXCEPT
               ![r].shipped = relay[r].shipped \cup {e},
               ![r].pc = IF relay[r].batch = relay[r].shipped \cup {e} THEN "stamp" ELSE "ship"]
  BY DEF Ship
<1>2. UNCHANGED <<outbox, seq, group, pel, cons, marks, reset, faults, slow, ran, passed, excused>>
  BY DEF Ship, staging
<1>3. outbox[e] = "committed" /\ Due(e) /\ e \in relay[r].batch
  BY <1>1, NextIsDue
<1>4. /\ relay' \in [Relays -> RelayPass]
      /\ relay'[r].batch = relay[r].batch /\ relay'[r].shipped = relay[r].shipped \cup {e}
      /\ \A s \in Relays : s # r => relay'[s] = relay[s]
  <2> DEFINE half == [relay[r] EXCEPT !.shipped = relay[r].shipped \cup {e}]
             full == [half EXCEPT !.pc = IF relay[r].batch = relay[r].shipped \cup {e}
                                         THEN "stamp" ELSE "ship"]
  <2>1. /\ half \in RelayPass /\ half.batch = relay[r].batch
        /\ half.shipped = relay[r].shipped \cup {e}
    BY OutboxParts DEF RelayPass
  <2>2. relay \in [Relays -> RelayPass]
    BY OutboxParts DEF TypeOK
  <2>3. relay' = [relay EXCEPT ![r] = full]
    BY <1>1, <2>2
  <2> HIDE DEF half
  <2>4. full \in RelayPass /\ full.batch = relay[r].batch /\ full.shipped = half.shipped
    BY <2>1 DEF RelayPass
  <2> HIDE DEF full
  <2> QED
    BY <2>1, <2>2, <2>3, <2>4
<1>5. Divided' /\ \A s \in Relays : \A f \in relay'[s].batch : outbox[f] = "committed"
  BY <1>3, <1>4, OutboxParts DEF Divided
<1>6. \A f \in Events : f # e => Shipped(f)' = Shipped(f)
  BY <1>4 DEF Shipped
<1>7. Shipped(e)'
  BY <1>4 DEF Shipped
<1>8. faults' \in 0 .. MaxFaults /\ faults' >= faults
  BY <1>2, GroupParts, SizeAssumption
<1>9. ~Due(e)' /\ \A f \in Events : f # e => Due(f)' = Due(f)
  BY <1>2, <1>6, <1>7 DEF Due
<1> QED
  BY <1>1, <1>2, <1>3, <1>4, <1>5, <1>6, <1>8, <1>9, AddedKeeps

\* A pass that ends early holds no more than it did, and a fault pays for what
\* it forgets.
LEMMA PassEnds ==
    ASSUME IInv, NEW r \in Relays, Fault,
           relay' = [relay EXCEPT ![r] = IdlePass]
           \/ relay' = [relay EXCEPT ![r] = [relay[r] EXCEPT !.pc = "stamp"]],
           outbox' = outbox
    PROVE  /\ relay' \in [Relays -> RelayPass] /\ Divided'
           /\ \A s \in Relays : \A f \in relay'[s].batch : outbox[f] = "committed"
           /\ \A f \in Events : Shipped(f)' => Shipped(f)
           /\ faults' \in 0 .. MaxFaults /\ faults' >= faults /\ faults' > faults
<1>1. relay \in [Relays -> RelayPass] /\ relay[r] \in RelayPass
  BY OutboxParts DEF TypeOK
<1>2. /\ IdlePass \in RelayPass /\ IdlePass.batch = {} /\ IdlePass.shipped = {}
      /\ [relay[r] EXCEPT !.pc = "stamp"] \in RelayPass
      /\ [relay[r] EXCEPT !.pc = "stamp"].batch = relay[r].batch
      /\ [relay[r] EXCEPT !.pc = "stamp"].shipped = relay[r].shipped
  BY <1>1 DEF IdlePass, RelayPass
<1>3. /\ relay' \in [Relays -> RelayPass]
      /\ relay'[r].batch \subseteq relay[r].batch
      /\ relay'[r].shipped \subseteq relay[r].shipped
      /\ relay'[r].shipped \subseteq relay'[r].batch
      /\ \A s \in Relays : s # r => relay'[s] = relay[s]
  BY <1>1, <1>2, OutboxParts
<1>4. faults' \in 0 .. MaxFaults /\ faults' >= faults /\ faults' > faults
  BY FaultFacts, OutboxParts
<1> QED
  BY <1>3, <1>4, OutboxParts DEF Divided, Shipped

LEMMA ShipFailsKeeps ==
    ASSUME IInv, NEW r \in Relays, ShipFails(r)
    PROVE  IInv'
<1>1. PICK e \in Events : NextToShip(r, e) /\ (Added(e) \/ UNCHANGED <<log, low, cut>>)
  BY DEF ShipFails
<1>2. /\ UNCHANGED <<outbox, seq, group, pel, cons, marks, reset, slow, ran, passed, excused>>
      /\ Fault
  BY DEF ShipFails, staging
<1>3. relay' = [relay EXCEPT ![r] = IdlePass]
      \/ relay' = [relay EXCEPT ![r] = [relay[r] EXCEPT !.pc = "stamp"]]
  BY DEF ShipFails
<1>4. /\ relay' \in [Relays -> RelayPass] /\ Divided'
      /\ \A s \in Relays : \A f \in relay'[s].batch : outbox[f] = "committed"
      /\ \A f \in Events : Shipped(f)' => Shipped(f)
      /\ faults' \in 0 .. MaxFaults /\ faults' >= faults /\ faults' > faults
  BY <1>2, <1>3, PassEnds
<1>5. CASE Added(e)
  BY <1>1, <1>2, <1>4, <1>5, NextIsDue, AddedKeeps
<1>6. CASE UNCHANGED <<log, low, cut>>
  <2>1. TypeOK'
    BY <1>2, <1>4, <1>6, OutboxParts DEF TypeOK, Ids
  <2>2. DoomedGone' /\ ResetLeavesNothing'
    BY <1>2, <1>6, OutboxParts DEF DoomedGone, ResetLeavesNothing, OnStream, Ids
  <2> QED
    BY <1>2, <1>4, <1>6, <2>1, <2>2, OutboxKeeps DEF OutboxMove
<1> QED
  BY <1>1, <1>5, <1>6

LEMMA RelayDiesKeeps ==
    ASSUME IInv, NEW r \in Relays, RelayDies(r)
    PROVE  IInv'
<1>1. /\ UNCHANGED <<outbox, seq, log, low, cut, group, pel, cons, marks, reset, slow, ran,
                     passed, excused>>
      /\ Fault /\ relay' = [relay EXCEPT ![r] = IdlePass]
  BY DEF RelayDies, staging, stream, ghosts
<1>2. /\ relay' \in [Relays -> RelayPass] /\ Divided'
      /\ \A s \in Relays : \A f \in relay'[s].batch : outbox[f] = "committed"
      /\ \A f \in Events : Shipped(f)' => Shipped(f)
      /\ faults' \in 0 .. MaxFaults /\ faults' >= faults /\ faults' > faults
  BY <1>1, PassEnds
<1>3. TypeOK'
  BY <1>1, <1>2, OutboxParts DEF TypeOK, Ids
<1>4. DoomedGone' /\ ResetLeavesNothing'
  BY <1>1, OutboxParts DEF DoomedGone, ResetLeavesNothing, OnStream, Ids
<1> QED
  BY <1>1, <1>2, <1>3, <1>4, OutboxKeeps DEF OutboxMove

LEMMA TakeKeeps ==
    ASSUME IInv, NEW r \in Relays, Take(r)
    PROVE  IInv'
<1> DEFINE rows == FirstRows(Unpublished)
           pass == [pc |-> "ship", batch |-> rows, shipped |-> {}]
<1>1. /\ UNCHANGED <<outbox, seq, log, low, cut, group, pel, cons, marks, reset, faults, slow,
                     ran, passed, excused>>
      /\ relay[r] = IdlePass /\ relay' = [relay EXCEPT ![r] = pass]
  BY DEF Take, staging, stream, ghosts
<1>2. \A e \in rows : /\ e \in Events /\ outbox[e] = "committed"
                      /\ \A s \in Relays : e \notin relay[s].batch
  BY DEF FirstRows, Unpublished
<1> HIDE DEF rows
<1>3. /\ relay' \in [Relays -> RelayPass]
      /\ relay'[r].batch = rows /\ relay'[r].shipped = {}
      /\ \A s \in Relays : s # r => relay'[s] = relay[s]
  <2>1. pass \in RelayPass
    BY <1>2 DEF RelayPass
  <2>2. relay \in [Relays -> RelayPass]
    BY OutboxParts DEF TypeOK
  <2> QED
    BY <1>1, <2>1, <2>2
<1>4. Divided' /\ \A s \in Relays : \A f \in relay'[s].batch : outbox[f] = "committed"
  BY <1>2, <1>3, OutboxParts DEF Divided
<1>5. \A f \in Events : Shipped(f)' = Shipped(f)
  BY <1>1, <1>3 DEF Shipped, IdlePass
<1>6. TypeOK'
  BY <1>1, <1>3, <1>4, OutboxParts DEF TypeOK, Ids
<1>7. DoomedGone' /\ ResetLeavesNothing'
  BY <1>1, OutboxParts DEF DoomedGone, ResetLeavesNothing, OnStream, Ids
<1> QED
  BY <1>1, <1>4, <1>5, <1>6, <1>7, OutboxKeeps, OutboxParts DEF OutboxMove, Due

LEMMA StampKeeps ==
    ASSUME IInv, NEW r \in Relays, Stamp(r)
    PROVE  IInv'
<1>1. /\ UNCHANGED <<seq, log, low, cut, group, pel, cons, marks, reset, faults, slow,
                     ran, passed, excused>>
      /\ outbox' = [e \in Events |-> IF e \in relay[r].shipped THEN "published" ELSE outbox[e]]
      /\ relay' = [relay EXCEPT ![r] = IdlePass]
  BY DEF Stamp, stream, ghosts
<1>2. /\ relay' \in [Relays -> RelayPass]
      /\ relay'[r].batch = {} /\ relay'[r].shipped = {}
      /\ \A s \in Relays : s # r => relay'[s] = relay[s]
  <2>1. IdlePass \in RelayPass /\ IdlePass.batch = {} /\ IdlePass.shipped = {}
    BY DEF IdlePass, RelayPass
  <2>2. relay \in [Relays -> RelayPass]
    BY OutboxParts DEF TypeOK
  <2> QED
    BY <1>1, <2>1, <2>2
<1>3. outbox' \in [Events -> {"none", "staged", "aborted", "committed", "published", "deleted"}]
  BY <1>1, OutboxParts DEF TypeOK
<1>4. Divided' /\ \A s \in Relays : \A f \in relay'[s].batch : outbox'[f] = "committed"
  <2>1. \A s \in Relays : s # r => \A f \in relay[s].batch : f \notin relay[r].shipped
    BY OutboxParts DEF Divided
  <2> QED
    BY <1>1, <1>2, <2>1, OutboxParts DEF Divided
<1>5. \A f \in Events :
        /\ outbox'[f] = "published" \/ Shipped(f)' => outbox[f] = "published" \/ Shipped(f)
        /\ Due(f)' => Due(f)
  <2> SUFFICES ASSUME NEW f \in Events
               PROVE  /\ outbox'[f] = "published" \/ Shipped(f)' =>
                           outbox[f] = "published" \/ Shipped(f)
                      /\ Due(f)' => Due(f)
    OBVIOUS
  <2>1. Shipped(f) <=> Shipped(f)' \/ f \in relay[r].shipped
    BY <1>2 DEF Shipped
  <2>2. outbox'[f] = IF f \in relay[r].shipped THEN "published" ELSE outbox[f]
    BY <1>1
  <2> QED
    BY <2>1, <2>2 DEF Due
<1>6. TypeOK'
  BY <1>1, <1>2, <1>3, <1>4, OutboxParts DEF TypeOK, Ids
<1>7. DoomedGone'
  <2>1. \A f \in Events : outbox[f] = "deleted" => outbox'[f] = "deleted"
    BY <1>1, OutboxParts
  <2> QED
    BY <1>1, <2>1, OutboxParts DEF DoomedGone, TypeOK
<1>8. ResetLeavesNothing'
  BY <1>1, OutboxParts DEF ResetLeavesNothing, OnStream, Ids
<1> QED
  BY <1>1, <1>4, <1>5, <1>6, <1>7, <1>8, OutboxKeeps, OutboxParts DEF OutboxMove

-----------------------------------------------------------------------------
(* The data reset.                                                         *)

LEMMA ClearOutboxKeeps ==
    ASSUME IInv, ClearOutbox
    PROVE  IInv'
<1>1. /\ UNCHANGED <<outbox, seq, log, low, cut, group, pel, relay, cons, marks, faults, slow,
                     ran, passed, excused>>
      /\ reset.taken < MaxResets
      /\ reset' = [pc |-> "clearing", taken |-> reset.taken + 1,
                   doomed |-> {e \in Events : outbox[e] \in {"committed", "published"}}]
  BY DEF ClearOutbox, staging, stream, ghosts
<1>2. ResetTyped'
  BY <1>1, OutboxParts, SizeAssumption DEF TypeOK, ResetTyped
<1>3. TypeOK'
  BY <1>1, <1>2, OutboxParts DEF TypeOK, Ids, ResetTyped
<1>4. Divided' /\ DoomedGone' /\ ResetLeavesNothing'
  BY <1>1, OutboxParts DEF Divided, DoomedGone, ResetLeavesNothing
<1> QED
  BY <1>1, <1>3, <1>4, OutboxKeeps, OutboxParts DEF OutboxMove, Shipped, Due

LEMMA OutboxClearedKeeps ==
    ASSUME IInv, OutboxCleared
    PROVE  IInv'
<1>1. /\ UNCHANGED <<seq, log, low, cut, group, pel, relay, cons, marks, faults, slow,
                     ran, passed, excused>>
      /\ outbox' = [e \in Events |-> IF e \in reset.doomed THEN "deleted" ELSE outbox[e]]
      /\ reset' = [reset EXCEPT !.pc = "cleared"]
      /\ \A r \in Relays : relay[r].batch \cap reset.doomed = {}
  BY DEF OutboxCleared, DoomedUnlocked, stream, ghosts
<1>2. ResetTyped' /\ reset'.pc = "cleared" /\ reset'.doomed = reset.doomed
  BY <1>1, OutboxParts DEF TypeOK, ResetTyped
<1>3. outbox' \in [Events -> {"none", "staged", "aborted", "committed", "published", "deleted"}]
  BY <1>1, OutboxParts DEF TypeOK
<1>4. \A r \in Relays : \A e \in relay'[r].batch : outbox'[e] = "committed"
  BY <1>1, OutboxParts
<1>5. TypeOK'
  BY <1>1, <1>2, <1>3, <1>4, OutboxParts DEF TypeOK, Ids, ResetTyped
<1>6. Divided' /\ ResetLeavesNothing'
  BY <1>1, <1>2, OutboxParts DEF Divided, ResetLeavesNothing
<1>7. DoomedGone'
  BY <1>1, <1>2 DEF DoomedGone, ResetTyped
<1> QED
  BY <1>1, <1>5, <1>6, <1>7, OutboxKeeps, OutboxParts DEF OutboxMove, Shipped, Due

LEMMA UnlinkStreamsKeeps ==
    ASSUME IInv, UnlinkStreams
    PROVE  IInv'
<1>1. /\ UNCHANGED <<outbox, seq, log, relay, cons, marks, faults, slow, ran, passed, excused>>
      /\ cut' = cut \cup {log[i] : i \in OnStream} /\ low' = Len(log) /\ pel' = {}
      /\ group' = [group EXCEPT !.exists = FALSE]
      /\ reset' = [reset EXCEPT !.pc = "unlinked"] /\ reset.pc = "cleared"
  BY DEF UnlinkStreams, staging
<1>2. TypeOK /\ Len(log) \in Nat /\ group.last <= Len(log)
  BY DEF IInv, TypeOK
<1>3. ResetTyped' /\ reset'.pc = "unlinked" /\ reset'.doomed = reset.doomed
  BY <1>1, <1>2 DEF TypeOK, ResetTyped
<1>4. /\ group' \in [exists : BOOLEAN, last : Nat, batched : BOOLEAN]
      /\ group'.last = group.last
  BY <1>1, <1>2 DEF TypeOK
<1>5. TypeOK'
  <2>1. cut' \subseteq Events
    BY <1>1, <1>2, GroupParts DEF OnStream, TypeOK
  <2>2. low' \in 0 .. Len(log')
    BY <1>1, <1>2
  <2> QED
    BY <1>1, <1>2, <1>3, <1>4, <2>1, <2>2 DEF TypeOK, Ids, ResetTyped
<1>6. Divided' /\ MarkMeansDone' /\ (group.last <= Len(log))'
  BY <1>1, <1>2, <1>4 DEF IInv, Divided, MarkMeansDone
<1>7. Tracked'
  <2> SUFFICES ASSUME NEW e \in Events,
                      (outbox[e] = "published" \/ Shipped(e))', e \notin cut'
               PROVE  Done(e)'
    BY DEF Tracked
  <2>1. Owed(e) = {}
    BY <1>1 DEF Owed, Entries
  <2>2. Done(e)
    BY <1>1, <2>1 DEF IInv, Tracked, Shipped
  <2> QED
    BY <1>1, <2>2 DEF Done
<1>8. ASSUME NEW c \in Consumers PROVE Knows(c)'
  BY <1>1 DEF IInv, Knows, Done, Lowest
<1>9. DoomedGone'
  BY <1>1, <1>3 DEF IInv, DoomedGone
<1>10. ResetLeavesNothing'
  <2>1. OnStream' = {}
    BY <1>1, <1>2 DEF OnStream, Ids
  <2> QED
    BY <2>1 DEF ResetLeavesNothing
<1>11. PaidFor'
  BY <1>1 DEF IInv, PaidFor, Entries, Ids, Due, Shipped
<1> QED
  BY <1>5, <1>6, <1>7, <1>8, <1>9, <1>10, <1>11 DEF IInv

LEMMA RestoreGroupsKeeps ==
    ASSUME IInv, RestoreGroups
    PROVE  IInv'
<1>1. /\ UNCHANGED <<outbox, seq, log, low, cut, relay, pel, cons, marks, faults, slow,
                     ran, passed, excused>>
      /\ group' = IF group.exists THEN group ELSE GroupAtStart
      /\ reset' = [reset EXCEPT !.pc = "restored"] /\ reset.pc = "unlinked"
  BY DEF RestoreGroups, staging, stream, ghosts
<1>2. ResetTyped' /\ reset'.pc = "restored" /\ reset'.doomed = reset.doomed
  BY <1>1, OutboxParts DEF TypeOK, ResetTyped
<1>3. DoomedGone' /\ ResetLeavesNothing'
  BY <1>1, <1>2, OutboxParts DEF DoomedGone, ResetLeavesNothing, OnStream, Ids
<1>4. /\ group' \in [exists : BOOLEAN, last : 0 .. Len(log), batched : BOOLEAN]
      /\ \A i \in OnStream : i > group.last => i > group'.last
  BY <1>1, GroupAtStartFacts, GroupParts
<1>5. GroupMove
  BY <1>1, <1>2, <1>3, <1>4, GroupParts DEF GroupMove
<1> QED
  BY <1>5, GroupKeeps

LEMMA PurgeDedupeKeeps ==
    ASSUME IInv, PurgeDedupe
    PROVE  IInv'
<1>1. /\ UNCHANGED <<outbox, seq, log, low, cut, relay, group, pel, cons, faults, slow,
                     ran, passed>>
      /\ marks' = {} /\ ExcuseMarks(marks)
      /\ reset' = [reset EXCEPT !.pc = "done"] /\ reset.pc = "restored"
  BY DEF PurgeDedupe, staging, stream
<1>2. ResetTyped' /\ reset'.pc = "done" /\ reset'.doomed = reset.doomed
  BY <1>1, OutboxParts DEF TypeOK, ResetTyped
<1>3. DoomedGone' /\ ResetLeavesNothing'
  BY <1>1, <1>2, OutboxParts DEF DoomedGone, ResetLeavesNothing, OnStream, Ids
<1>4. excused' \in [Events -> Nat]
  BY <1>1, ExcuseMarksFacts, GroupParts
<1>5. GroupMove
  BY <1>1, <1>2, <1>3, <1>4, GroupParts, SizeAssumption DEF GroupMove
<1> QED
  BY <1>5, GroupKeeps

LEMMA ResetFailsKeeps ==
    ASSUME IInv, ResetFails
    PROVE  IInv'
<1>1. /\ UNCHANGED <<outbox, seq, log, low, cut, group, pel, relay, cons, marks, slow,
                     ran, passed, excused>>
      /\ Fault /\ reset' = [reset EXCEPT !.pc = "idle"]
  BY DEF ResetFails, staging, stream, ghosts
<1>2. ResetTyped' /\ reset'.pc = "idle"
  BY <1>1, OutboxParts DEF TypeOK, ResetTyped
<1>3. faults' \in 0 .. MaxFaults /\ faults' >= faults
  BY <1>1, FaultFacts, OutboxParts
<1>4. TypeOK'
  BY <1>1, <1>2, <1>3, OutboxParts DEF TypeOK, Ids, ResetTyped
<1>5. Divided' /\ DoomedGone' /\ ResetLeavesNothing'
  BY <1>1, <1>2, OutboxParts DEF Divided, DoomedGone, ResetLeavesNothing
<1> QED
  BY <1>1, <1>3, <1>4, <1>5, OutboxKeeps DEF OutboxMove, Shipped, Due

-----------------------------------------------------------------------------
(* The theorems.                                                           *)

LEMMA InitHolds == Init => IInv
<1> SUFFICES ASSUME Init PROVE IInv
  OBVIOUS
<1>1. Len(log) = 0 /\ Ids = {} /\ log \in Seq(Events) /\ low = 0
  BY DEF Init, Ids
<1>2. IdlePass \in RelayPass /\ IdlePass.batch = {} /\ IdlePass.shipped = {}
  BY DEF IdlePass, RelayPass
<1>3. /\ IdleConsumer \in [pc : {"idle"} \cup EntryPcs \cup BatchPcs,
                           todo : SUBSET Ids, fresh : SUBSET Ids]
      /\ IdleConsumer.pc = "idle" /\ IdleConsumer.todo = {} /\ IdleConsumer.fresh = {}
  BY DEF IdleConsumer
<1>4. /\ relay \in [Relays -> RelayPass]
      /\ \A r \in Relays : relay[r].batch = {} /\ relay[r].shipped = {}
  BY <1>2 DEF Init
<1>5. group \in [exists : BOOLEAN, last : Nat, batched : BOOLEAN] /\ group.last = 0
  <2>1. group \in [exists : {FALSE}, last : {0}, batched : Modes]
    BY DEF Init
  <2>2. PICK b \in Modes : group = [exists |-> FALSE, last |-> 0, batched |-> b]
    BY <2>1
  <2>3. b \in BOOLEAN
    BY SizeAssumption
  <2> QED
    BY <2>2, <2>3
<1>6. /\ outbox \in [Events -> {"none", "staged", "aborted", "committed", "published", "deleted"}]
      /\ \A e \in Events : outbox[e] = "none"
      /\ seq \in [Events -> Nat] /\ ran \in [Events -> Nat] /\ excused \in [Events -> Nat]
  BY DEF Init
<1>7. reset \in [pc : {"idle", "clearing", "cleared", "unlinked", "restored", "done"},
                 doomed : SUBSET Events, taken : 0 .. MaxResets] /\ reset.pc = "idle"
  BY SizeAssumption DEF Init
<1>8. faults \in 0 .. MaxFaults /\ slow \in 0 .. MaxSlow /\ faults = 0
  BY SizeAssumption DEF Init
<1>9. pel = {} /\ marks = {} /\ passed = {} /\ cut = {}
  BY DEF Init
<1>10. /\ cons \in [Consumers -> [pc : {"idle"} \cup EntryPcs \cup BatchPcs,
                                  todo : SUBSET Ids, fresh : SUBSET Ids]]
       /\ \A c \in Consumers : cons[c] = IdleConsumer
  BY <1>3 DEF Init
<1>11. TypeOK
  BY <1>1, <1>4, <1>5, <1>6, <1>7, <1>8, <1>9, <1>10 DEF TypeOK
<1>12. Divided /\ group.last <= Len(log)
  BY <1>1, <1>4, <1>5 DEF Divided
<1>13. Tracked
  BY <1>4, <1>6 DEF Tracked, Shipped
<1>14. \A c \in Consumers : Knows(c)
  BY <1>3, <1>10 DEF Knows
<1>15. MarkMeansDone /\ DoomedGone /\ ResetLeavesNothing
  BY <1>7, <1>9 DEF MarkMeansDone, DoomedGone, ResetLeavesNothing
<1>16. PaidFor
  <2>1. \A e \in Events : Entries(e) = {}
    BY <1>1 DEF Entries
  <2>2. \A e \in Events : Due(e)
    BY <1>4, <1>6 DEF Due, Shipped
  <2> QED
    BY <1>8, <2>1, <2>2, FS_EmptySet DEF PaidFor
<1> QED
  BY <1>11, <1>12, <1>13, <1>14, <1>15, <1>16 DEF IInv

LEMMA NextKeeps == IInv /\ [Next]_vars => IInv'
<1> SUFFICES ASSUME IInv, [Next]_vars PROVE IInv'
  OBVIOUS
<1>1. CASE Write
  BY <1>1, StageKeeps, SettleKeeps DEF Write
<1>2. ASSUME NEW r \in Relays, RelayStep(r) \/ ShipFails(r) \/ RelayDies(r)
      PROVE  IInv'
  BY <1>2, TakeKeeps, ShipKeeps, StampKeeps, ShipFailsKeeps, RelayDiesKeeps DEF RelayStep
<1>3. ASSUME NEW c \in Consumers,
             ConsumerStep(c) \/ DeliverFails(c) \/ BatchFails(c) \/ ConsumerDies(c)
      PROVE  IInv'
  BY <1>3, ConsumersKeep
<1>4. ASSUME NEW e \in Events, MarkExpires(e)
      PROVE  IInv'
  BY <1>4, MarkExpiresMove, GroupKeeps
<1>5. CASE Reset
  BY <1>5, ClearOutboxKeeps, OutboxClearedKeeps, UnlinkStreamsKeeps, RestoreGroupsKeeps,
     PurgeDedupeKeeps, ResetFailsKeeps DEF Reset
<1>6. CASE UNCHANGED vars
  <2>1. GroupMove
    BY <1>6, GroupParts, SizeAssumption DEF GroupMove, vars
  <2> QED
    BY <2>1, GroupKeeps
<1> QED
  BY <1>1, <1>2, <1>3, <1>4, <1>5, <1>6 DEF Next

\* Relays, subscribers, transactions and a data reset, in any number and
\* interleaved and failing anywhere, keep the inductive invariant.
THEOREM Invariance == Spec => []IInv
BY InitHolds, NextKeeps, PTL DEF Spec

\* The outbox, the stream, the group and every hand keep their types, and a row
\* in a relay's batch stays committed under it.
THEOREM TypeCorrect == Spec => []TypeOK
<1>1. IInv => TypeOK
  BY DEF IInv
<1> QED
  BY <1>1, Invariance, PTL

\* A dedupe key is set only for an event whose effect was run.
THEOREM MarksMeanDone == Spec => []MarkMeansDone
<1>1. IInv => MarkMeansDone
  BY DEF IInv
<1> QED
  BY <1>1, Invariance, PTL

\* At-least-once: a published event was dealt with, is still owed to the group,
\* or went with a trimmed or purged stream.
THEOREM PublishedIsAccounted == Spec => []Accounted
<1>1. IInv => Accounted
  BY DEF IInv, Tracked, Accounted
<1> QED
  BY <1>1, Invariance, PTL

\* Nothing a data reset removed comes back on the stream it emptied.
THEOREM ResetIsFinal == Spec => []ResetLeavesNothing
<1>1. IInv => ResetLeavesNothing
  BY DEF IInv
<1> QED
  BY <1>1, Invariance, PTL

\* However many relays share the backlog, an event is on the stream once, and
\* once more for each fault at most.
THEOREM FaultsPayForCopies == Spec => []PublishedOnce
<1>1. IInv => PublishedOnce
  <2> SUFFICES ASSUME IInv, NEW e \in Events
               PROVE  Cardinality(Entries(e)) <= 1 + faults
    BY DEF PublishedOnce
  <2>1. Cardinality(Entries(e)) \in Nat /\ faults \in Nat
    BY OutboxParts, IdsCounted DEF Entries
  <2>2. Cardinality(Entries(e)) <= (IF Due(e) THEN 0 ELSE 1) + faults
    BY DEF IInv, PaidFor
  <2> QED
    BY <2>1, <2>2
<1> QED
  BY <1>1, Invariance, PTL


(***************************************************************************)
(* Commit order.                                                           *)
(***************************************************************************)

\* e was staged before f, by a transaction on the same entity.
Older(e, f) == EntityOf[e] = EntityOf[f] /\ seq[e] > 0 /\ Before(e, f)

\* No two relays hold rows of one entity.
Apart ==
    \A r, s \in Relays :
        r # s => \A e \in relay[r].batch, f \in relay[s].batch : EntityOf[e] # EntityOf[f]

\* The numbers of the rows: a new row gets the largest.
Numbered ==
    \A e \in Events :
        /\ outbox[e] = "none" => seq[e] = 0
        /\ seq[e] <= Cardinality({f \in Events : seq[f] > 0})

\* Only a committed row is shipped, and a shipped one has its entry.
OnLog ==
    \A e \in Events :
        /\ Entries(e) # {} => outbox[e] \notin {"none", "staged"}
        /\ outbox[e] = "published" \/ Shipped(e) => Entries(e) # {}

\* The entity's row lock: what comes before a row was settled.
Serialized == \A e, f \in Events : Older(e, f) => outbox[e] # "staged"

\* What a relay has yet to ship, it ships after what comes before it.
BatchInOrder(r) ==
    \A f \in relay[r].batch \ relay[r].shipped, e \in Events :
        Older(e, f) /\ outbox[e] = "committed" => e \in relay[r].batch \/ Entries(e) # {}

InLine ==
    /\ Numbered
    /\ OnLog
    /\ Serialized
    /\ \A r \in Relays : BatchInOrder(r)
    /\ CommitOrder

\* A relay that gives its rows up, or goes on with them, keeps the order.
LEMMA PassesKeepOrder ==
    ASSUME InLine, UNCHANGED <<outbox, seq, log>>,
           \A r \in Relays :
             \/ relay'[r].batch = {} /\ relay'[r].shipped = {}
             \/ relay'[r].batch = relay[r].batch /\ relay'[r].shipped = relay[r].shipped
    PROVE  InLine'
<1>1. \A e \in Events : Entries(e)' = Entries(e)
  BY DEF Entries, Ids
<1>2. \A e, f \in Events : Older(e, f)' = Older(e, f) /\ Before(e, f)' = Before(e, f)
  BY DEF Older, Before
<1>3. Numbered' /\ Serialized'
  BY <1>2 DEF InLine, Numbered, Serialized
<1>4. \A e \in Events : Shipped(e)' => Shipped(e)
  BY DEF Shipped
<1>5. OnLog'
  BY <1>1, <1>4 DEF InLine, OnLog
<1>6. ASSUME NEW r \in Relays PROVE BatchInOrder(r)'
  <2> SUFFICES ASSUME NEW f \in relay'[r].batch \ relay'[r].shipped, NEW e \in Events,
                      Older(e, f)', outbox'[e] = "committed"
               PROVE  e \in relay'[r].batch \/ Entries(e)' # {}
    BY DEF BatchInOrder
  <2>1. relay'[r].batch = relay[r].batch /\ relay'[r].shipped = relay[r].shipped
    OBVIOUS
  <2>2. Older(e, f)
    BY DEF Older, Before
  <2> QED
    BY <1>1, <2>1, <2>2 DEF InLine, BatchInOrder
<1>7. CommitOrder'
  <2> SUFFICES ASSUME NEW e \in Events, NEW f \in Events,
                      EntityOf[e] = EntityOf[f], seq'[e] > 0, Before(e, f)',
                      outbox'[e] \in {"committed", "published"}, NEW j \in Entries(f)'
               PROVE  \E i \in Entries(e)' : i < j
    BY DEF CommitOrder
  <2> QED
    BY <1>1, <1>2 DEF InLine, CommitOrder
<1> QED
  BY <1>3, <1>5, <1>6, <1>7 DEF InLine

\* Later rows of a batch of the oldest are later than all of the batch's.
LEMMA FirstRowsFirst ==
    ASSUME TypeOK, NEW rows \in SUBSET Events, NEW f \in FirstRows(rows), NEW e \in rows,
           Before(e, f)
    PROVE  e \in FirstRows(rows)
<1> DEFINE Ahead(g) == {h \in rows : Before(h, g)}
<1>1. Ahead(e) \subseteq Ahead(f)
  <2>1. /\ seq[e] \in Nat /\ seq[f] \in Nat /\ seq[e] < seq[f]
        /\ \A h \in rows : seq[h] \in Nat
    BY DEF Before, TypeOK, FirstRows
  <2> QED
    BY <2>1 DEF Before
<1>2. IsFiniteSet(Ahead(f)) /\ IsFiniteSet(Ahead(e))
  BY EventsAssumption, FS_Subset
<1>3. /\ Cardinality(Ahead(e)) <= Cardinality(Ahead(f))
      /\ Cardinality(Ahead(e)) \in Nat /\ Cardinality(Ahead(f)) \in Nat
  BY <1>1, <1>2, FS_Subset, FS_CardinalityType
<1>4. f \in rows /\ Cardinality(Ahead(f)) < Limit
  BY DEF FirstRows
<1> HIDE DEF Ahead
<1>5. Cardinality(Ahead(e)) < Limit
  BY <1>3, <1>4, SizeAssumption
<1> QED
  BY <1>5 DEF FirstRows, Ahead

LEMMA TakeInOrder ==
    ASSUME IInv, InLine, Apart', NEW r \in Relays, Take(r)
    PROVE  InLine'
<1> DEFINE rows == FirstRows(Unpublished)
<1>1. /\ UNCHANGED <<outbox, seq, log>>
      /\ relay' = [relay EXCEPT ![r] = [pc |-> "ship", batch |-> rows, shipped |-> {}]]
      /\ relay[r] = IdlePass
  BY DEF Take, staging, stream
<1>2. TypeOK /\ relay \in [Relays -> RelayPass]
  BY OutboxParts DEF TypeOK
<1>3. /\ relay'[r].batch = rows /\ relay'[r].shipped = {}
      /\ \A s \in Relays : s # r => relay'[s] = relay[s]
  BY <1>1, <1>2
<1>4. rows \subseteq Unpublished /\ Unpublished \subseteq Events
  BY DEF FirstRows, Unpublished
<1>5. \A e \in Events : Entries(e)' = Entries(e) /\ (Shipped(e)' => Shipped(e))
  <2>1. \A e \in Events : Entries(e)' = Entries(e)
    BY <1>1 DEF Entries, Ids
  <2> QED
    BY <1>3, <2>1 DEF Shipped
<1>6. \A e, f \in Events : Older(e, f)' = Older(e, f) /\ Before(e, f)' = Before(e, f)
  BY <1>1 DEF Older, Before
<1>7. Numbered' /\ Serialized' /\ OnLog'
  BY <1>1, <1>5, <1>6 DEF InLine, Numbered, Serialized, OnLog
<1>8. ASSUME NEW s \in Relays PROVE BatchInOrder(s)'
  <2> SUFFICES ASSUME NEW f \in relay'[s].batch \ relay'[s].shipped, NEW e \in Events,
                      Older(e, f)', outbox'[e] = "committed"
               PROVE  e \in relay'[s].batch \/ Entries(e)' # {}
    BY DEF BatchInOrder
  <2>1. CASE s # r
    <3>1. Older(e, f)
      BY <1>1 DEF Older, Before
    <3> QED
      BY <1>1, <1>3, <1>5, <2>1, <3>1 DEF InLine, BatchInOrder
  <2>2. CASE s = r
    <3>1. f \in rows /\ f \in Events /\ Older(e, f)
      BY <1>1, <1>3, <1>4, <2>2 DEF Older, Before
    <3>2. ASSUME NEW t \in Relays PROVE e \notin relay[t].batch
      <4>1. CASE t = r
        BY <1>1, <4>1 DEF IdlePass
      <4>2. CASE t # r
        <5>1. f \in relay'[r].batch /\ relay'[t] = relay[t] /\ EntityOf[e] = EntityOf[f]
          BY <1>3, <3>1, <4>2 DEF Older
        <5> QED
          BY <4>2, <5>1 DEF Apart
      <4> QED
        BY <4>1, <4>2
    <3>3. e \in Unpublished
      BY <1>1, <3>2 DEF Unpublished
    <3>4. e \in rows
      BY <1>2, <1>4, <3>1, <3>3, FirstRowsFirst DEF Older
    <3> QED
      BY <1>3, <2>2, <3>4
  <2> QED
    BY <2>1, <2>2
<1>9. CommitOrder'
  <2> SUFFICES ASSUME NEW e \in Events, NEW f \in Events,
                      EntityOf[e] = EntityOf[f], seq'[e] > 0, Before(e, f)',
                      outbox'[e] \in {"committed", "published"}, NEW j \in Entries(f)'
               PROVE  \E i \in Entries(e)' : i < j
    BY DEF CommitOrder
  <2> QED
    BY <1>1, <1>5, <1>6 DEF InLine, CommitOrder
<1> QED
  BY <1>7, <1>8, <1>9 DEF InLine

\* Where the entries are once one was added.
LEMMA AddedEntries ==
    ASSUME TypeOK, NEW e \in Events, Added(e)
    PROVE  /\ Len(log) + 1 \in Entries(e)'
           /\ \A f \in Events : Entries(f) \subseteq Entries(f)'
           /\ \A f \in Events : \A j \in Entries(f)' :
                j \in Entries(f) \/ (f = e /\ j = Len(log) + 1)
           /\ \A f \in Events : \A j \in Entries(f) : j \in Nat /\ j < Len(log) + 1
           /\ Len(log) \in Nat
<1>0. PICK n : n = Len(log) + 1
  OBVIOUS
<1>1. Len(log) \in Nat
  BY DEF TypeOK
<1>2. Len(log') = n /\ log'[n] = e /\ \A i \in Ids : log'[i] = log[i]
  BY <1>0, AddedFacts
<1>3. n \in Nat /\ n \notin Ids /\ Ids' = Ids \cup {n} /\ \A i \in Ids : i \in Nat /\ i < n
  BY <1>0, <1>1, <1>2 DEF Ids
<1>4. /\ n \in Entries(e)' /\ \A f \in Events : Entries(f) \subseteq Entries(f)'
      /\ \A f \in Events : \A j \in Entries(f)' : j \in Entries(f) \/ (f = e /\ j = n)
      /\ \A f \in Events : \A j \in Entries(f) : j \in Nat /\ j < n
  BY <1>2, <1>3 DEF Entries
<1> QED
  BY <1>0, <1>1, <1>4

\* An entry that is added for the next row of a batch follows all it has to.
LEMMA AddedInOrder ==
    ASSUME IInv, InLine, NEW r \in Relays, NEW e \in Events, NextToShip(r, e), Added(e),
           UNCHANGED <<outbox, seq>>,
           \A s \in Relays :
             \/ relay'[s].batch = {} /\ relay'[s].shipped = {}
             \/ /\ relay'[s].batch = relay[s].batch
                /\ relay[s].shipped \subseteq relay'[s].shipped
                /\ relay'[s].shipped \subseteq relay[s].shipped \cup {e}
    PROVE  InLine'
<1>0. PICK n : n = Len(log) + 1
  OBVIOUS
<1>1. /\ n \in Entries(e)' /\ n \in Nat
      /\ \A f \in Events : Entries(f) \subseteq Entries(f)'
      /\ \A f \in Events : \A j \in Entries(f)' : j \in Entries(f) \/ (f = e /\ j = n)
      /\ \A f \in Events : \A j \in Entries(f) : j \in Nat /\ j < n
  BY <1>0, AddedEntries, OutboxParts
<1>2. e \in relay[r].batch \ relay[r].shipped /\ outbox[e] = "committed"
  BY NextIsDue DEF NextToShip
<1>3. \A g, f \in Events : Older(g, f)' = Older(g, f) /\ Before(g, f)' = Before(g, f)
  BY DEF Older, Before
<1>4. Numbered' /\ Serialized'
  BY <1>3 DEF InLine, Numbered, Serialized
<1>5. OnLog'
  <2>1. \A f \in Events : Shipped(f)' => Shipped(f) \/ f = e
    BY DEF Shipped
  <2> QED
    BY <1>1, <1>2, <2>1 DEF InLine, OnLog
<1>6. ASSUME NEW s \in Relays PROVE BatchInOrder(s)'
  <2> SUFFICES ASSUME NEW f \in relay'[s].batch \ relay'[s].shipped, NEW g \in Events,
                      Older(g, f)', outbox'[g] = "committed"
               PROVE  g \in relay'[s].batch \/ Entries(g)' # {}
    BY DEF BatchInOrder
  <2>1. f \in relay[s].batch \ relay[s].shipped /\ relay'[s].batch = relay[s].batch
    OBVIOUS
  <2>2. Older(g, f)
    BY DEF Older, Before
  <2>3. g \in relay[s].batch \/ Entries(g) # {}
    BY <2>1, <2>2 DEF InLine, BatchInOrder
  <2> QED
    BY <1>1, <2>1, <2>3
<1>7. ASSUME NEW g \in Events, Older(g, e), outbox[g] \in {"committed", "published"}
      PROVE  Entries(g) # {}
  <2>1. CASE outbox[g] = "published" \/ Shipped(g)
    BY <2>1 DEF InLine, OnLog
  <2>2. CASE outbox[g] = "committed" /\ ~Shipped(g)
    <3>1. g \notin relay[r].batch
      <4> SUFFICES ASSUME g \in relay[r].batch PROVE FALSE
        OBVIOUS
      <4>1. g \in relay[r].batch \ relay[r].shipped /\ g # e
        BY <1>7, <2>2, OutboxParts DEF Shipped, Older, Before, TypeOK
      <4>2. Before(e, g) /\ Before(g, e)
        BY <1>7, <4>1 DEF NextToShip, Older
      <4> QED
        BY <4>2, OutboxParts DEF Before, TypeOK
    <3> QED
      BY <1>2, <1>7, <2>2, <3>1 DEF InLine, BatchInOrder
  <2> QED
    BY <1>7, <2>1, <2>2
<1>8. CommitOrder'
  <2> SUFFICES ASSUME NEW g \in Events, NEW f \in Events,
                      EntityOf[g] = EntityOf[f], seq'[g] > 0, Before(g, f)',
                      outbox'[g] \in {"committed", "published"}, NEW j \in Entries(f)'
               PROVE  \E i \in Entries(g)' : i < j
    BY DEF CommitOrder
  <2>1. Before(g, f) /\ Older(g, f)
    BY <1>3 DEF Older
  <2>2. CASE j \in Entries(f)
    <3>1. \E i \in Entries(g) : i < j
      BY <2>1, <2>2 DEF InLine, CommitOrder
    <3> QED
      BY <1>1, <3>1
  <2>3. CASE f = e /\ j = n
    <3>1. PICK i \in Entries(g) : TRUE
      BY <1>7, <2>1, <2>3
    <3> QED
      BY <1>1, <2>3, <3>1
  <2> QED
    BY <1>1, <2>2, <2>3
<1> QED
  BY <1>4, <1>5, <1>6, <1>8 DEF InLine

LEMMA ShipInOrder ==
    ASSUME IInv, InLine, NEW r \in Relays, Ship(r)
    PROVE  InLine'
<1>1. PICK e \in Events :
        /\ NextToShip(r, e)
        /\ Added(e)
        /\ relay' = [relay EXCEPT
               ![r].shipped = relay[r].shipped \cup {e},
               ![r].pc = IF relay[r].batch = relay[r].shipped \cup {e} THEN "stamp" ELSE "ship"]
  BY DEF Ship
<1>2. UNCHANGED <<outbox, seq>>
  BY DEF Ship, staging
<1>3. relay \in [Relays -> RelayPass] /\ relay[r] \in RelayPass
  BY OutboxParts DEF TypeOK
<1>4. /\ relay'[r].batch = relay[r].batch /\ relay'[r].shipped = relay[r].shipped \cup {e}
      /\ \A s \in Relays : s # r => relay'[s] = relay[s]
  BY <1>1, <1>3 DEF RelayPass
<1> QED
  BY <1>1, <1>2, <1>4, AddedInOrder

\* A pass that was cut short.
LEMMA CutShort ==
    ASSUME IInv, NEW r \in Relays,
           relay' = [relay EXCEPT ![r] = IdlePass]
           \/ relay' = [relay EXCEPT ![r] = [relay[r] EXCEPT !.pc = "stamp"]]
    PROVE  \A s \in Relays :
             \/ relay'[s].batch = {} /\ relay'[s].shipped = {}
             \/ relay'[s].batch = relay[s].batch /\ relay'[s].shipped = relay[s].shipped
<1>1. relay \in [Relays -> RelayPass] /\ relay[r] \in RelayPass
  BY OutboxParts DEF TypeOK
<1>2. /\ IdlePass.batch = {} /\ IdlePass.shipped = {}
      /\ [relay[r] EXCEPT !.pc = "stamp"].batch = relay[r].batch
      /\ [relay[r] EXCEPT !.pc = "stamp"].shipped = relay[r].shipped
  BY <1>1 DEF IdlePass, RelayPass
<1> QED
  BY <1>1, <1>2

LEMMA ShipFailsInOrder ==
    ASSUME IInv, InLine, NEW r \in Relays, ShipFails(r)
    PROVE  InLine'
<1>1. PICK e \in Events : NextToShip(r, e) /\ (Added(e) \/ UNCHANGED <<log, low, cut>>)
  BY DEF ShipFails
<1>2. UNCHANGED <<outbox, seq>>
  BY DEF ShipFails, staging
<1>3. \A s \in Relays :
        \/ relay'[s].batch = {} /\ relay'[s].shipped = {}
        \/ relay'[s].batch = relay[s].batch /\ relay'[s].shipped = relay[s].shipped
  BY CutShort DEF ShipFails
<1>4. CASE Added(e)
  BY <1>1, <1>2, <1>3, <1>4, AddedInOrder
<1>5. CASE UNCHANGED <<log, low, cut>>
  BY <1>2, <1>3, <1>5, PassesKeepOrder
<1> QED
  BY <1>1, <1>4, <1>5

LEMMA StampInOrder ==
    ASSUME IInv, InLine, NEW r \in Relays, Stamp(r)
    PROVE  InLine'
<1>1. /\ outbox' = [e \in Events |-> IF e \in relay[r].shipped THEN "published" ELSE outbox[e]]
      /\ relay' = [relay EXCEPT ![r] = IdlePass]
      /\ UNCHANGED <<seq, log>>
  BY DEF Stamp, stream
<1>2. relay \in [Relays -> RelayPass] /\ \A e \in relay[r].shipped : outbox[e] = "committed"
  BY OutboxParts DEF TypeOK
<1>3. /\ relay'[r].batch = {} /\ relay'[r].shipped = {}
      /\ \A s \in Relays : s # r => relay'[s] = relay[s]
  BY <1>1, <1>2 DEF IdlePass
<1>4. \A e \in Events : Entries(e)' = Entries(e)
  BY <1>1 DEF Entries, Ids
<1>5. \A e, f \in Events : Older(e, f)' = Older(e, f) /\ Before(e, f)' = Before(e, f)
  BY <1>1 DEF Older, Before
<1>6. Numbered' /\ Serialized'
  BY <1>1, <1>5 DEF InLine, Numbered, Serialized
<1>7. OnLog'
  <2>1. \A e \in Events : (outbox[e] = "published" \/ Shipped(e))'
                          => outbox[e] = "published" \/ Shipped(e)
    BY <1>1, <1>3 DEF Shipped
  <2> QED
    BY <1>1, <1>4, <2>1 DEF InLine, OnLog
<1>8. ASSUME NEW s \in Relays PROVE BatchInOrder(s)'
  <2> SUFFICES ASSUME NEW f \in relay'[s].batch \ relay'[s].shipped, NEW e \in Events,
                      Older(e, f)', outbox'[e] = "committed"
               PROVE  e \in relay'[s].batch \/ Entries(e)' # {}
    BY DEF BatchInOrder
  <2>1. relay'[s] = relay[s] /\ outbox[e] = "committed"
    BY <1>1, <1>3
  <2>2. Older(e, f)
    BY <1>1 DEF Older, Before
  <2> QED
    BY <1>4, <2>1, <2>2 DEF InLine, BatchInOrder
<1>9. CommitOrder'
  <2> SUFFICES ASSUME NEW e \in Events, NEW f \in Events,
                      EntityOf[e] = EntityOf[f], seq'[e] > 0, Before(e, f)',
                      outbox'[e] \in {"committed", "published"}, NEW j \in Entries(f)'
               PROVE  \E i \in Entries(e)' : i < j
    BY DEF CommitOrder
  <2>1. outbox[e] \in {"committed", "published"}
    BY <1>1, <1>2
  <2> QED
    BY <1>1, <1>4, <1>5, <2>1 DEF InLine, CommitOrder
<1> QED
  BY <1>6, <1>7, <1>8, <1>9 DEF InLine

\* Rows that end, and rows that are deleted, leave the order alone.
LEMMA RowsEndInOrder ==
    ASSUME IInv, InLine, UNCHANGED <<seq, log, relay>>,
           \A e \in Events :
             \/ outbox'[e] = outbox[e]
             \/ outbox'[e] \in {"aborted", "deleted"}
             \/ outbox[e] = "staged" /\ outbox'[e] = "committed"
    PROVE  InLine'
<1>1. \A e \in Events : Entries(e)' = Entries(e) /\ Shipped(e)' = Shipped(e)
  BY DEF Entries, Ids, Shipped
<1>2. \A e, f \in Events : Older(e, f)' = Older(e, f) /\ Before(e, f)' = Before(e, f)
  BY DEF Older, Before
<1>3. Numbered'
  BY DEF InLine, Numbered
<1>4. Serialized'
  BY <1>2 DEF InLine, Serialized
<1>5. OnLog'
  BY <1>1 DEF InLine, OnLog
<1>6. ASSUME NEW e \in Events, NEW f \in Events, Older(e, f),
             outbox'[e] \in {"committed", "published"}
      PROVE  outbox'[e] = outbox[e]
  BY <1>6 DEF InLine, Serialized
<1>7. ASSUME NEW s \in Relays PROVE BatchInOrder(s)'
  <2> SUFFICES ASSUME NEW f \in relay'[s].batch \ relay'[s].shipped, NEW e \in Events,
                      Older(e, f)', outbox'[e] = "committed"
               PROVE  e \in relay'[s].batch \/ Entries(e)' # {}
    BY DEF BatchInOrder
  <2>1. f \in relay[s].batch \ relay[s].shipped /\ f \in Events
    BY OutboxParts
  <2>2. Older(e, f) /\ outbox[e] = "committed"
    BY <1>2, <1>6, <2>1
  <2> QED
    BY <1>1, <2>1, <2>2 DEF InLine, BatchInOrder
<1>8. CommitOrder'
  <2> SUFFICES ASSUME NEW e \in Events, NEW f \in Events,
                      EntityOf[e] = EntityOf[f], seq'[e] > 0, Before(e, f)',
                      outbox'[e] \in {"committed", "published"}, NEW j \in Entries(f)'
               PROVE  \E i \in Entries(e)' : i < j
    BY DEF CommitOrder
  <2>1. Older(e, f) /\ Before(e, f) /\ seq[e] > 0
    BY <1>2 DEF Older
  <2>2. outbox[e] \in {"committed", "published"}
    BY <1>6, <2>1
  <2> QED
    BY <1>1, <2>1, <2>2 DEF InLine, CommitOrder
<1> QED
  BY <1>3, <1>4, <1>5, <1>7, <1>8 DEF InLine

\* A new row comes last.
LEMMA StageInOrder ==
    ASSUME IInv, InLine, NEW e \in Events, Stage(e)
    PROVE  InLine'
<1> DEFINE Given == {f \in Events : seq[f] > 0}
<1>1. /\ outbox[e] = "none" /\ outbox' = [outbox EXCEPT ![e] = "staged"]
      /\ seq' = [seq EXCEPT ![e] = 1 + Cardinality(Given)]
      /\ \A f \in Events : EntityOf[f] = EntityOf[e] => outbox[f] # "staged"
      /\ UNCHANGED <<log, relay>>
  BY DEF Stage, stream
<1>2. /\ IsFiniteSet(Given) /\ Cardinality(Given) \in Nat
      /\ seq[e] = 0 /\ e \notin Given
      /\ \A f \in Events : seq[f] \in Nat /\ seq[f] <= Cardinality(Given)
  <2>1. IsFiniteSet(Given)
    BY EventsAssumption, FS_Subset
  <2>2. Cardinality(Given) \in Nat
    BY <2>1, FS_CardinalityType
  <2>3. \A f \in Events : seq[f] \in Nat /\ seq[f] <= Cardinality(Given)
    BY OutboxParts DEF TypeOK, InLine, Numbered
  <2> QED
    BY <1>1, <2>1, <2>2, <2>3 DEF InLine, Numbered
<1>3. /\ outbox'[e] = "staged" /\ seq'[e] = 1 + Cardinality(Given)
      /\ \A f \in Events : f # e => outbox'[f] = outbox[f] /\ seq'[f] = seq[f]
  BY <1>1, OutboxParts DEF TypeOK
<1>4. Cardinality({f \in Events : seq'[f] > 0}) = Cardinality(Given) + 1
  <2>1. {f \in Events : seq'[f] > 0} = Given \cup {e}
    BY <1>2, <1>3
  <2> QED
    BY <1>2, <2>1, FS_AddElement
<1> HIDE DEF Given
<1>5. Numbered'
  <2>1. \A f \in Events : outbox'[f] = "none" => seq'[f] = 0
    BY <1>3 DEF InLine, Numbered
  <2>2. \A f \in Events : seq'[f] <= Cardinality(Given) + 1
    BY <1>2, <1>3
  <2>3. \A f \in Events : seq'[f] <= Cardinality({g \in Events : seq'[g] > 0})
    BY <1>4, <2>2
  <2> QED
    BY <2>1, <2>3 DEF Numbered
<1>6. \A f \in Events : Entries(f)' = Entries(f) /\ Shipped(f)' = Shipped(f)
  BY <1>1 DEF Entries, Ids, Shipped
<1>7. Entries(e) = {} /\ ~Shipped(e) /\ \A r \in Relays : e \notin relay[r].batch
  BY <1>1, OutboxParts DEF InLine, OnLog
<1>8. OnLog'
  BY <1>3, <1>6, <1>7 DEF InLine, OnLog
<1>9. \A f \in Events : ~Older(e, f)' /\ ~Before(e, f)'
  BY <1>2, <1>3 DEF Older, Before
<1>10. ASSUME NEW f \in Events, NEW g \in Events, g # e, f # e
       PROVE  Older(f, g)' = Older(f, g) /\ Before(f, g)' = Before(f, g)
  BY <1>3, <1>10 DEF Older, Before
<1>11. Serialized'
  <2> SUFFICES ASSUME NEW f \in Events, NEW g \in Events, Older(f, g)'
               PROVE  outbox'[f] # "staged"
    BY DEF Serialized
  <2>1. f # e
    BY <1>9
  <2>2. CASE g = e
    BY <1>1, <1>3, <2>1, <2>2 DEF Older
  <2>3. CASE g # e
    BY <1>3, <1>10, <2>1, <2>3 DEF InLine, Serialized
  <2> QED
    BY <2>2, <2>3
<1>12. ASSUME NEW s \in Relays PROVE BatchInOrder(s)'
  <2> SUFFICES ASSUME NEW g \in relay'[s].batch \ relay'[s].shipped, NEW f \in Events,
                      Older(f, g)', outbox'[f] = "committed"
               PROVE  f \in relay'[s].batch \/ Entries(f)' # {}
    BY DEF BatchInOrder
  <2>1. g \in relay[s].batch \ relay[s].shipped /\ g \in Events /\ g # e /\ f # e
    BY <1>1, <1>7, <1>9, OutboxParts
  <2> QED
    BY <1>1, <1>3, <1>6, <1>10, <2>1 DEF InLine, BatchInOrder
<1>13. CommitOrder'
  <2> SUFFICES ASSUME NEW f \in Events, NEW g \in Events,
                      EntityOf[f] = EntityOf[g], seq'[f] > 0, Before(f, g)',
                      outbox'[f] \in {"committed", "published"}, NEW j \in Entries(g)'
               PROVE  \E i \in Entries(f)' : i < j
    BY DEF CommitOrder
  <2>1. f # e /\ g # e
    BY <1>6, <1>7, <1>9
  <2> QED
    BY <1>3, <1>6, <1>10, <2>1 DEF InLine, CommitOrder
<1> QED
  BY <1>5, <1>8, <1>11, <1>12, <1>13 DEF InLine

LEMMA OutboxClearedInOrder ==
    ASSUME IInv, InLine, OutboxCleared
    PROVE  InLine'
<1>1. /\ outbox' = [e \in Events |-> IF e \in reset.doomed THEN "deleted" ELSE outbox[e]]
      /\ UNCHANGED <<seq, log, relay>>
  BY DEF OutboxCleared, stream
<1> QED
  BY <1>1, RowsEndInOrder

LEMMA SettleInOrder ==
    ASSUME IInv, InLine, NEW e \in Events, Settle(e)
    PROVE  InLine'
<1>1. /\ outbox[e] = "staged" /\ UNCHANGED <<seq, log, relay>>
      /\ \E end \in {"committed", "aborted"} : outbox' = [outbox EXCEPT ![e] = end]
  BY DEF Settle, stream
<1>2. /\ outbox'[e] \in {"committed", "aborted"}
      /\ \A f \in Events : f # e => outbox'[f] = outbox[f]
  BY <1>1, OutboxParts DEF TypeOK
<1> QED
  BY <1>1, <1>2, RowsEndInOrder

LEMMA OrderBegins == Init => InLine
<1> SUFFICES ASSUME Init PROVE InLine
  OBVIOUS
<1>1. \A e \in Events : outbox[e] = "none" /\ seq[e] = 0 /\ Entries(e) = {}
  BY DEF Init, Entries, Ids
<1>2. \A r \in Relays : relay[r].batch = {} /\ relay[r].shipped = {}
  BY DEF Init, IdlePass
<1>3. Cardinality({f \in Events : seq[f] > 0}) = 0
  <2>1. {f \in Events : seq[f] > 0} = {}
    BY <1>1
  <2> QED
    BY <2>1, FS_EmptySet
<1> QED
  BY <1>1, <1>2, <1>3 DEF InLine, Numbered, OnLog, Shipped, Serialized, BatchInOrder, CommitOrder,
     Older, Before

LEMMA NextInOrder == IInv /\ InLine /\ Apart' /\ [Next]_vars => InLine'
<1> SUFFICES ASSUME IInv, InLine, Apart', [Next]_vars PROVE InLine'
  OBVIOUS
<1>1. ASSUME UNCHANGED <<outbox, seq, log, relay>> PROVE InLine'
  BY <1>1, PassesKeepOrder
<1>2. CASE Write
  BY <1>2, StageInOrder, SettleInOrder DEF Write
<1>3. ASSUME NEW r \in Relays, RelayStep(r) \/ ShipFails(r) \/ RelayDies(r)
      PROVE  InLine'
  <2>1. CASE RelayDies(r)
    <3>1. UNCHANGED <<outbox, seq, log>> /\ relay' = [relay EXCEPT ![r] = IdlePass]
      BY <2>1 DEF RelayDies, staging, stream
    <3> QED
      BY <3>1, CutShort, PassesKeepOrder
  <2> QED
    BY <1>3, <2>1, TakeInOrder, ShipInOrder, StampInOrder, ShipFailsInOrder DEF RelayStep
<1>4. ASSUME NEW c \in Consumers,
             ConsumerStep(c) \/ DeliverFails(c) \/ BatchFails(c) \/ ConsumerDies(c)
      PROVE  UNCHANGED <<outbox, seq, log, relay>>
  BY <1>4 DEF ConsumerStep, Deliver, DeliverBatch, ReadFresh, Reclaim, EnsureGroup, LeaveOut, Check,
     Handle, Unactionable, Mark, Ack, BatchLeaveOut, BatchCheck, BatchHandle, BatchMark, BatchAck,
     DeliverFails, BatchFails, ConsumerDies, staging, stream
<1>5. ASSUME NEW e \in Events, MarkExpires(e)
      PROVE  UNCHANGED <<outbox, seq, log, relay>>
  BY <1>5 DEF MarkExpires, staging, stream
<1>6. CASE Reset
  <2>1. CASE ClearOutbox \/ UnlinkStreams \/ RestoreGroups \/ PurgeDedupe \/ ResetFails
    <3>1. UNCHANGED <<outbox, seq, log, relay>>
      BY <2>1 DEF ClearOutbox, UnlinkStreams, RestoreGroups, PurgeDedupe, ResetFails, staging, stream
    <3> QED
      BY <1>1, <3>1
  <2> QED
    BY <1>6, <2>1, OutboxClearedInOrder DEF Reset
<1>7. CASE UNCHANGED vars
  BY <1>1, <1>7 DEF vars
<1> QED
  BY <1>1, <1>2, <1>3, <1>4, <1>5, <1>6, <1>7 DEF Next

\* As long as no two passes hold rows of one entity, the stream has the entity's
\* events in commit order, whatever fails: what a pass has yet to ship waits for
\* what comes before it, also after an XADD that failed or a relay that died.
THEOREM ApartKeepsOrder == Spec /\ []Apart => []CommitOrder
<1>1. InLine => CommitOrder
  BY DEF InLine
<1> QED
  BY <1>1, OrderBegins, NextInOrder, Invariance, PTL DEF Spec

\* With one relay no two passes ever meet, and the order needs nothing else.
THEOREM OneRelayKeepsOrder ==
    ASSUME \A r, s \in Relays : r = s
    PROVE  Spec => []CommitOrder
<1>1. Apart
  BY DEF Apart
<1> QED
  BY <1>1, ApartKeepsOrder, PTL

(***************************************************************************)
(* Repeated effects.                                                       *)
(***************************************************************************)

\* c has decided to run the effect of e, or has run it and not yet marked it.
Holds(c, e) == \E i \in Past(c) : log[i] = e

\* c is about to run it.
Running(c, e) == cons[c].pc \in {"run", "brun"} /\ Holds(c, e)
Runners(e) == {c \in Consumers : Running(c, e)}

\* The one run that needs no excuse was made or is about to be, and no other
\* subscriber begins one without an excuse.
Claimed(e) == e \in marks \/ \E c \in Consumers : Holds(c, e)

Bit(b) == IF b THEN 1 ELSE 0

\* The runs made and about to be made are the excused ones, and one while e is
\* claimed.
Balanced ==
    \A e \in Events :
        /\ IsFiniteSet(Runners(e))
        /\ ran[e] + Cardinality(Runners(e)) <= excused[e] + Bit(Claimed(e))

\* What a step of c adds to the runs of e is paid for.
Paid(c, e) ==
    ran'[e] + Bit(Running(c, e)') + excused[e] + Bit(Claimed(e))
      <= ran[e] + Bit(Running(c, e)) + excused'[e] + Bit(Claimed(e)')

LEMMA PaidKeepsBalance ==
    ASSUME IInv, Balanced, NEW c \in Consumers, log' = log,
           \A d \in Consumers : d # c => cons'[d] = cons[d],
           ran' \in [Events -> Nat], excused' \in [Events -> Nat],
           \A e \in Events : Paid(c, e)
    PROVE  Balanced'
<1> SUFFICES ASSUME NEW e \in Events
             PROVE  /\ IsFiniteSet(Runners(e)')
                    /\ ran'[e] + Cardinality(Runners(e)') <= excused'[e] + Bit(Claimed(e)')
  BY DEF Balanced
<1>1. \A d \in Consumers : d # c => Running(d, e)' = Running(d, e)
  BY DEF Running, Holds, Past, Lowest
<1>2. /\ IsFiniteSet(Runners(e)) /\ Cardinality(Runners(e)) \in Nat
      /\ ran[e] + Cardinality(Runners(e)) <= excused[e] + Bit(Claimed(e))
  BY FS_CardinalityType DEF Balanced
<1>3. /\ ran[e] \in Nat /\ excused[e] \in Nat /\ ran'[e] \in Nat /\ excused'[e] \in Nat
      /\ Paid(c, e)
  BY GroupParts
<1>4. Bit(Claimed(e)) \in {0, 1} /\ Bit(Claimed(e)') \in {0, 1}
  BY DEF Bit
<1>5. /\ IsFiniteSet(Runners(e)')
      /\ Cardinality(Runners(e)') = Cardinality(Runners(e)) - Bit(Running(c, e)) + Bit(Running(c, e)')
  <2>1. CASE Running(c, e) /\ ~Running(c, e)'
    <3>1. Runners(e)' = Runners(e) \ {c} /\ c \in Runners(e)
      BY <1>1, <2>1 DEF Runners
    <3> QED
      BY <1>2, <2>1, <3>1, FS_RemoveElement DEF Bit
  <2>2. CASE ~Running(c, e) /\ Running(c, e)'
    <3>1. Runners(e)' = Runners(e) \cup {c} /\ c \notin Runners(e)
      BY <1>1, <2>2 DEF Runners
    <3> QED
      BY <1>2, <2>2, <3>1, FS_AddElement DEF Bit
  <2>3. CASE Running(c, e) = Running(c, e)'
    <3>1. Runners(e)' = Runners(e)
      BY <1>1, <2>3 DEF Runners
    <3> QED
      BY <1>2, <2>3, <3>1 DEF Bit
  <2> QED
    BY <2>1, <2>2, <2>3 DEF Running
<1>6. Bit(Running(c, e)) \in {0, 1} /\ Bit(Running(c, e)') \in {0, 1}
  BY DEF Bit
<1> QED
  BY <1>2, <1>3, <1>4, <1>5, <1>6 DEF Paid

\* A subscriber that has decided nothing.
Resting(c) == cons[c].pc \notin {"run", "mark", "brun", "bmark"}

LEMMA RestingHoldsNothing ==
    ASSUME NEW c \in Consumers, Resting(c), NEW e
    PROVE  ~Holds(c, e) /\ ~Running(c, e)
BY DEF Resting, Holds, Running, Past

\* A step between two such places takes part in nothing.
LEMMA RestingKeepsBalance ==
    ASSUME IInv, Balanced, NEW c \in Consumers, UNCHANGED <<log, marks, ran, excused>>,
           \A d \in Consumers : d # c => cons'[d] = cons[d],
           Resting(c), Resting(c)'
    PROVE  Balanced'
<1>1. \A e \in Events : Claimed(e)' = Claimed(e)
  <2>1. \A e \in Events : \A d \in Consumers : d # c => Holds(d, e)' = Holds(d, e)
    BY DEF Holds, Past, Lowest
  <2>2. \A e \in Events : ~Holds(c, e) /\ ~Holds(c, e)'
    BY DEF Resting, Holds, Past
  <2> QED
    BY <2>1, <2>2 DEF Claimed
<1>2. \A e \in Events : ~Running(c, e) /\ ~Running(c, e)'
  BY DEF Resting, Running
<1>3. \A e \in Events : Paid(c, e)
  BY <1>1, <1>2, GroupParts DEF Paid, Bit
<1> QED
  BY <1>3, GroupParts, PaidKeepsBalance

-----------------------------------------------------------------------------
(* Copies of an event among entries.                                       *)

LEMMA LeastOf ==
    ASSUME NEW S \in SUBSET Nat, S # {}
    PROVE  \E m \in S : \A k \in S : m <= k
<1>1. PICK m \in S : \A k \in S : ~(<<k, m>> \in OpToRel(<, Nat))
  BY NatLessThanWellFounded, WFMin
<1>2. OpToRel(<, Nat) = {ss \in Nat \X Nat : ss[1] < ss[2]}
  BY DEF OpToRel
<1>3. ASSUME NEW k \in S PROVE m <= k
  <2>1. k \in Nat /\ m \in Nat /\ ~(k < m)
    BY <1>1, <1>2
  <2> QED
    BY <2>1
<1> QED
  BY <1>3

Of(S, e) == {i \in S : log[i] = e}
Copies(S, e) == Cardinality(Of(S, e))

LEMMA CopyFacts ==
    ASSUME TypeOK, NEW S \in SUBSET Ids, NEW e \in Events
    PROVE  /\ IsFiniteSet(Of(S, e)) /\ Copies(S, e) \in Nat
           /\ e \notin EventsOf(S) => Copies(S, e) = 0
           /\ \A count : Tally(count, S)[e] = count[e] + Copies(S, e)
<1>1. IsFiniteSet(Of(S, e)) /\ Copies(S, e) \in Nat
  BY IdsCounted DEF Of, Copies
<1>2. e \notin EventsOf(S) => Of(S, e) = {}
  BY DEF EventsOf, Of
<1> QED
  BY <1>1, <1>2, FS_EmptySet DEF Copies, Tally, Of

LEMMA CopiesOfOne ==
    ASSUME TypeOK, NEW i \in Ids, NEW e \in Events
    PROVE  Copies({i}, e) = Bit(log[i] = e) /\ Copies({}, e) = 0
<1>1. CASE log[i] = e
  <2>1. Of({i}, e) = {i} /\ Of({}, e) = {}
    BY <1>1 DEF Of
  <2> QED
    BY <1>1, <2>1, FS_Singleton, FS_EmptySet DEF Copies, Bit
<1>2. CASE log[i] # e
  <2>1. Of({i}, e) = {} /\ Of({}, e) = {}
    BY <1>2 DEF Of
  <2> QED
    BY <1>2, <2>1, FS_EmptySet DEF Copies, Bit
<1> QED
  BY <1>1, <1>2

\* One entry of each event comes first.
LEMMA OneFirst ==
    ASSUME TypeOK, NEW S \in SUBSET Ids, NEW e \in Events
    PROVE  Copies(Firsts(S), e) = Bit(e \in EventsOf(S))
<1>1. CASE e \notin EventsOf(S)
  <2>1. Of(Firsts(S), e) = {}
    BY <1>1 DEF Of, Firsts, EventsOf
  <2> QED
    BY <1>1, <2>1, FS_EmptySet DEF Copies, Bit
<1>2. CASE e \in EventsOf(S)
  <2>1. Of(S, e) # {} /\ Of(S, e) \subseteq Nat
    BY <1>2 DEF EventsOf, Of, Ids
  <2>2. PICK m \in Of(S, e) : \A k \in Of(S, e) : m <= k
    BY <2>1, LeastOf
  <2>3. Of(Firsts(S), e) = {m}
    <3>1. m \in Of(Firsts(S), e)
      BY <2>2 DEF Of, Firsts
    <3>2. ASSUME NEW i \in Of(Firsts(S), e) PROVE i = m
      <4>1. i \in Of(S, e) /\ i <= m
        BY <2>2 DEF Of, Firsts
      <4> QED
        BY <2>1, <2>2, <4>1
    <3> QED
      BY <3>1, <3>2
  <2> QED
    BY <1>2, <2>3, FS_Singleton DEF Copies, Bit
<1> QED
  BY <1>1, <1>2

\* The others come later.
LEMMA OthersLater ==
    ASSUME TypeOK, NEW S \in SUBSET Ids, NEW e \in Events
    PROVE  Copies(S, e) = Copies(S \ Firsts(S), e) + Bit(e \in EventsOf(S))
<1>1. Of(S \ Firsts(S), e) = Of(S, e) \ Of(Firsts(S), e)
      /\ Of(S, e) \cap Of(Firsts(S), e) = Of(Firsts(S), e)
  BY DEF Of, Firsts
<1>2. /\ IsFiniteSet(Of(S, e)) /\ Copies(S, e) \in Nat
      /\ Firsts(S) \in SUBSET Ids /\ Copies(Firsts(S), e) \in Nat
  <2>1. Firsts(S) \in SUBSET Ids
    BY DEF Firsts
  <2> QED
    BY <2>1, CopyFacts
<1>3. Copies(S \ Firsts(S), e) = Copies(S, e) - Copies(Firsts(S), e)
  BY <1>1, <1>2, FS_Difference DEF Copies
<1> QED
  BY <1>2, <1>3, OneFirst

\* Effects that were run, and excuses that were given, count the copies.
LEMMA RunsCount ==
    ASSUME IInv, NEW S \in SUBSET Ids, Runs(S)
    PROVE  ran' \in [Events -> Nat] /\ \A e \in Events : ran'[e] = ran[e] + Copies(S, e)
BY GroupParts, TallyFacts, CopyFacts DEF Runs

LEMMA ExcusesCount ==
    ASSUME IInv, NEW S \in SUBSET Ids, Excuse(S)
    PROVE  /\ excused' \in [Events -> Nat]
           /\ \A e \in Events : excused'[e] = excused[e] + Copies(S, e)
BY GroupParts, TallyFacts, CopyFacts DEF Excuse

\* One effect or excuse, or none.
LEMMA RunsOfOne ==
    ASSUME IInv, NEW i \in Ids
    PROVE  /\ Runs({i}) => /\ ran' \in [Events -> Nat]
                           /\ \A e \in Events : ran'[e] = ran[e] + Bit(log[i] = e)
           /\ Runs({}) => /\ ran' \in [Events -> Nat]
                          /\ \A e \in Events : ran'[e] = ran[e]
<1>1. {i} \in SUBSET Ids /\ {} \in SUBSET Ids
  OBVIOUS
<1>2. \A e \in Events : Copies({i}, e) = Bit(log[i] = e) /\ Copies({}, e) = 0
  BY GroupParts, CopiesOfOne
<1>3. \A e \in Events : ran[e] \in Nat
  BY GroupParts
<1>4. ASSUME Runs({})
      PROVE  ran' \in [Events -> Nat] /\ \A e \in Events : ran'[e] = ran[e]
  <2>1. ran' \in [Events -> Nat] /\ \A e \in Events : ran'[e] = ran[e] + Copies({}, e)
    BY <1>1, <1>4, RunsCount
  <2> QED
    BY <1>2, <1>3, <2>1
<1>5. ASSUME Runs({i})
      PROVE  /\ ran' \in [Events -> Nat]
             /\ \A e \in Events : ran'[e] = ran[e] + Bit(log[i] = e)
  <2>1. ran' \in [Events -> Nat] /\ \A e \in Events : ran'[e] = ran[e] + Copies({i}, e)
    BY <1>1, <1>5, RunsCount
  <2> QED
    BY <1>2, <2>1
<1> QED
  BY <1>4, <1>5

LEMMA ExcusesOfOne ==
    ASSUME IInv, NEW i \in Ids
    PROVE  /\ Excuse({i}) =>
                /\ excused' \in [Events -> Nat]
                /\ \A e \in Events : excused'[e] = excused[e] + Bit(log[i] = e)
           /\ Excuse({}) => /\ excused' \in [Events -> Nat]
                            /\ \A e \in Events : excused'[e] = excused[e]
<1>1. {i} \in SUBSET Ids /\ {} \in SUBSET Ids
  OBVIOUS
<1>2. \A e \in Events : Copies({i}, e) = Bit(log[i] = e) /\ Copies({}, e) = 0
  BY GroupParts, CopiesOfOne
<1>3. \A e \in Events : excused[e] \in Nat
  BY GroupParts
<1>4. ASSUME Excuse({})
      PROVE  excused' \in [Events -> Nat] /\ \A e \in Events : excused'[e] = excused[e]
  <2>1. /\ excused' \in [Events -> Nat]
        /\ \A e \in Events : excused'[e] = excused[e] + Copies({}, e)
    BY <1>1, <1>4, ExcusesCount
  <2> QED
    BY <1>2, <1>3, <2>1
<1>5. ASSUME Excuse({i})
      PROVE  /\ excused' \in [Events -> Nat]
             /\ \A e \in Events : excused'[e] = excused[e] + Bit(log[i] = e)
  <2>1. /\ excused' \in [Events -> Nat]
        /\ \A e \in Events : excused'[e] = excused[e] + Copies({i}, e)
    BY <1>1, <1>5, ExcusesCount
  <2> QED
    BY <1>2, <2>1
<1> QED
  BY <1>4, <1>5

-----------------------------------------------------------------------------
(* The subscribers' steps.                                                 *)

Elsewhere(c, e) == \E d \in Consumers \ {c} : Holds(d, e)

\* What a step of c may change about who claims an event.
LEMMA ClaimedBy ==
    ASSUME IInv, NEW c \in Consumers, log' = log,
           \A d \in Consumers : d # c => cons'[d] = cons[d]
    PROVE  /\ \A e : Claimed(e) <=> e \in marks \/ Holds(c, e) \/ Elsewhere(c, e)
           /\ \A e : Claimed(e)' <=> e \in marks' \/ Holds(c, e)' \/ Elsewhere(c, e)
           /\ \A i : Raced(c, i) <=> Elsewhere(c, log[i])
<1>1. \A e : \A d \in Consumers : d # c => Holds(d, e)' = Holds(d, e)
  BY DEF Holds, Past, Lowest
<1>2. \A e : Claimed(e) <=> e \in marks \/ Holds(c, e) \/ Elsewhere(c, e)
  BY DEF Claimed, Elsewhere
<1>3. \A e : Claimed(e)' <=> e \in marks' \/ Holds(c, e)' \/ Elsewhere(c, e)
  BY <1>1 DEF Claimed, Elsewhere
<1>4. \A i : Raced(c, i) <=> Elsewhere(c, log[i])
  BY DEF Raced, Elsewhere, Holds
<1> QED
  BY <1>2, <1>3, <1>4

\* An entry in hand is the only lowest one.
LEMMA OneLowest ==
    ASSUME IInv, NEW c \in Consumers, NEW i \in cons[c].todo, Lowest(cons[c].todo, i)
    PROVE  {j \in cons[c].todo : Lowest(cons[c].todo, j)} = {i}
<1>1. cons[c].todo \subseteq Ids /\ Ids \subseteq Nat
  BY GroupParts DEF Ids
<1>2. ASSUME NEW j \in cons[c].todo, Lowest(cons[c].todo, j) PROVE j = i
  <2>1. i <= j /\ j <= i /\ i \in Nat /\ j \in Nat
    BY <1>1, <1>2 DEF Lowest
  <2> QED
    BY <2>1
<1> QED
  BY <1>2

LEMMA OneInHand ==
    ASSUME IInv, NEW c \in Consumers, cons[c].pc \in {"run", "mark"},
           NEW i \in cons[c].todo, Lowest(cons[c].todo, i)
    PROVE  \A e : Holds(c, e) <=> log[i] = e
BY OneLowest DEF Holds, Past

LEMMA BatchInHand ==
    ASSUME NEW c \in Consumers, cons[c].pc \in {"brun", "bmark"}
    PROVE  \A e : Holds(c, e) <=> e \in EventsOf(cons[c].fresh)
BY DEF Holds, Past, EventsOf

\* Subscribers that decide nothing and run nothing.
LEMMA RestedHand ==
    ASSUME IInv, NEW c \in Consumers, NEW h, NewHand(h), cons' = [cons EXCEPT ![c] = h]
    PROVE  Resting(c)' /\ \A d \in Consumers : d # c => cons'[d] = cons[d]
BY GroupParts DEF NewHand, Resting

LEMMA IdleStepsBalanced ==
    ASSUME IInv, Balanced, NEW c \in Consumers,
           ReadFresh(c) \/ Reclaim(c) \/ EnsureGroup(c) \/ LeaveOut(c) \/ Ack(c)
             \/ BatchLeaveOut(c) \/ BatchAck(c)
    PROVE  Balanced'
<1>1. UNCHANGED <<log, marks, ran, excused>>
  BY DEF ReadFresh, Reclaim, EnsureGroup, LeaveOut, Ack, BatchLeaveOut, BatchAck, stream, ghosts
<1>2. cons[c].pc \in {"idle", "check", "ack", "bcheck", "back"}
  BY DEF ReadFresh, Reclaim, EnsureGroup, LeaveOut, Ack, BatchLeaveOut, BatchAck
<1>3. Resting(c)' /\ \A d \in Consumers : d # c => cons'[d] = cons[d]
  <2>1. CASE ReadFresh(c)
    <3>1. PICK S \in SUBSET Ids : cons' = [cons EXCEPT ![c] = InHand(S)]
      BY <2>1 DEF ReadFresh
    <3> QED
      BY <3>1, HandsFilled, RestedHand
  <2>2. CASE Reclaim(c)
    <3>1. PICK S \in SUBSET pel : cons' = [cons EXCEPT ![c] = InHand(S \cap OnStream)]
      BY <2>2 DEF Reclaim
    <3>2. S \cap OnStream \in SUBSET Ids
      BY DEF OnStream
    <3> QED
      BY <3>1, <3>2, HandsFilled, RestedHand
  <2>3. CASE EnsureGroup(c)
    BY <2>3 DEF EnsureGroup, Resting
  <2>4. CASE LeaveOut(c)
    BY <2>4, GroupParts, GotoFacts DEF LeaveOut, Resting, EntryPcs
  <2>5. CASE Ack(c)
    <3>1. PICK i \in cons[c].todo : cons' = [cons EXCEPT ![c] = OneByOne(cons[c].todo \ {i})]
      BY <2>5 DEF Ack
    <3>2. cons[c].todo \ {i} \in SUBSET Ids
      BY GroupParts
    <3> QED
      BY <3>1, <3>2, HandsFilled, RestedHand
  <2>6. CASE BatchLeaveOut(c)
    <3>1. PICK i \in cons[c].todo :
            cons' = [cons EXCEPT ![c] = IF cons[c].todo = {i} THEN IdleConsumer
                                        ELSE [cons[c] EXCEPT !.todo = cons[c].todo \ {i}]]
      BY <2>6 DEF BatchLeaveOut
    <3>2. cons[c].pc = "bcheck" /\ cons[c] \in Hands
      BY <2>6, GroupParts DEF BatchLeaveOut
    <3>3. cons'[c].pc \in {"idle", "bcheck"}
      BY <3>1, <3>2, GroupParts DEF Hands, IdleConsumer
    <3> QED
      BY <3>1, <3>3, GroupParts DEF Resting
  <2>7. CASE BatchAck(c)
    BY <2>7, HandsFilled, RestedHand DEF BatchAck
  <2> QED
    BY <2>1, <2>2, <2>3, <2>4, <2>5, <2>6, <2>7
<1> QED
  BY <1>1, <1>2, <1>3, RestingKeepsBalance DEF Resting

\* The run that is decided on is the first, or raced and excused.
LEMMA CheckBalanced ==
    ASSUME IInv, Balanced, NEW c \in Consumers, Check(c)
    PROVE  Balanced'
<1>1. PICK i \in cons[c].todo :
        /\ Lowest(cons[c].todo, i)
        /\ Goto(c, IF Seen(log[i]) THEN "ack" ELSE "run")
        /\ Excuse({j \in {i} : ~Seen(log[i]) /\ Raced(c, i)})
  BY DEF Check
<1>2. UNCHANGED <<log, marks, ran>> /\ cons[c].pc = "check"
  BY DEF Check, stream
<1>3. /\ \A d \in Consumers : d # c => cons'[d] = cons[d]
      /\ cons'[c].pc = IF Seen(log[i]) THEN "ack" ELSE "run"
      /\ cons'[c].todo = cons[c].todo
  BY <1>1, GotoFacts DEF EntryPcs
<1>4. i \in Ids /\ log[i] \in Events /\ TypeOK
  BY <1>1, InHandFacts, GroupParts
<1>5. \A e : ~Holds(c, e) /\ ~Running(c, e)
  BY <1>2, RestingHoldsNothing DEF Resting
<1>6. CASE Seen(log[i])
  <2>1. \A e : ~Holds(c, e)' /\ ~Running(c, e)'
    BY <1>3, <1>6 DEF Holds, Past, Running
  <2>2. Excuse({})
    BY <1>1, <1>6
  <2>3. excused' \in [Events -> Nat] /\ \A e \in Events : excused'[e] = excused[e]
    BY <1>4, <2>2, ExcusesOfOne
  <2>4. \A e : Claimed(e)' = Claimed(e)
    BY <1>2, <1>3, <1>5, <2>1, ClaimedBy DEF Claimed
  <2>5. \A e \in Events : Paid(c, e)
    BY <1>2, <1>5, <2>1, <2>3, <2>4, GroupParts DEF Paid, Bit
  <2> QED
    BY <1>2, <1>3, <2>3, <2>5, GroupParts, PaidKeepsBalance
<1>7. CASE ~Seen(log[i])
  <2>1. \A e : (Holds(c, e)' <=> log[i] = e) /\ (Running(c, e)' <=> log[i] = e)
    <3>1. {j \in cons'[c].todo : Lowest(cons'[c].todo, j)} = {i}
      BY <1>1, <1>3, OneLowest
    <3>2. cons'[c].pc = "run"
      BY <1>3, <1>7
    <3> QED
      BY <1>2, <3>1, <3>2 DEF Holds, Past, Running
  <2>2. /\ excused' \in [Events -> Nat]
        /\ \A e \in Events :
             excused'[e] = excused[e] + (IF e = log[i] /\ Elsewhere(c, e) THEN 1 ELSE 0)
    <3>1. Raced(c, i) <=> Elsewhere(c, log[i])
      BY <1>2, <1>3, ClaimedBy
    <3>2. CASE Raced(c, i)
      <4>1. Excuse({i})
        BY <1>1, <1>7, <3>2
      <4>2. /\ excused' \in [Events -> Nat]
            /\ \A e \in Events : excused'[e] = excused[e] + Bit(log[i] = e)
        BY <1>4, <4>1, ExcusesOfOne
      <4>3. \A e \in Events : Bit(log[i] = e)
                                = (IF e = log[i] /\ Elsewhere(c, e) THEN 1 ELSE 0)
        BY <3>1, <3>2 DEF Bit
      <4> QED
        BY <4>2, <4>3
    <3>3. CASE ~Raced(c, i)
      <4>1. Excuse({})
        BY <1>1, <1>7, <3>3
      <4>2. excused' \in [Events -> Nat] /\ \A e \in Events : excused'[e] = excused[e]
        BY <1>4, <4>1, ExcusesOfOne
      <4>3. \A e \in Events : ~(e = log[i] /\ Elsewhere(c, e)) /\ excused[e] \in Nat
        BY <3>1, <3>3, GroupParts
      <4> QED
        BY <4>2, <4>3
    <3> QED
      BY <3>2, <3>3
  <2>3. ASSUME NEW e \in Events PROVE Paid(c, e)
    <3>1. CASE e = log[i]
      <4>1. /\ Bit(Running(c, e)) = 0 /\ Bit(Running(c, e)') = 1
            /\ Bit(Claimed(e)) = (IF Elsewhere(c, e) THEN 1 ELSE 0) /\ Bit(Claimed(e)') = 1
        BY <1>2, <1>3, <1>5, <1>7, <2>1, <3>1, ClaimedBy DEF Bit, Seen
      <4> QED
        BY <1>2, <2>2, <3>1, <4>1, GroupParts DEF Paid
    <3>2. CASE e # log[i]
      <4>1. /\ Bit(Running(c, e)) = 0 /\ Bit(Running(c, e)') = 0
            /\ Bit(Claimed(e)) = Bit(Claimed(e)')
        BY <1>2, <1>3, <1>5, <2>1, <3>2, ClaimedBy DEF Bit
      <4>2. Bit(Claimed(e)) \in Nat
        BY DEF Bit
      <4> QED
        BY <1>2, <2>2, <3>2, <4>1, <4>2, GroupParts DEF Paid
    <3> QED
      BY <3>1, <3>2
  <2> QED
    BY <1>2, <1>3, <2>2, <2>3, GroupParts, PaidKeepsBalance
<1> QED
  BY <1>6, <1>7

\* The ways to pay: nothing is added; a decided run is made, and the claim stays;
\* one is given up, or made with an excuse, and the claim may go; or the claim goes
\* and is excused.
LEMMA WaysToPay ==
    ASSUME NEW c, NEW e, ran[e] \in Nat, excused[e] \in Nat, ran'[e] \in Nat, excused'[e] \in Nat,
           \/ /\ ran'[e] = ran[e] /\ excused'[e] >= excused[e]
              /\ Running(c, e)' => Running(c, e)
              /\ Claimed(e) => Claimed(e)'
           \/ /\ Running(c, e) /\ ~Running(c, e)'
              /\ ran'[e] + excused[e] <= ran[e] + excused'[e] + 1
              /\ Claimed(e) => Claimed(e)'
           \/ /\ Running(c, e) /\ ~Running(c, e)'
              /\ ran'[e] + excused[e] <= ran[e] + excused'[e]
           \/ /\ ran'[e] = ran[e] /\ excused'[e] >= excused[e] + 1
              /\ Running(c, e)' => Running(c, e)
    PROVE  Paid(c, e)
<1> DEFINE r == Bit(Running(c, e))
           s == Bit(Running(c, e)')
           k == Bit(Claimed(e))
           l == Bit(Claimed(e)')
<1>1. /\ r \in {0, 1} /\ s \in {0, 1} /\ k \in {0, 1} /\ l \in {0, 1}
      /\ (r = 1 <=> Running(c, e)) /\ (s = 1 <=> Running(c, e)')
      /\ (k = 1 <=> Claimed(e)) /\ (l = 1 <=> Claimed(e)')
  BY DEF Bit
<1> HIDE DEF r, s, k, l
<1>2. ran'[e] + s + excused[e] + k <= ran[e] + r + excused'[e] + l
  BY <1>1
<1> QED
  BY <1>2 DEF Paid, r, s, k, l

LEMMA HandleBalanced ==
    ASSUME IInv, Balanced, NEW c \in Consumers, Handle(c)
    PROVE  Balanced'
<1>1. PICK i \in cons[c].todo : Lowest(cons[c].todo, i) /\ Runs({i})
  BY DEF Handle
<1>2. UNCHANGED <<log, marks, excused>> /\ cons[c].pc = "run" /\ Goto(c, "mark")
  BY DEF Handle, stream
<1>3. /\ \A d \in Consumers : d # c => cons'[d] = cons[d]
      /\ cons'[c].pc = "mark" /\ cons'[c].todo = cons[c].todo
  BY <1>2, GotoFacts DEF EntryPcs
<1>4. /\ i \in Ids /\ ran' \in [Events -> Nat]
      /\ \A e \in Events : ran'[e] = ran[e] + Bit(log[i] = e)
  BY <1>1, InHandFacts, RunsOfOne
<1>5. \A e : /\ Holds(c, e) <=> log[i] = e
             /\ Running(c, e) <=> log[i] = e
             /\ Holds(c, e)' <=> log[i] = e
             /\ ~Running(c, e)'
  <2>1. \A e : Holds(c, e) <=> log[i] = e
    BY <1>1, <1>2, OneInHand
  <2>2. Past(c)' = {i}
    BY <1>1, <1>3, OneLowest DEF Past
  <2> QED
    BY <1>2, <1>3, <2>1, <2>2 DEF Running, Holds
<1>6. \A e : Claimed(e)' = Claimed(e)
  BY <1>2, <1>3, <1>5, ClaimedBy DEF Claimed
<1>7. ASSUME NEW e \in Events PROVE Paid(c, e)
  <2>1. ran[e] \in Nat /\ excused[e] \in Nat /\ ran'[e] \in Nat /\ excused'[e] = excused[e]
    BY <1>2, <1>4, GroupParts
  <2>2. CASE log[i] = e
    <3>1. ran'[e] = ran[e] + 1
      BY <1>4, <2>2 DEF Bit
    <3> QED
      BY <1>5, <1>6, <2>1, <2>2, <3>1, WaysToPay
  <2>3. CASE log[i] # e
    <3>1. ran'[e] = ran[e]
      BY <1>4, <2>1, <2>3 DEF Bit
    <3> QED
      BY <1>5, <1>6, <2>1, <3>1, WaysToPay
  <2> QED
    BY <2>2, <2>3
<1> QED
  BY <1>2, <1>3, <1>4, <1>7, GroupParts, PaidKeepsBalance

LEMMA UnactionableBalanced ==
    ASSUME IInv, Balanced, NEW c \in Consumers, Unactionable(c)
    PROVE  Balanced'
<1>1. PICK i \in cons[c].todo : Lowest(cons[c].todo, i)
  BY DEF Unactionable
<1>2. UNCHANGED <<log, marks, ran, excused>> /\ cons[c].pc = "run" /\ Goto(c, "ack")
  BY DEF Unactionable, stream
<1>3. /\ \A d \in Consumers : d # c => cons'[d] = cons[d]
      /\ cons'[c].pc = "ack"
  BY <1>2, GotoFacts DEF EntryPcs
<1>4. \A e : /\ Holds(c, e) <=> Running(c, e)
             /\ ~Holds(c, e)' /\ ~Running(c, e)'
  BY <1>2, <1>3 DEF Running, Holds, Past
<1>5. \A e : Claimed(e) => Claimed(e)' \/ Running(c, e)
  BY <1>2, <1>3, <1>4, ClaimedBy
<1>6. ASSUME NEW e \in Events PROVE Paid(c, e)
  <2>1. /\ ran[e] \in Nat /\ excused[e] \in Nat /\ ran'[e] = ran[e] /\ excused'[e] = excused[e]
    BY <1>2, GroupParts
  <2> QED
    BY <1>4, <1>5, <2>1, WaysToPay
<1> QED
  BY <1>2, <1>3, <1>6, GroupParts, PaidKeepsBalance

\* The mark takes over the claim.
LEMMA MarkBalanced ==
    ASSUME IInv, Balanced, NEW c \in Consumers, Mark(c)
    PROVE  Balanced'
<1>1. PICK i \in cons[c].todo : Lowest(cons[c].todo, i) /\ marks' = marks \cup {log[i]}
  BY DEF Mark
<1>2. UNCHANGED <<log, ran, excused>> /\ cons[c].pc = "mark" /\ Goto(c, "ack")
  BY DEF Mark, stream, ghosts
<1>3. /\ \A d \in Consumers : d # c => cons'[d] = cons[d]
      /\ cons'[c].pc = "ack"
  BY <1>2, GotoFacts DEF EntryPcs
<1>4. \A e : /\ Holds(c, e) <=> log[i] = e
             /\ ~Running(c, e) /\ ~Running(c, e)'
  BY <1>1, <1>2, <1>3, OneInHand DEF Running
<1>5. \A e : Claimed(e) => Claimed(e)'
  BY <1>1, <1>2, <1>3, <1>4, ClaimedBy
<1>6. ASSUME NEW e \in Events PROVE Paid(c, e)
  <2>1. /\ ran[e] \in Nat /\ excused[e] \in Nat /\ ran'[e] = ran[e] /\ excused'[e] = excused[e]
    BY <1>2, GroupParts
  <2> QED
    BY <1>4, <1>5, <2>1, WaysToPay
<1> QED
  BY <1>2, <1>3, <1>6, GroupParts, PaidKeepsBalance

\* An effect that was run and not marked is excused with the failure.
LEMMA DeliverFailsBalanced ==
    ASSUME IInv, Balanced, NEW c \in Consumers, DeliverFails(c)
    PROVE  Balanced'
<1>1. PICK i \in cons[c].todo, did \in BOOLEAN :
        /\ Lowest(cons[c].todo, i)
        /\ did => cons[c].pc = "run"
        /\ Runs(IF did THEN {i} ELSE {})
        /\ Excuse(IF did \/ cons[c].pc = "mark" THEN {i} ELSE {})
        /\ cons' = [cons EXCEPT ![c] = OneByOne(cons[c].todo \ {i})]
  BY DEF DeliverFails
<1>2. UNCHANGED <<log, marks>> /\ cons[c].pc \in {"check", "run", "mark"}
  BY DEF DeliverFails, stream
<1>3. Resting(c)' /\ \A d \in Consumers : d # c => cons'[d] = cons[d]
  <2>1. cons[c].todo \ {i} \in SUBSET Ids
    BY GroupParts
  <2> QED
    BY <1>1, <2>1, HandsFilled, RestedHand
<1>4. i \in Ids
  BY <1>1, InHandFacts
<1>5. /\ ran' \in [Events -> Nat]
      /\ \A e \in Events : ran'[e] = ran[e] + (IF did THEN Bit(log[i] = e) ELSE 0)
  <2>1. CASE did
    BY <1>1, <1>4, <2>1, RunsOfOne
  <2>2. CASE ~did
    <3>1. ran' \in [Events -> Nat] /\ \A e \in Events : ran'[e] = ran[e] /\ ran[e] \in Nat
      BY <1>1, <1>4, <2>2, RunsOfOne, GroupParts
    <3> QED
      BY <2>2, <3>1
  <2> QED
    BY <2>1, <2>2
<1>6. /\ excused' \in [Events -> Nat]
      /\ \A e \in Events :
           excused'[e] = excused[e]
                           + (IF did \/ cons[c].pc = "mark" THEN Bit(log[i] = e) ELSE 0)
  <2>1. CASE did \/ cons[c].pc = "mark"
    <3>1. Excuse({i})
      BY <1>1, <2>1
    <3> QED
      BY <1>4, <2>1, <3>1, ExcusesOfOne
  <2>2. CASE ~(did \/ cons[c].pc = "mark")
    <3>1. Excuse({})
      BY <1>1, <2>2
    <3>2. /\ excused' \in [Events -> Nat]
          /\ \A e \in Events : excused'[e] = excused[e] /\ excused[e] \in Nat
      BY <1>4, <3>1, ExcusesOfOne, GroupParts
    <3> QED
      BY <2>2, <3>2
  <2> QED
    BY <2>1, <2>2
<1>7. \A e : ~Holds(c, e)' /\ ~Running(c, e)'
  BY <1>3 DEF Resting, Holds, Running, Past
<1>8. /\ \A e : cons[c].pc \in {"run", "mark"} => (Holds(c, e) <=> log[i] = e)
      /\ \A e : cons[c].pc = "run" => (Running(c, e) <=> log[i] = e)
      /\ \A e : cons[c].pc = "check" => ~Holds(c, e)
  BY <1>1, OneInHand, RestingHoldsNothing DEF Running, Resting
<1>9. \A e : Claimed(e) => Claimed(e)' \/ Holds(c, e)
  BY <1>2, <1>3, ClaimedBy
<1>10. ASSUME NEW e \in Events PROVE Paid(c, e)
  <2>1. /\ ran[e] \in Nat /\ excused[e] \in Nat /\ ran'[e] \in Nat /\ excused'[e] \in Nat
    BY <1>5, <1>6, GroupParts
  <2>2. CASE log[i] # e \/ cons[c].pc = "check"
    <3>1. ~did \/ log[i] # e
      BY <1>1, <2>2
    <3>2. ran'[e] = ran[e] /\ excused'[e] >= excused[e]
      BY <1>5, <1>6, <2>1, <3>1 DEF Bit
    <3>3. ~Holds(c, e)
      BY <1>2, <1>8, <2>2
    <3> QED
      BY <1>7, <1>9, <2>1, <3>2, <3>3, WaysToPay
  <2>3. CASE log[i] = e /\ cons[c].pc = "run"
    <3>1. Running(c, e)
      BY <1>8, <2>3
    <3>2. ran'[e] + excused[e] <= ran[e] + excused'[e]
      BY <1>5, <1>6, <2>1, <2>3 DEF Bit
    <3> QED
      BY <1>7, <2>1, <3>1, <3>2, WaysToPay
  <2>4. CASE log[i] = e /\ cons[c].pc = "mark"
    <3>1. ran'[e] = ran[e] /\ excused'[e] >= excused[e] + 1
      BY <1>1, <1>5, <1>6, <2>1, <2>4 DEF Bit
    <3> QED
      BY <1>7, <2>1, <3>1, WaysToPay
  <2> QED
    BY <1>2, <2>2, <2>3, <2>4
<1> QED
  BY <1>2, <1>3, <1>5, <1>6, <1>10, GroupParts, PaidKeepsBalance

\* A batch decides on each of its events once, however many copies it has.
LEMMA BatchCheckBalanced ==
    ASSUME IInv, Balanced, NEW c \in Consumers, BatchCheck(c)
    PROVE  Balanced'
<1> DEFINE S == {i \in cons[c].todo : ~Seen(log[i])}
           X == {i \in Firsts(S) : Raced(c, i)}
<1>1. /\ UNCHANGED <<log, marks, ran>> /\ cons[c].pc = "bcheck" /\ Excuse(X)
      /\ cons' = [cons EXCEPT ![c].pc = IF S = {} THEN "back" ELSE "brun", ![c].fresh = S]
  BY DEF BatchCheck, stream
<1>2. /\ \A d \in Consumers : d # c => cons'[d] = cons[d]
      /\ cons'[c].pc = (IF S = {} THEN "back" ELSE "brun") /\ cons'[c].fresh = S
  BY <1>1, GroupParts DEF Hands
<1>3. TypeOK /\ S \in SUBSET Ids /\ X \in SUBSET Ids /\ Firsts(S) \in SUBSET Ids
  BY GroupParts DEF Firsts
<1>4. \A e : ~Holds(c, e) /\ ~Running(c, e)
  BY <1>1, RestingHoldsNothing DEF Resting
<1>5. \A e : e \in EventsOf(S) => e \notin marks
  BY DEF EventsOf, Seen
<1> HIDE DEF S
<1>6. \A e : (Holds(c, e)' <=> e \in EventsOf(S)) /\ (Running(c, e)' <=> e \in EventsOf(S))
  <2>1. CASE S = {}
    BY <1>2, <2>1 DEF Holds, Past, Running, EventsOf
  <2>2. CASE S # {}
    <3>1. cons'[c].pc = "brun" /\ Past(c)' = S
      BY <1>2, <2>2 DEF Past
    <3> QED
      BY <1>1, <3>1 DEF Holds, Running, EventsOf
  <2> QED
    BY <2>1, <2>2
<1>7. \A e \in Events :
        Copies(X, e) = (IF e \in EventsOf(S) /\ Elsewhere(c, e) THEN 1 ELSE 0)
  <2> TAKE e \in Events
  <2>1. \A i : Raced(c, i) <=> Elsewhere(c, log[i])
    BY <1>1, <1>2, ClaimedBy
  <2>2. CASE Elsewhere(c, e)
    <3>1. Of(X, e) = Of(Firsts(S), e)
      BY <2>1, <2>2 DEF Of
    <3> QED
      BY <1>3, <2>2, <3>1, OneFirst DEF Copies, Bit
  <2>3. CASE ~Elsewhere(c, e)
    <3>1. e \notin EventsOf(X)
      BY <2>1, <2>3 DEF EventsOf
    <3> QED
      BY <1>3, <2>3, <3>1, CopyFacts
  <2> QED
    BY <2>2, <2>3
<1>8. /\ excused' \in [Events -> Nat]
      /\ \A e \in Events : excused'[e] = excused[e] + Copies(X, e)
  BY <1>1, <1>3, ExcusesCount
<1> HIDE DEF X
<1>9. ASSUME NEW e \in Events PROVE Paid(c, e)
  <2>1. CASE e \in EventsOf(S)
    <3>1. /\ Bit(Running(c, e)) = 0 /\ Bit(Running(c, e)') = 1
          /\ Bit(Claimed(e)) = (IF Elsewhere(c, e) THEN 1 ELSE 0) /\ Bit(Claimed(e)') = 1
      BY <1>1, <1>2, <1>4, <1>5, <1>6, <2>1, ClaimedBy DEF Bit
    <3> QED
      BY <1>1, <1>7, <1>8, <2>1, <3>1, GroupParts DEF Paid
  <2>2. CASE e \notin EventsOf(S)
    <3>1. Claimed(e)' = Claimed(e)
      BY <1>1, <1>2, <1>4, <1>6, <2>2, ClaimedBy DEF Claimed
    <3>2. ran'[e] = ran[e] /\ excused'[e] = excused[e] /\ ran[e] \in Nat /\ excused[e] \in Nat
      BY <1>1, <1>7, <1>8, <2>2, GroupParts
    <3> QED
      BY <1>6, <2>2, <3>1, <3>2, WaysToPay
  <2> QED
    BY <2>1, <2>2
<1> QED
  BY <1>1, <1>2, <1>8, <1>9, GroupParts, PaidKeepsBalance

\* The handler meets every copy; the later ones are excused.
LEMMA BatchHandleBalanced ==
    ASSUME IInv, Balanced, NEW c \in Consumers, BatchHandle(c)
    PROVE  Balanced'
<1> DEFINE S == cons[c].fresh
<1>1. /\ UNCHANGED <<log, marks>> /\ cons[c].pc = "brun" /\ Goto(c, "bmark")
      /\ Runs(S) /\ Excuse(S \ Firsts(S))
  BY DEF BatchHandle, stream
<1>2. TypeOK /\ S \in SUBSET Ids /\ S \ Firsts(S) \in SUBSET Ids
  BY GroupParts
<1>3. /\ \A d \in Consumers : d # c => cons'[d] = cons[d]
      /\ cons'[c].pc = "bmark" /\ cons'[c].fresh = S
  BY <1>1, GotoFacts, GroupParts DEF BatchPcs, Goto, Hands
<1>4. \A e : /\ Holds(c, e) <=> e \in EventsOf(S)
             /\ Running(c, e) <=> e \in EventsOf(S)
             /\ Holds(c, e)' <=> e \in EventsOf(S)
             /\ ~Running(c, e)'
  <2>1. Past(c) = S /\ Past(c)' = S
    BY <1>1, <1>3 DEF Past
  <2> QED
    BY <1>1, <1>3, <2>1 DEF Holds, Running, EventsOf
<1> HIDE DEF S
<1>5. ran' \in [Events -> Nat] /\ \A e \in Events : ran'[e] = ran[e] + Copies(S, e)
  BY <1>1, <1>2, RunsCount
<1>6. /\ excused' \in [Events -> Nat]
      /\ \A e \in Events : excused'[e] = excused[e] + Copies(S \ Firsts(S), e)
  BY <1>1, <1>2, ExcusesCount
<1>7. \A e : Claimed(e)' = Claimed(e)
  BY <1>1, <1>3, <1>4, ClaimedBy DEF Claimed
<1>8. ASSUME NEW e \in Events PROVE Paid(c, e)
  <2>1. /\ Copies(S, e) = Copies(S \ Firsts(S), e) + Bit(e \in EventsOf(S))
        /\ Copies(S \ Firsts(S), e) \in Nat
        /\ e \notin EventsOf(S) => Copies(S, e) = 0
    BY <1>2, OthersLater, CopyFacts
  <2>2. /\ ran[e] \in Nat /\ excused[e] \in Nat /\ ran'[e] \in Nat /\ excused'[e] \in Nat
        /\ ran'[e] = ran[e] + Copies(S, e)
        /\ excused'[e] = excused[e] + Copies(S \ Firsts(S), e)
    BY <1>5, <1>6, GroupParts
  <2>3. CASE e \in EventsOf(S)
    <3>1. ran'[e] + excused[e] <= ran[e] + excused'[e] + 1
      BY <2>1, <2>2, <2>3 DEF Bit
    <3> QED
      BY <1>4, <1>7, <2>2, <2>3, <3>1, WaysToPay
  <2>4. CASE e \notin EventsOf(S)
    <3>1. ran'[e] = ran[e] /\ excused'[e] >= excused[e]
      BY <2>1, <2>2, <2>4
    <3> QED
      BY <1>4, <1>7, <2>2, <2>4, <3>1, WaysToPay
  <2> QED
    BY <2>3, <2>4
<1> QED
  BY <1>1, <1>3, <1>5, <1>6, <1>8, GroupParts, PaidKeepsBalance

LEMMA BatchMarkBalanced ==
    ASSUME IInv, Balanced, NEW c \in Consumers, BatchMark(c)
    PROVE  Balanced'
<1>1. /\ UNCHANGED <<log, ran, excused>> /\ cons[c].pc = "bmark" /\ Goto(c, "back")
      /\ marks' = marks \cup EventsOf(cons[c].fresh)
  BY DEF BatchMark, stream, ghosts
<1>2. /\ \A d \in Consumers : d # c => cons'[d] = cons[d]
      /\ cons'[c].pc = "back"
  BY <1>1, GotoFacts DEF BatchPcs
<1>3. \A e : ~Running(c, e) /\ ~Running(c, e)'
  BY <1>1, <1>2 DEF Running
<1>4. \A e : Claimed(e) => Claimed(e)'
  BY <1>1, <1>2, BatchInHand, ClaimedBy
<1>5. ASSUME NEW e \in Events PROVE Paid(c, e)
  <2>1. /\ ran[e] \in Nat /\ excused[e] \in Nat /\ ran'[e] = ran[e] /\ excused'[e] = excused[e]
    BY <1>1, GroupParts
  <2> QED
    BY <1>3, <1>4, <2>1, WaysToPay
<1> QED
  BY <1>1, <1>2, <1>5, GroupParts, PaidKeepsBalance

\* What was run is excused, what was not run is given up, and what was run but not
\* marked is excused.
LEMMA BatchFailsBalanced ==
    ASSUME IInv, Balanced, NEW c \in Consumers, BatchFails(c)
    PROVE  Balanced'
<1> DEFINE F == cons[c].fresh
           X(S) == {i \in Firsts(F) : log[i] \notin EventsOf(S)}
<1>1. PICK S \in SUBSET F :
        /\ Runs(IF cons[c].pc = "brun" THEN S ELSE {})
        /\ marks' = IF cons[c].pc = "bmark" THEN marks \cup EventsOf(S) ELSE marks
        /\ Excuse(CASE cons[c].pc = "brun" -> S
                    [] cons[c].pc = "bmark" -> X(S)
                    [] OTHER -> {})
  BY DEF BatchFails
<1>2. log' = log /\ cons[c].pc \in {"bcheck", "brun", "bmark"}
  BY DEF BatchFails, stream
<1>3. Resting(c)' /\ \A d \in Consumers : d # c => cons'[d] = cons[d]
  <2>1. cons' = [cons EXCEPT ![c] = OneByOne(cons[c].todo)] /\ cons[c].todo \in SUBSET Ids
    BY GroupParts DEF BatchFails
  <2> QED
    BY <2>1, HandsFilled, RestedHand
<1>4. /\ TypeOK /\ F \in SUBSET Ids /\ S \in SUBSET Ids /\ X(S) \in SUBSET Ids /\ {} \in SUBSET Ids
      /\ Firsts(F) \in SUBSET Ids
  BY GroupParts DEF Firsts
<1>5. \A e : ~Holds(c, e)' /\ ~Running(c, e)'
  BY <1>3 DEF Resting, Holds, Running, Past
<1>6. \A e : cons[c].pc \in {"brun", "bmark"} => (Holds(c, e) <=> e \in EventsOf(F))
  BY BatchInHand
<1>7. EventsOf(S) \subseteq EventsOf(F)
  BY DEF EventsOf
<1>8. \A e \in Events : /\ Copies({}, e) = 0 /\ Copies(S, e) \in Nat
                        /\ e \notin EventsOf(S) => Copies(S, e) = 0
  <2>1. \A e : e \notin EventsOf({})
    BY DEF EventsOf
  <2> QED
    BY <1>4, <2>1, CopyFacts
<1>9. \A e \in Events : e \in EventsOf(F) \ EventsOf(S) => Copies(X(S), e) = 1
  <2> SUFFICES ASSUME NEW e \in Events, e \in EventsOf(F), e \notin EventsOf(S)
               PROVE  Copies(X(S), e) = 1
    OBVIOUS
  <2>1. Of(X(S), e) = Of(Firsts(F), e)
    BY DEF Of
  <2> QED
    BY <1>4, <2>1, OneFirst DEF Copies, Bit
<1>10. \A e \in Events : Copies(X(S), e) \in Nat
  BY <1>4, CopyFacts
<1> HIDE DEF F, X
<1>11. CASE cons[c].pc = "brun"
  <2>1. Runs(S) /\ Excuse(S) /\ marks' = marks
    BY <1>1, <1>11
  <2>2. /\ ran' \in [Events -> Nat] /\ excused' \in [Events -> Nat]
        /\ \A e \in Events : /\ ran'[e] = ran[e] + Copies(S, e)
                              /\ excused'[e] = excused[e] + Copies(S, e)
    BY <1>4, <2>1, RunsCount, ExcusesCount
  <2>3. \A e : Running(c, e) <=> Holds(c, e)
    BY <1>11 DEF Running
  <2>4. \A e : Claimed(e) => Claimed(e)' \/ Running(c, e)
    BY <1>2, <1>3, <2>1, <2>3, ClaimedBy
  <2>5. ASSUME NEW e \in Events PROVE Paid(c, e)
    <3>1. ran[e] \in Nat /\ excused[e] \in Nat /\ ran'[e] \in Nat /\ excused'[e] \in Nat
      BY <2>2, GroupParts
    <3>2. CASE Running(c, e)
      <4>1. ran'[e] + excused[e] <= ran[e] + excused'[e]
        BY <1>8, <2>2, <3>1
      <4> QED
        BY <1>5, <3>1, <3>2, <4>1, WaysToPay
    <3>3. CASE ~Running(c, e)
      <4>1. e \notin EventsOf(S)
        BY <1>6, <1>7, <1>11, <2>3, <3>3
      <4>2. ran'[e] = ran[e] /\ excused'[e] >= excused[e]
        BY <1>8, <2>2, <3>1, <4>1
      <4> QED
        BY <1>5, <2>4, <3>1, <3>3, <4>2, WaysToPay
    <3> QED
      BY <3>2, <3>3
  <2> QED
    BY <1>2, <1>3, <2>2, <2>5, GroupParts, PaidKeepsBalance
<1>12. CASE cons[c].pc = "bmark"
  <2>1. Runs({}) /\ Excuse(X(S)) /\ marks' = marks \cup EventsOf(S)
    BY <1>1, <1>12
  <2>2. /\ ran' \in [Events -> Nat] /\ excused' \in [Events -> Nat]
        /\ \A e \in Events : /\ ran'[e] = ran[e] + Copies({}, e)
                              /\ excused'[e] = excused[e] + Copies(X(S), e)
    BY <1>4, <2>1, RunsCount, ExcusesCount
  <2>3. ASSUME NEW e \in Events PROVE Paid(c, e)
    <3>1. /\ ran[e] \in Nat /\ excused[e] \in Nat /\ ran'[e] \in Nat /\ excused'[e] \in Nat
          /\ ran'[e] = ran[e] /\ excused'[e] >= excused[e]
      BY <1>8, <1>10, <2>2, GroupParts
    <3>2. CASE e \in EventsOf(F) \ EventsOf(S)
      <4>1. excused'[e] >= excused[e] + 1
        BY <1>9, <2>2, <3>1, <3>2
      <4> QED
        BY <1>5, <3>1, <4>1, WaysToPay
    <3>3. CASE e \notin EventsOf(F) \ EventsOf(S)
      <4>1. Claimed(e) => Claimed(e)'
        BY <1>2, <1>3, <1>6, <1>12, <2>1, <3>3, ClaimedBy
      <4> QED
        BY <1>5, <3>1, <4>1, WaysToPay
    <3> QED
      BY <3>2, <3>3
  <2> QED
    BY <1>2, <1>3, <2>2, <2>3, GroupParts, PaidKeepsBalance
<1>13. CASE cons[c].pc = "bcheck"
  <2>1. Runs({}) /\ Excuse({}) /\ marks' = marks
    BY <1>1, <1>13
  <2>2. /\ ran' \in [Events -> Nat] /\ excused' \in [Events -> Nat]
        /\ \A e \in Events : /\ ran'[e] = ran[e] + Copies({}, e)
                              /\ excused'[e] = excused[e] + Copies({}, e)
    BY <1>4, <2>1, RunsCount, ExcusesCount
  <2>3. \A e : ~Holds(c, e)
    BY <1>13, RestingHoldsNothing DEF Resting
  <2>4. \A e : Claimed(e) => Claimed(e)'
    BY <1>2, <1>3, <2>1, <2>3, ClaimedBy
  <2>5. ASSUME NEW e \in Events PROVE Paid(c, e)
    <3>1. /\ ran[e] \in Nat /\ excused[e] \in Nat /\ ran'[e] = ran[e] /\ excused'[e] = excused[e]
      BY <1>8, <2>2, GroupParts
    <3> QED
      BY <1>5, <2>4, <3>1, WaysToPay
  <2> QED
    BY <1>2, <1>3, <2>2, <2>5, GroupParts, PaidKeepsBalance
<1> QED
  BY <1>2, <1>11, <1>12, <1>13

\* What the consumer had run and not marked is excused once.
LEMMA ConsumerDiesBalanced ==
    ASSUME IInv, Balanced, NEW c \in Consumers, ConsumerDies(c)
    PROVE  Balanced'
<1> DEFINE X == IF cons[c].pc \in {"mark", "bmark"} THEN Firsts(Past(c)) ELSE {}
<1>1. UNCHANGED <<log, marks, ran>> /\ Excuse(X)
  BY DEF ConsumerDies, stream
<1>2. Resting(c)' /\ \A d \in Consumers : d # c => cons'[d] = cons[d]
  <2>1. cons' = [cons EXCEPT ![c] = IdleConsumer] /\ {} \in SUBSET Ids
    BY DEF ConsumerDies
  <2> QED
    BY <2>1, HandsFilled, RestedHand
<1>3. TypeOK /\ Past(c) \in SUBSET Ids /\ X \in SUBSET Ids
  <2>1. Past(c) \in SUBSET Ids
    BY GroupParts DEF Past
  <2> QED
    BY <2>1, GroupParts DEF Firsts
<1>4. \A e : ~Holds(c, e)' /\ ~Running(c, e)'
  BY <1>2 DEF Resting, Holds, Running, Past
<1>5. \A e : Claimed(e) => Claimed(e)' \/ Holds(c, e)
  BY <1>1, <1>2, ClaimedBy
<1>6. \A e : Holds(c, e) => Running(c, e) \/ cons[c].pc \in {"mark", "bmark"}
  BY DEF Holds, Running, Past
<1>7. \A e \in Events : /\ Copies(X, e) \in Nat
                        /\ Holds(c, e) /\ ~Running(c, e) => Copies(X, e) = 1
  <2> TAKE e \in Events
  <2>1. Copies(X, e) \in Nat
    BY <1>3, CopyFacts
  <2>2. ASSUME Holds(c, e), ~Running(c, e) PROVE Copies(X, e) = 1
    <3>1. X = Firsts(Past(c)) /\ e \in EventsOf(Past(c))
      BY <1>6, <2>2 DEF Holds, EventsOf
    <3> QED
      BY <1>3, <3>1, OneFirst DEF Bit
  <2> QED
    BY <2>1, <2>2
<1>8. /\ excused' \in [Events -> Nat]
      /\ \A e \in Events : excused'[e] = excused[e] + Copies(X, e)
  BY <1>1, <1>3, ExcusesCount
<1> HIDE DEF X
<1>9. ASSUME NEW e \in Events PROVE Paid(c, e)
  <2>1. /\ ran[e] \in Nat /\ excused[e] \in Nat /\ excused'[e] \in Nat
        /\ ran'[e] = ran[e] /\ excused'[e] >= excused[e]
    BY <1>1, <1>7, <1>8, GroupParts
  <2>2. CASE ~Holds(c, e)
    BY <1>4, <1>5, <2>1, <2>2, WaysToPay
  <2>3. CASE Running(c, e)
    BY <1>4, <2>1, <2>3, WaysToPay
  <2>4. CASE Holds(c, e) /\ ~Running(c, e)
    <3>1. excused'[e] >= excused[e] + 1
      BY <1>7, <1>8, <2>1, <2>4
    <3> QED
      BY <1>4, <2>1, <3>1, WaysToPay
  <2> QED
    BY <2>2, <2>3, <2>4
<1> QED
  BY <1>1, <1>2, <1>8, <1>9, GroupParts, PaidKeepsBalance

-----------------------------------------------------------------------------
(* The other steps.                                                        *)

\* A step that leaves the subscribers alone keeps the balance if a mark that goes
\* is excused.
LEMMA OthersKeepBalance ==
    ASSUME IInv, Balanced, UNCHANGED <<cons, ran>>, \A i \in Ids : log'[i] = log[i],
           excused' \in [Events -> Nat],
           \A e \in Events : excused'[e] >= excused[e] + Bit(e \in marks \ marks')
    PROVE  Balanced'
<1>1. \A c \in Consumers : Past(c)' = Past(c) /\ Past(c) \subseteq Ids
  BY GroupParts DEF Past, Lowest
<1>2. \A e : \A c \in Consumers : /\ Holds(c, e)' <=> Holds(c, e)
                                  /\ Running(c, e)' <=> Running(c, e)
  BY <1>1 DEF Holds, Running
<1> SUFFICES ASSUME NEW e \in Events
             PROVE  /\ IsFiniteSet(Runners(e)')
                    /\ ran'[e] + Cardinality(Runners(e)') <= excused'[e] + Bit(Claimed(e)')
  BY DEF Balanced
<1>3. Runners(e)' = Runners(e)
  BY <1>2 DEF Runners
<1>4. /\ IsFiniteSet(Runners(e)) /\ Cardinality(Runners(e)) \in Nat
      /\ ran[e] + Cardinality(Runners(e)) <= excused[e] + Bit(Claimed(e))
  BY FS_CardinalityType DEF Balanced
<1>5. /\ ran[e] \in Nat /\ excused[e] \in Nat /\ excused'[e] \in Nat /\ ran'[e] = ran[e]
      /\ excused'[e] >= excused[e] + Bit(e \in marks \ marks')
  BY GroupParts
<1>6. Claimed(e) => Claimed(e)' \/ e \in marks \ marks'
  BY <1>2 DEF Claimed
<1>7. Bit(Claimed(e)) <= Bit(Claimed(e)') + Bit(e \in marks \ marks')
  BY <1>6 DEF Bit
<1>8. /\ Bit(Claimed(e)) \in Nat /\ Bit(Claimed(e)') \in Nat
      /\ Bit(e \in marks \ marks') \in Nat
  BY DEF Bit
<1> QED
  BY <1>3, <1>4, <1>5, <1>7, <1>8

LEMMA MarksGoExcused ==
    ASSUME IInv, Balanced, UNCHANGED <<cons, ran, log>>, NEW S \in SUBSET Events,
           marks' = marks \ S, ExcuseMarks(S)
    PROVE  Balanced'
<1>1. excused' \in [Events -> Nat]
  BY ExcuseMarksFacts
<1>2. ASSUME NEW e \in Events PROVE excused'[e] = excused[e] + Bit(e \in S)
  <2>1. excused'[e] = excused[e] + Cardinality({e} \cap S)
    BY DEF ExcuseMarks
  <2>2. CASE e \in S
    <3>1. {e} \cap S = {e}
      BY <2>2
    <3> QED
      BY <2>1, <2>2, <3>1, FS_Singleton DEF Bit
  <2>3. CASE e \notin S
    <3>1. {e} \cap S = {}
      BY <2>3
    <3> QED
      BY <2>1, <2>3, <3>1, FS_EmptySet DEF Bit
  <2> QED
    BY <2>2, <2>3
<1>3. ASSUME NEW e \in Events PROVE excused'[e] >= excused[e] + Bit(e \in marks \ marks')
  <2>1. Bit(e \in marks \ marks') <= Bit(e \in S) /\ Bit(e \in marks \ marks') \in Nat
        /\ Bit(e \in S) \in Nat
    BY DEF Bit
  <2> QED
    BY <1>2, <2>1, GroupParts
<1> QED
  BY <1>1, <1>3, OthersKeepBalance

\* A step that also leaves the marks and the counters alone.
LEMMA NothingRunOrMarked ==
    ASSUME IInv, Balanced, UNCHANGED <<cons, marks, ran, excused>>,
           \A i \in Ids : log'[i] = log[i]
    PROVE  Balanced'
<1>1. \A e \in Events : excused[e] >= excused[e] + Bit(e \in marks \ marks')
  BY GroupParts DEF Bit
<1> QED
  BY <1>1, GroupParts, OthersKeepBalance

LEMMA BalanceBegins == Init => Balanced
<1> SUFFICES ASSUME Init, NEW e \in Events
             PROVE  /\ IsFiniteSet(Runners(e))
                    /\ ran[e] + Cardinality(Runners(e)) <= excused[e] + Bit(Claimed(e))
  BY DEF Balanced
<1>1. ran[e] = 0 /\ excused[e] = 0 /\ \A c \in Consumers : cons[c].pc = "idle"
  BY DEF Init, IdleConsumer
<1>2. Runners(e) = {}
  BY <1>1 DEF Runners, Running
<1>3. Bit(Claimed(e)) \in Nat
  BY DEF Bit
<1> QED
  BY <1>1, <1>2, <1>3, FS_EmptySet

LEMMA NextBalanced == IInv /\ Balanced /\ [Next]_vars => Balanced'
<1> SUFFICES ASSUME IInv, Balanced, [Next]_vars PROVE Balanced'
  OBVIOUS
<1>1. ASSUME UNCHANGED <<log, cons, marks, ran, excused>> PROVE Balanced'
  BY <1>1, NothingRunOrMarked
<1>2. CASE Write
  BY <1>1, <1>2 DEF Write, Stage, Settle, stream, ghosts
<1>3. ASSUME NEW r \in Relays, RelayStep(r) \/ ShipFails(r) \/ RelayDies(r)
      PROVE  Balanced'
  <2>1. CASE Take(r) \/ Stamp(r) \/ RelayDies(r)
    BY <1>1, <2>1 DEF Take, Stamp, RelayDies, stream, ghosts
  <2>2. CASE Ship(r) \/ ShipFails(r)
    <3>1. UNCHANGED <<cons, marks, ran, excused>>
      BY <2>2 DEF Ship, ShipFails
    <3>2. PICK e \in Events : Added(e) \/ UNCHANGED log
      BY <2>2 DEF Ship, ShipFails
    <3>3. \A i \in Ids : log'[i] = log[i]
      BY <3>2, AddedFacts, GroupParts
    <3> QED
      BY <3>1, <3>3, NothingRunOrMarked
  <2> QED
    BY <1>3, <2>1, <2>2 DEF RelayStep
<1>4. ASSUME NEW c \in Consumers,
             ConsumerStep(c) \/ DeliverFails(c) \/ BatchFails(c) \/ ConsumerDies(c)
      PROVE  Balanced'
  BY <1>4, IdleStepsBalanced, CheckBalanced, HandleBalanced, UnactionableBalanced, MarkBalanced,
     DeliverFailsBalanced, BatchCheckBalanced, BatchHandleBalanced, BatchMarkBalanced,
     BatchFailsBalanced, ConsumerDiesBalanced DEF ConsumerStep, Deliver, DeliverBatch
<1>5. ASSUME NEW e \in Events, MarkExpires(e) PROVE Balanced'
  <2>1. UNCHANGED <<cons, ran, log>> /\ marks' = marks \ {e} /\ ExcuseMarks({e})
    BY <1>5 DEF MarkExpires, stream
  <2>2. {e} \in SUBSET Events
    OBVIOUS
  <2> QED
    BY <2>1, <2>2, MarksGoExcused
<1>6. CASE Reset
  <2>1. CASE ClearOutbox \/ OutboxCleared \/ UnlinkStreams \/ RestoreGroups \/ ResetFails
    BY <1>1, <2>1 DEF ClearOutbox, OutboxCleared, UnlinkStreams, RestoreGroups, ResetFails, stream,
       ghosts
  <2>2. CASE PurgeDedupe
    <3>1. /\ UNCHANGED <<cons, ran, log>> /\ marks' = marks \ marks /\ ExcuseMarks(marks)
          /\ marks \in SUBSET Events
      BY <2>2, GroupParts DEF PurgeDedupe, stream
    <3> QED
      BY <3>1, MarksGoExcused
  <2> QED
    BY <1>6, <2>1, <2>2 DEF Reset
<1>7. CASE UNCHANGED vars
  BY <1>1, <1>7 DEF vars
<1> QED
  BY <1>2, <1>3, <1>4, <1>5, <1>6, <1>7 DEF Next

\* Redelivery, reclaimed entries and a relay's copies run an effect again only
\* where a run was lost before its mark, two subscribers held the event at once, a
\* batch held two copies, or the mark went away; each such cause repeats it once.
THEOREM EffectsExplained == Spec => []EffectRunsExplained
<1>1. IInv /\ Balanced => EffectRunsExplained
  <2> SUFFICES ASSUME IInv, Balanced, NEW e \in Events PROVE ran[e] <= 1 + excused[e]
    BY DEF EffectRunsExplained
  <2>1. /\ IsFiniteSet(Runners(e)) /\ Cardinality(Runners(e)) \in Nat
        /\ ran[e] + Cardinality(Runners(e)) <= excused[e] + Bit(Claimed(e))
    BY FS_CardinalityType DEF Balanced
  <2>2. Bit(Claimed(e)) \in {0, 1} /\ ran[e] \in Nat /\ excused[e] \in Nat
    BY GroupParts DEF Bit
  <2> QED
    BY <2>1, <2>2
<1> QED
  BY <1>1, BalanceBegins, NextBalanced, Invariance, PTL DEF Spec

=============================================================================
