------------------------- MODULE MeetingInvitation -------------------------
(***************************************************************************)
(* The meeting invitations of one host: the meeting_invitation row that is *)
(* queued when a time is booked, moved or canceled, the workers that carry *)
(* it to the host's calendar, and what comes back from there.              *)
(*                                                                         *)
(* A worker claims a row under a lease, calls the calendar with no lock    *)
(* held, and writes the outcome in a third transaction, which compares the *)
(* row's version with the claimed one.  Meanwhile the guest or the host    *)
(* may change the invitation, an erasure may withdraw it, the host may     *)
(* edit the event in the calendar, and the calendar may refuse Margince    *)
(* altogether, which parks the host's whole queue in one episode until the *)
(* host connects it again.  The job that runs a pass is unique, so a second *)
(* pass begins beside the first only when that one stalled so long that     *)
(* the job runner gave it up.                                              *)
(*                                                                         *)
(* A slot is an interval of the host's day and slots do not overlap; the   *)
(* back-off between attempts, buffers, working hours, guests, consent,     *)
(* reminders and links are left out.  The calendar is Google's, where an   *)
(* event carries the identity of its request for ever.                     *)
(***************************************************************************)
EXTENDS Naturals

CONSTANTS
    Invites,       \* invitations
    Slots,         \* times a meeting may take
    MaxStrays,     \* bound: passes given up on that may still come back
    None,          \* no slot: no meeting, no event
    Gone,          \* an event that was deleted
    MaxAttempts,   \* deliveries that fail before the host is asked
    MaxChanges,    \* bound: changes made here by a guest, the host or an
                   \* erasure, and by the host in the calendar
    MaxFaults,     \* bound: passes that die or stall
    MaxOutages     \* bound: times the calendar begins to refuse

ASSUME InvitationAssumption ==
    /\ None \notin Slots /\ Gone \notin Slots /\ None # Gone
    /\ {MaxStrays, MaxAttempts, MaxChanges, MaxFaults, MaxOutages} \subseteq Nat
    /\ MaxAttempts > 0

VARIABLES
    row,       \* the meeting_invitation rows
    meeting,   \* the slot the CRM's own meeting holds, if it stands
    event,     \* the slot of the event in the host's calendar
    work,      \* what the running pass, and each one given up on, has in hand
    episode,   \* meeting_calendar_episode: the number of the last, is it open?
    host,      \* does the calendar accept us; was it granted again; outages
    used,      \* the budget spent so far
    moved,     \* history: the meeting is where the host put it, not Margince
    edited,    \* history: the host touched the event and we have not seen it
    lapsed,    \* history: a lease ran out under a worker that was still busy
    lost       \* history: a save under such a claim was never reported

vars == <<row, meeting, event, work, episode, host, used, moved, edited, lapsed, lost>>

Queued == {"pending", "rescheduling", "canceling"}
Statuses == Queued \cup {"absent", "confirmed", "needs_attention", "canceled", "erased"}
Commands == {"create", "update", "cancel"}

\* Pass 0 is the one the job runner knows; the others stalled and were given up.
Workers == 0..MaxStrays

\* attempts stops at MaxAttempts, which is all the code compares it with; held
\* is a lease that has not run out; parked is the number of the row's episode.
Rows == [status : Statuses, command : Commands, slot : Slots \cup {None},
         receipt : BOOLEAN, attempts : 0..MaxAttempts, held : BOOLEAN,
         parked : Nat, clean : BOOLEAN]

\* pc is where the worker stands, claim the row it read, current that the row's
\* version is still the claim's, late that the calendar was resumed since.
Delivering == {"look", "save", "delete", "finish"}
Claims == [status : Statuses, command : Commands, slot : Slots \cup {None}, receipt : BOOLEAN]
Jobs == [pc : Delivering \cup {"idle", "import", "warn"}, inv : Invites \cup {None},
         claim : Claims, found : BOOLEAN, err : {"none", "failed", "refused"},
         seen : Slots \cup {None, Gone}, current : BOOLEAN, late : BOOLEAN]

Absent == [status |-> "absent", command |-> "create", slot |-> None, receipt |-> FALSE,
           attempts |-> 0, held |-> FALSE, parked |-> 0, clean |-> FALSE]
ClaimOf(r) == [status |-> r.status, command |-> r.command, slot |-> r.slot, receipt |-> r.receipt]
Idle == [pc |-> "idle", inv |-> None, claim |-> ClaimOf(Absent), found |-> FALSE, err |-> "none",
         seen |-> None, current |-> FALSE, late |-> FALSE]

Init ==
    /\ row = [i \in Invites |-> Absent]
    /\ meeting = [i \in Invites |-> None]
    /\ event = [i \in Invites |-> None]
    /\ work = [w \in Workers |-> Idle]
    /\ episode = [n |-> 0, open |-> FALSE]
    /\ host = [accepts |-> TRUE, granted |-> FALSE, outages |-> 0]
    /\ used = [changes |-> 0, faults |-> 0]
    /\ moved = [i \in Invites |-> FALSE]
    /\ edited = [i \in Invites |-> FALSE]
    /\ lapsed = [i \in Invites |-> FALSE]
    /\ lost = [i \in Invites |-> FALSE]

history == <<moved, edited, lapsed, lost>>
-----------------------------------------------------------------------------
(***************************************************************************)
(* Rows.                                                                   *)
(***************************************************************************)
\* The queued state a command waits in.
PendingFor(command) ==
    CASE command = "create" -> "pending"
      [] command = "update" -> "rescheduling"
      [] command = "cancel" -> "canceling"

\* Mutant: there is no trigger, and the row keeps its episode.
KeepsEpisode(r) == [r EXCEPT !.attempts = IF r.status \in Queued THEN @ ELSE 0]

\* The status trigger: a row that stops waiting has no episode any more.  The
\* attempts of a row that leaves the queue are not read again: it comes back
\* with none.
FollowsStatus(r) ==
    [r EXCEPT !.parked = IF r.status = "needs_attention" THEN @ ELSE 0,
              !.attempts = IF r.status \in Queued THEN @ ELSE 0]

Write(i, r) == row' = [row EXCEPT ![i] = FollowsStatus(r)]

\* Every worker that read one of these rows has now an outdated version of it.
Outdated(S) == [w \in Workers |->
    IF work[w].inv \in S THEN [work[w] EXCEPT !.current = FALSE] ELSE work[w]]

\* The host's hours that are taken, as a booking under the host's lock sees
\* them: meetings that stand, and the new times of moves on their way.
MovesTo(i, s) ==
    /\ row[i].command = "update" /\ row[i].status \in {"rescheduling", "needs_attention"}
    /\ row[i].slot = s

\* Mutant: a booking looks only at the meetings that stand.
TakenByMeetings(i, s) == \E j \in Invites \ {i} : meeting[j] = s

Taken(i, s) == \E j \in Invites \ {i} : meeting[j] = s \/ MovesTo(j, s)
-----------------------------------------------------------------------------
(***************************************************************************)
(* Changes the guest or the host asks for, each under the host's lock and  *)
(* on the version last seen: one that is outdated is refused.              *)
(***************************************************************************)
SpendChange == used.changes < MaxChanges /\ used' = [used EXCEPT !.changes = @ + 1]
SpendFault == used.faults < MaxFaults /\ used' = [used EXCEPT !.faults = @ + 1]

\* A row that was asked to change is due at once and has all its attempts; the
\* lease of a delivery in flight is left to that delivery.
Change(i, r) ==
    /\ SpendChange
    /\ Write(i, [r EXCEPT !.attempts = 0])
    /\ work' = Outdated({i})

\* A time is booked.  What the calendar said before the lock may have changed,
\* so it guards nothing here.
CreateInvitation(i, s) ==
    /\ row[i].status = "absent" /\ ~Taken(i, s)
    /\ Change(i, [row[i] EXCEPT !.status = "pending", !.slot = s])
    /\ meeting' = [meeting EXCEPT ![i] = s]
    /\ UNCHANGED <<event, episode, host, history>>

Reschedule(i, s) ==
    /\ row[i].status = "confirmed" /\ ~Taken(i, s)
    /\ Change(i, [row[i] EXCEPT !.status = "rescheduling", !.command = "update", !.slot = s])
    /\ UNCHANGED <<meeting, event, episode, host, history>>

\* Nobody reads the time of a cancellation.
Cancel(i) ==
    /\ row[i].status \in {"pending", "confirmed", "rescheduling", "needs_attention"}
    /\ Change(i, [row[i] EXCEPT !.status = "canceling", !.command = "cancel", !.slot = None])
    /\ UNCHANGED <<meeting, event, episode, host, history>>

Retry(i) ==
    /\ row[i].status = "needs_attention"
    /\ Change(i, [row[i] EXCEPT !.status = PendingFor(row[i].command)])
    /\ UNCHANGED <<meeting, event, episode, host, history>>

\* An erasure of the guest archives the meeting and strips the row down to what
\* its cleanup needs.
Erase(i) ==
    /\ row[i].status \notin {"absent", "erased"}
    /\ SpendChange
    /\ Write(i, [row[i] EXCEPT !.status = "erased", !.command = "cancel", !.slot = None])
    /\ work' = Outdated({i})
    /\ meeting' = [meeting EXCEPT ![i] = None]
    /\ UNCHANGED <<event, episode, host, history>>
-----------------------------------------------------------------------------
(***************************************************************************)
(* A delivery: claim, calls to the calendar, finish.                       *)
(***************************************************************************)
At(w, pc) == work[w].pc = pc
Inv(w) == work[w].inv

\* Due is a row in a queued state, or an erased one that is not cleaned up.
Due(i) == row[i].status \in Queued \/ (row[i].status = "erased" /\ ~row[i].clean)

Lesser(m, n) == IF m < n THEN m ELSE n

Claim(i) ==
    /\ At(0, "idle") /\ Due(i) /\ ~row[i].held
    /\ Write(i, [row[i] EXCEPT !.attempts = Lesser(@ + 1, MaxAttempts), !.held = TRUE])
    /\ work' = [Outdated({i}) EXCEPT ![0] =
          [Idle EXCEPT !.pc = "look", !.inv = i, !.claim = ClaimOf(row[i]), !.current = TRUE]]
    /\ UNCHANGED <<meeting, event, episode, host, used, history>>

\* Nothing but the worker changes.
Only(w, job) ==
    /\ work' = [work EXCEPT ![w] = job]
    /\ UNCHANGED <<row, meeting, event, episode, host, used, history>>

\* What the worker is left with: the identity of an event, an error, or none.
Outcome(w, found, err) == [work[w] EXCEPT !.pc = "finish", !.found = found, !.err = err]

\* The worker holds on to the identity it had when the calendar did not answer:
\* the check before every delivery hands it back, a lookup and a save do not.
KeptAfter(w) == IF At(w, "delete") THEN {TRUE} ELSE IF At(w, "look") THEN {FALSE, work[w].claim.receipt} ELSE {FALSE}

\* A call fails before it changes anything, or the calendar refuses Margince.
CallFails(w) ==
    /\ work[w].pc \in {"look", "save", "delete"}
    /\ \E found \in KeptAfter(w), err \in {"failed", "refused"} :
          /\ err = "refused" => ~host.accepts
          /\ Only(w, Outcome(w, found, err))

Live(i) == event[i] \in Slots

\* A save that was asked for in this slot finds no other event there.
Clear(w) == \A j \in Invites \ {Inv(w)} : event[j] # work[w].claim.slot

\* The worker reads the calendar: an event that already stands where it should
\* is the delivery; one that is missing is created, and one whose identity the
\* row knows is moved.  An event found elsewhere or deleted is an error.
LookBeforeSave(w) ==
    /\ At(w, "look") /\ host.accepts /\ work[w].claim.command # "cancel"
    /\ LET at == event[Inv(w)]
           claim == work[w].claim
       IN  \/ at = claim.slot /\ Only(w, Outcome(w, TRUE, "none"))
           \/ /\ IF claim.receipt THEN at \in Slots \ {claim.slot} ELSE at = None
              /\ Clear(w)
              /\ Only(w, [work[w] EXCEPT !.pc = "save"])

\* A cancellation without a known event asks for one; none is a success.
LookBeforeDelete(w) ==
    /\ At(w, "look") /\ host.accepts /\ work[w].claim.command = "cancel"
    /\ IF work[w].claim.receipt \/ event[Inv(w)] # None
         THEN Only(w, [work[w] EXCEPT !.pc = "delete", !.found = TRUE])
         ELSE Only(w, Outcome(w, FALSE, "none"))

\* The calendar does what it was asked, and its answer may be lost.  An answer
\* lost by a worker whose claim had run out may be reported by nobody.
Answers(w, found, heard) ==
    /\ work' = [work EXCEPT ![w] = IF heard THEN Outcome(w, TRUE, "none") ELSE Outcome(w, found, "failed")]
    /\ lost' = [lost EXCEPT ![Inv(w)] = @ \/ (~heard /\ ~found /\ lapsed[Inv(w)])]

\* The event is created under the identity of the request, or moved if it still
\* stands; a second create is told of the first one, and looks at it.
Save(w) ==
    /\ At(w, "save") /\ host.accepts
    /\ LET i == Inv(w)
           s == work[w].claim.slot
       IN  \/ /\ IF work[w].claim.receipt THEN Live(i) ELSE event[i] = None
              /\ event' = [event EXCEPT ![i] = s]
              /\ edited' = [edited EXCEPT ![i] = FALSE]
              /\ \E heard \in BOOLEAN : Answers(w, FALSE, heard)
              /\ UNCHANGED <<row, meeting, episode, host, used, moved, lapsed>>
           \/ /\ ~work[w].claim.receipt /\ event[i] = s
              /\ Only(w, Outcome(w, TRUE, "none"))

\* An event that is already gone is a success too.
Delete(w) ==
    /\ At(w, "delete") /\ host.accepts
    /\ event' = [event EXCEPT ![Inv(w)] = IF Live(Inv(w)) THEN Gone ELSE @]
    /\ \E heard \in BOOLEAN : Answers(w, TRUE, heard)
    /\ UNCHANGED <<row, meeting, episode, host, used, moved, edited, lapsed>>
-----------------------------------------------------------------------------
(***************************************************************************)
(* The outcome, under the host's lock and the row's.                       *)
(***************************************************************************)
Finishing(w) == At(w, "finish")

\* The worker is done with row r of its invitation.
Finished(w, r) ==
    /\ Write(Inv(w), r)
    /\ work' = [Outdated({Inv(w)}) EXCEPT ![w] = Idle]

\* An erased invitation keeps the event's identity for its cleanup, which is
\* done once it has succeeded.
CleanedUp(r, job) ==
    [r EXCEPT !.receipt = @ \/ job.found, !.held = FALSE,
              !.clean = job.claim.status = "erased" /\ job.err = "none"]

\* Late news counts too: the version is not looked at.
FinishErased(w) ==
    /\ Finishing(w) /\ row[Inv(w)].status = "erased"
    /\ row' = [row EXCEPT ![Inv(w)] = CleanedUp(@, work[w])]
    /\ work' = [work EXCEPT ![w] = Idle]
    /\ UNCHANGED <<meeting, event, episode, host, used, history>>

\* Mutant: late news of a save leaves a cancellation that is done as it is.
ReopenedInPlace(r) == [r EXCEPT !.receipt = TRUE, !.attempts = 0, !.held = FALSE]

\* A cancellation learns of the event a save made behind its back.
Reopened(r) == [r EXCEPT !.receipt = TRUE, !.status = "canceling", !.attempts = 0, !.held = FALSE]

\* The row changed under the delivery: its outcome is dropped, but for the
\* event of a save that a cancellation has overtaken.
FinishSuperseded(w) ==
    /\ Finishing(w) /\ row[Inv(w)].status # "erased" /\ ~work[w].current
    /\ IF row[Inv(w)].command = "cancel" /\ work[w].claim.command # "cancel" /\ work[w].found
         THEN Finished(w, Reopened(row[Inv(w)]))
         ELSE work' = [work EXCEPT ![w] = Idle] /\ UNCHANGED row
    /\ UNCHANGED <<meeting, event, episode, host, used, history>>

Stands(w) == Finishing(w) /\ row[Inv(w)].status # "erased" /\ work[w].current

\* Mutant: a refusal is taken for news however old it is.
AlwaysNews(w) == TRUE

\* A refusal joins the open episode, or begins one if its attempt was claimed
\* after the last was resumed.
IsNews(w) == episode.open \/ ~work[w].late

Parks(w) == work[w].err = "refused" /\ IsNews(w)

\* The rows of the host that are queued and that no worker holds.
Waiting(i) == {j \in Invites \ {i} : row[j].status \in Queued /\ ~row[j].held}

\* The number a refusal parks under.
Current == IF episode.open THEN episode.n ELSE episode.n + 1

\* The refusal parks the row and the rest of the queue in one episode.
Park(w) ==
    /\ Stands(w) /\ Parks(w)
    /\ LET S == {Inv(w)} \cup Waiting(Inv(w))
       IN  /\ row' = [i \in Invites |->
                 IF i \in S
                   THEN FollowsStatus([row[i] EXCEPT
                           !.status = "needs_attention", !.parked = Current, !.held = FALSE])
                   ELSE row[i]]
           /\ work' = [Outdated(S) EXCEPT ![w] = Idle]
    /\ episode' = [n |-> Current, open |-> TRUE]
    /\ host' = [host EXCEPT !.granted = @ /\ episode.open]
    /\ UNCHANGED <<meeting, event, used, history>>

\* Mutant: an invitation is tried for ever.
NeverExhausted(r) == FALSE

Exhausted(r) == r.attempts >= MaxAttempts

\* A failure: after the last attempt the host is asked, before it a later pass
\* tries again.
Postpone(w) ==
    /\ Stands(w) /\ work[w].err # "none" /\ ~Parks(w)
    /\ LET r == row[Inv(w)]
       IN  Finished(w, [r EXCEPT !.held = FALSE,
              !.status = IF Exhausted(r) THEN "needs_attention" ELSE @])
    /\ UNCHANGED <<meeting, event, episode, host, used, history>>

\* Where the CRM's meeting stands once a command is delivered.
Settled(i) == IF row[i].command = "cancel" THEN None ELSE row[i].slot

Settle(w) ==
    /\ Stands(w) /\ work[w].err = "none"
    /\ LET i == Inv(w)
       IN  /\ Finished(w, [row[i] EXCEPT !.receipt = work[w].found, !.held = FALSE,
                 !.status = IF row[i].command = "cancel" THEN "canceled" ELSE "confirmed"])
           /\ meeting' = [meeting EXCEPT ![i] = Settled(i)]
           /\ moved' = [moved EXCEPT ![i] = @ /\ meeting[i] = Settled(i)]
    /\ UNCHANGED <<event, episode, host, used, edited, lapsed, lost>>

\* Finish failed: it is tried once more, with that failure for an outcome.
FinishFails(w) ==
    /\ Finishing(w) /\ work[w].err # "failed"
    /\ Only(w, [work[w] EXCEPT !.err = "failed"])

\* The pass dies, or runs out of its two minutes before it can finish.
Crash(w) ==
    /\ work[w].pc \in Delivering
    /\ SpendFault
    /\ work' = [work EXCEPT ![w] = Idle]
    /\ lost' = [lost EXCEPT ![Inv(w)] =
          @ \/ (Finishing(w) /\ work[w].found /\ work[w].claim.command # "cancel" /\ lapsed[Inv(w)])]
    /\ UNCHANGED <<row, meeting, event, episode, host, moved, edited, lapsed>>

\* The process stalls, and the job runner gives the pass up and starts another.
Stall ==
    /\ work[0].pc \in Delivering
    /\ SpendFault
    /\ \E w \in Workers \ {0} :
          /\ At(w, "idle")
          /\ work' = [work EXCEPT ![w] = work[0], ![0] = Idle]
    /\ UNCHANGED <<row, meeting, event, episode, host, history>>

\* A lease runs out: of a delivery that died or was superseded, or of one that
\* stalled and may yet come back.
Busy(i) == \E w \in Workers : Inv(w) = i /\ work[w].pc \in Delivering

Lapse(i) ==
    /\ row[i].held
    /\ ~(Inv(0) = i /\ work[0].pc \in Delivering)
    /\ row' = [row EXCEPT ![i].held = FALSE]
    /\ lapsed' = [lapsed EXCEPT ![i] = @ \/ Busy(i)]
    /\ UNCHANGED <<meeting, event, work, episode, host, used, moved, edited, lost>>
-----------------------------------------------------------------------------
(***************************************************************************)
(* The reconcile: what the host changed in the calendar itself.            *)
(***************************************************************************)
\* A confirmed row is read and its event inspected; one that has not changed
\* ends the matter, a refusal asks the host.
Watch(i) ==
    /\ At(0, "idle") /\ row[i].status = "confirmed"
    /\ LET seen == [Idle EXCEPT !.inv = i, !.claim = ClaimOf(row[i]), !.current = TRUE]
       IN  \/ /\ host.accepts /\ event[i] # row[i].slot
              /\ Only(0, [seen EXCEPT !.pc = "import", !.seen = event[i]])
           \/ ~host.accepts /\ Only(0, [seen EXCEPT !.pc = "warn"])

\* Mutant: what was seen is imported whatever became of the row since.
Unconditional(w) == TRUE

\* What was seen counts for the version of the row it was seen for.
StillAsSeen(w) == work[w].current

Import(w) ==
    /\ At(w, "import")
    /\ LET i == Inv(w)
           seen == work[w].seen
       IN  IF StillAsSeen(w)
             THEN /\ Finished(w, IF seen \in Slots THEN [row[i] EXCEPT !.slot = seen]
                                                    ELSE [row[i] EXCEPT !.status = "canceled"])
                  /\ meeting' = [meeting EXCEPT ![i] = IF seen \in Slots THEN seen ELSE None]
                  /\ moved' = [moved EXCEPT ![i] = TRUE]
                  /\ edited' = [edited EXCEPT ![i] = event[i] # seen]
             ELSE work' = [work EXCEPT ![w] = Idle] /\ UNCHANGED <<row, meeting, moved, edited>>
    /\ UNCHANGED <<event, episode, host, used, lapsed, lost>>

\* The calendar refused an inspection: the row waits for its host, with no
\* reason and in no episode.
Warn(w) ==
    /\ At(w, "warn")
    /\ IF work[w].current
         THEN Finished(w, [row[Inv(w)] EXCEPT !.status = "needs_attention"])
         ELSE work' = [work EXCEPT ![w] = Idle] /\ UNCHANGED row
    /\ UNCHANGED <<meeting, event, episode, host, used, history>>

\* Mutant: only the rows that were about to be created go on.
ResumedCreates(r) == r.status = "needs_attention" /\ r.parked = episode.n /\ r.command = "create"

\* The rows an episode parked and that still wait in it.
Parked(r) == r.status = "needs_attention" /\ r.parked = episode.n

\* A pass sends the open episode's queue on once the host has granted the
\* calendar again.  It asks the stored connection, not the provider, which may
\* have begun to refuse since.
Resume ==
    /\ episode.open /\ host.granted
    /\ At(0, "idle")
    /\ row' = [i \in Invites |-> IF Parked(row[i])
          THEN FollowsStatus([row[i] EXCEPT !.status = PendingFor(row[i].command), !.attempts = 0])
          ELSE row[i]]
    /\ LET S == {i \in Invites : Parked(row[i])}
       IN  work' = [w \in Workers |->
              [Outdated(S)[w] EXCEPT !.late = @ \/ work[w].pc \in Delivering]]
    /\ episode' = [episode EXCEPT !.open = FALSE]
    /\ host' = [host EXCEPT !.granted = FALSE]
    /\ UNCHANGED <<meeting, event, used, history>>
-----------------------------------------------------------------------------
(***************************************************************************)
(* The host's calendar.                                                    *)
(***************************************************************************)
Outage ==
    /\ host.accepts /\ host.outages < MaxOutages
    /\ host' = [host EXCEPT !.accepts = FALSE, !.outages = @ + 1]
    /\ UNCHANGED <<row, meeting, event, work, episode, used, history>>

\* The calendar stops refusing by itself.
Recover ==
    /\ ~host.accepts
    /\ host' = [host EXCEPT !.accepts = TRUE]
    /\ UNCHANGED <<row, meeting, event, work, episode, used, history>>

\* The host connects it again, which an open episode waits for.
Reconnect ==
    /\ ~host.accepts \/ (episode.open /\ ~host.granted)
    /\ host' = [host EXCEPT !.accepts = TRUE, !.granted = episode.open]
    /\ UNCHANGED <<row, meeting, event, work, episode, used, history>>

\* The host moves the event, or deletes it.
HostEdits(i, to) ==
    /\ Live(i) /\ event[i] # to
    /\ SpendChange
    /\ event' = [event EXCEPT ![i] = to]
    /\ edited' = [edited EXCEPT ![i] = TRUE]
    /\ UNCHANGED <<row, meeting, work, episode, host, moved, lapsed, lost>>
-----------------------------------------------------------------------------
Asked(i) ==
    \/ \E s \in Slots : CreateInvitation(i, s) \/ Reschedule(i, s)
    \/ Cancel(i) \/ Retry(i) \/ Erase(i)

Delivers(w) ==
    \/ CallFails(w) \/ LookBeforeSave(w) \/ LookBeforeDelete(w) \/ Save(w) \/ Delete(w)
    \/ FinishErased(w) \/ FinishSuperseded(w) \/ Park(w) \/ Postpone(w) \/ Settle(w)
    \/ FinishFails(w)

Imports(w) == Import(w) \/ Warn(w)

Calendar ==
    \/ Outage \/ Recover \/ Reconnect
    \/ \E i \in Invites, to \in Slots \cup {Gone} : HostEdits(i, to)

Next ==
    \/ \E i \in Invites : Asked(i) \/ Lapse(i) \/ Claim(i) \/ Watch(i)
    \/ \E w \in Workers : Delivers(w) \/ Imports(w) \/ Crash(w)
    \/ Stall \/ Resume
    \/ Calendar

Spec == Init /\ [][Next]_vars

\* A worker that lives carries on, a lease that nobody works under runs out, a
\* row that is due gets its turn (the queue is ordered by when rows fell due),
\* and each pass tries to resume.
Fairness ==
    /\ \A w \in Workers : WF_vars(Delivers(w) \/ Imports(w))
    /\ \A i \in Invites :
          /\ SF_vars(Claim(i))
          /\ WF_vars(Lapse(i))
    /\ SF_vars(host.accepts /\ Resume)

FairSpec == Spec /\ Fairness
-----------------------------------------------------------------------------
(***************************************************************************)
(* Properties.                                                             *)
(***************************************************************************)
\* Types, and: the attention episode of a row is one that was begun, a lease is
\* held only on a row somebody may still have to deliver or to withdraw.
Flags == [Invites -> BOOLEAN]
TypeOK ==
    /\ row \in [Invites -> Rows]
    /\ meeting \in [Invites -> Slots \cup {None}]
    /\ event \in [Invites -> Slots \cup {None, Gone}]
    /\ work \in [Workers -> Jobs]
    /\ episode \in [n : Nat, open : BOOLEAN]
    /\ host \in [accepts : BOOLEAN, granted : BOOLEAN, outages : Nat]
    /\ used \in [changes : Nat, faults : Nat]
    /\ moved \in Flags /\ edited \in Flags /\ lapsed \in Flags /\ lost \in Flags
    /\ \A i \in Invites :
          /\ row[i].held => row[i].status \in Queued \cup {"erased"}
          /\ row[i].parked # 0 => row[i].status = "needs_attention"

\* "Its late receipt must still reach the cancellation worker, even if an
\* earlier lookup found no event": an invitation that is canceled, or erased and
\* cleaned up, has no event in the host's calendar, unless a worker has yet to
\* report the save, or could not, having lost its claim; an erasure's cleanup is
\* not told of a save by a worker that stalled (finishSupersededInvitation,
\* finishErasedInvitation, executeInvitation).
Unreported(i) == \E w \in Workers :
    Inv(w) = i /\ Finishing(w) /\ work[w].found /\ work[w].claim.command # "cancel"
WithdrawnMeansGone == \A i \in Invites :
    /\ row[i].status = "canceled" /\ Live(i) => Unreported(i) \/ lost[i]
    /\ row[i].status = "erased" /\ row[i].clean /\ Live(i) => lapsed[i]

\* Two meetings of one host stand in the same slot only where the host put one
\* of them there in the calendar: a move that is still on its way has reserved
\* its new time (reserveInvitation, localMeetingSlots, settleInvitation).
HostNotDoubleBooked == \A i, j \in Invites :
    i # j /\ meeting[i] = meeting[j] /\ meeting[i] # None => moved[i] \/ moved[j]

\* A confirmed invitation says what the CRM says, and what the calendar says
\* unless the host touched the event or a delivery outlived its lease; one that
\* was withdrawn has no meeting, whatever the calendar was seen to say before
\* (settleInvitation, reconcileInvitation).
StatusIsTrue == \A i \in Invites :
    /\ row[i].status = "confirmed" =>
          /\ row[i].slot = meeting[i]
          /\ event[i] = meeting[i] \/ edited[i] \/ lapsed[i]
    /\ row[i].status \in {"canceled", "erased"} => meeting[i] = None

\* "All of them share one episode, so the host is told once": no outage begins
\* two, and a parked row is in the one that is open, where the reconnect finds
\* it (disconnectEpisode, parkInvitationAndQueue, resumeQueue).
OneEpisodePerOutage ==
    /\ episode.n <= host.outages
    /\ \A i \in Invites : row[i].parked # 0 => episode.open /\ row[i].parked = episode.n

\* Every change is delivered or given back to the host (five attempts, the
\* lease, the park).
EveryChangeSettles == \A i \in Invites :
    row[i].status \in Queued ~> row[i].status \notin Queued

\* A parked row goes on after the host has connected the calendar again
\* (resumeParkedInvitations).
QueueResumes == \A i \in Invites :
    row[i].parked # 0 /\ host.granted /\ host.accepts
        ~> row[i].parked = 0 \/ ~host.accepts
=============================================================================
