---------------------- MODULE MeetingInvitationProofs ----------------------
(***************************************************************************)
(* What holds of a host's invitations for any set of them, any number of   *)
(* passes that were given up and come back, and any budget of changes,     *)
(* failures and outages.  The argument: a worker whose version is current  *)
(* holds the row as it is; a row that nobody holds under lease has no      *)
(* worker, unless a lease ran out under one; and a move holds both of its  *)
(* hours until it is settled.                                              *)
(***************************************************************************)
EXTENDS MeetingInvitation, TLAPS

\* What a row says agrees with itself and with the meeting.
RowOK(i) ==
    /\ row[i].status = "absent" => row[i].command = "create"
    /\ row[i].status \in Queued => row[i].status = PendingFor(row[i].command)
    /\ row[i].status = "erased" => row[i].command = "cancel"
    /\ row[i].status # "absent" /\ row[i].command # "cancel" => row[i].slot \in Slots
    /\ row[i].status = "confirmed" => row[i].slot = meeting[i] /\ row[i].receipt
    /\ row[i].command = "create" /\ row[i].status \in {"pending", "needs_attention"} =>
           row[i].slot = meeting[i]
    /\ row[i].status \in {"absent", "canceled", "erased"} => meeting[i] = None
    /\ row[i].clean => row[i].status = "erased" /\ ~row[i].held

\* What a worker has in hand, and that it is the row while it is current.
JobOK(w) ==
    /\ ~At(w, "idle") => Inv(w) \in Invites
    /\ At(w, "save") => work[w].claim.command # "cancel"
    /\ At(w, "delete") => work[w].claim.command = "cancel"
    /\ At(w, "finish") /\ work[w].err = "none" => work[w].found \/ work[w].claim.command = "cancel"
    /\ work[w].pc \in Delivering =>
          /\ work[w].claim.status = "erased" => work[w].claim.command = "cancel"
          /\ work[w].claim.command # "cancel" => work[w].claim.slot \in Slots
    /\ work[w].pc \in Delivering /\ work[w].current =>
          /\ work[w].claim.status = row[Inv(w)].status
          /\ work[w].claim.command = row[Inv(w)].command
          /\ work[w].claim.slot = row[Inv(w)].slot
          /\ work[w].claim.status \in Queued \cup {"erased"}
    /\ work[w].pc \in {"import", "warn"} /\ work[w].current => row[Inv(w)].status = "confirmed"

Core ==
    /\ TypeOK
    /\ \A i \in Invites : RowOK(i)
    /\ \A w \in Workers : JobOK(w)

\* The hours an invitation holds: its meeting's, and the one it moves to.
Holds(i, s) == meeting[i] = s \/ MovesTo(i, s)
PutThere(i, s) == moved[i] /\ meeting[i] = s

HoursInv == \A i, j \in Invites, s \in Slots :
    i # j /\ Holds(i, s) /\ Holds(j, s) => PutThere(i, s) \/ PutThere(j, s)

\* An outage pays for each episode before a refusal can begin it.
News(w) == Finishing(w) /\ work[w].err = "refused" /\ ~work[w].late
Paid == episode.n + 1 <= host.outages

EpisodeInv ==
    /\ OneEpisodePerOutage
    /\ host.granted => episode.open
    /\ episode.open /\ host.granted /\ ~host.accepts => Paid
    /\ ~episode.open /\ ~host.accepts => Paid
    /\ \A w \in Workers : ~episode.open /\ News(w) => Paid

\* Under a lease that has not run out there is one worker.
Works(w, i) == Inv(w) = i /\ work[w].pc \in Delivering

LeaseOK(i) == ~lapsed[i] =>
    \A w \in Workers : Works(w, i) =>
        row[i].held /\ \A v \in Workers : Works(v, i) => v = w

\* What a worker has learned of the event.
Knows(w) ==
    /\ work[w].pc \in Delivering /\ (work[w].found \/ work[w].claim.receipt) => event[Inv(w)] # None
    /\ At(w, "delete") => event[Inv(w)] # None
    /\ At(w, "import") => work[w].seen # None /\ (work[w].seen = Gone => event[Inv(w)] = Gone)
    /\ Finishing(w) /\ work[w].err = "none" =>
          IF work[w].claim.command = "cancel"
            THEN Live(Inv(w)) => lapsed[Inv(w)]
            ELSE work[w].found
                 /\ (event[Inv(w)] = work[w].claim.slot \/ edited[Inv(w)] \/ lapsed[Inv(w)])
    /\ Stands(w) /\ work[w].err = "none" /\ work[w].claim.command = "cancel" /\ Live(Inv(w)) =>
          Unreported(Inv(w)) \/ lost[Inv(w)]

\* What a row says of the event.
Tells(i) ==
    /\ row[i].receipt => event[i] # None
    /\ row[i].status = "confirmed" => event[i] = meeting[i] \/ edited[i] \/ lapsed[i]
    /\ row[i].status = "canceled" /\ row[i].command # "cancel" => event[i] = Gone
    /\ row[i].status = "canceled" /\ Live(i) => Unreported(i) \/ lost[i]
    /\ row[i].status = "erased" /\ row[i].clean /\ Live(i) => lapsed[i]

EventInv ==
    /\ \A i \in Invites : LeaseOK(i) /\ Tells(i)
    /\ \A w \in Workers : Knows(w)

-----------------------------------------------------------------------------
(***************************************************************************)
(* Rows and jobs, one at a time.                                           *)
(***************************************************************************)
\* The trigger leaves everything but the episode and the attempts as it is.
LEMMA Followed ==
  ASSUME NEW r \in Rows
  PROVE  /\ FollowsStatus(r) \in Rows
         /\ FollowsStatus(r).status = r.status /\ FollowsStatus(r).command = r.command
         /\ FollowsStatus(r).slot = r.slot /\ FollowsStatus(r).receipt = r.receipt
         /\ FollowsStatus(r).held = r.held /\ FollowsStatus(r).clean = r.clean
         /\ FollowsStatus(r).parked = IF r.status = "needs_attention" THEN r.parked ELSE 0
<1>1. 0 \in 0..MaxAttempts
  BY InvitationAssumption
<1>2. PICK a \in 0..MaxAttempts : a = IF r.status \in Queued THEN r.attempts ELSE 0
  BY <1>1 DEF Rows
<1>3. PICK p \in Nat : p = IF r.status = "needs_attention" THEN r.parked ELSE 0
  BY DEF Rows
<1>4. FollowsStatus(r) = [r EXCEPT !.parked = p, !.attempts = a]
  BY <1>2, <1>3 DEF FollowsStatus
<1> QED
  BY <1>3, <1>4 DEF Rows

LEMMA Written ==
  ASSUME NEW i \in Invites, NEW r \in Rows, row \in [Invites -> Rows], Write(i, r)
  PROVE  /\ row' \in [Invites -> Rows]
         /\ row'[i] = FollowsStatus(r)
         /\ \A j \in Invites \ {i} : row'[j] = row[j]
<1>1. FollowsStatus(r) \in Rows
  BY Followed
<1> QED
  BY <1>1 DEF Write

\* Row j and its meeting are as they were, but for a lease that may be over.
RowKept(j) ==
    /\ row'[j].status = row[j].status /\ row'[j].command = row[j].command
    /\ row'[j].slot = row[j].slot /\ row'[j].receipt = row[j].receipt
    /\ row'[j].clean = row[j].clean /\ row'[j].parked = row[j].parked
    /\ row'[j].held => row[j].held
    /\ meeting'[j] = meeting[j]

LEMMA RowKeptOK ==
  ASSUME NEW j \in Invites, RowOK(j), RowKept(j)
  PROVE  RowOK(j)'
  BY DEF RowOK, RowKept, PendingFor, Queued

\* Job w is as it was, but for its version, which may be outdated, and for the
\* calendar, which may have been resumed.
JobKept(w) ==
    /\ work'[w].pc = work[w].pc /\ work'[w].inv = work[w].inv
    /\ work'[w].claim = work[w].claim /\ work'[w].found = work[w].found
    /\ work'[w].err = work[w].err /\ work'[w].seen = work[w].seen
    /\ work'[w].current => work[w].current
    /\ work[w].late => work'[w].late

LEMMA OutdatedKeeps ==
  ASSUME NEW S, work \in [Workers -> Jobs]
  PROVE  /\ Outdated(S) \in [Workers -> Jobs]
         /\ \A w \in Workers :
               /\ Outdated(S)[w].pc = work[w].pc /\ Outdated(S)[w].inv = work[w].inv
               /\ Outdated(S)[w].claim = work[w].claim /\ Outdated(S)[w].found = work[w].found
               /\ Outdated(S)[w].err = work[w].err /\ Outdated(S)[w].seen = work[w].seen
               /\ Outdated(S)[w].late = work[w].late
               /\ Outdated(S)[w].current => work[w].current /\ Inv(w) \notin S
  BY DEF Outdated, Jobs, Inv

\* A job whose row is not touched while it is current stays in order.
LEMMA JobKeptOK ==
  ASSUME NEW w \in Workers, JobOK(w), JobKept(w),
         work'[w].current /\ work[w].inv \in Invites => RowKept(work[w].inv)
  PROVE  JobOK(w)'
<1>1. Inv(w)' = Inv(w) /\ (At(w, "idle")' <=> At(w, "idle")) /\ (At(w, "save")' <=> At(w, "save"))
      /\ (At(w, "delete")' <=> At(w, "delete")) /\ (At(w, "finish")' <=> At(w, "finish"))
  BY DEF JobKept, Inv, At
<1>2. ~At(w, "idle") <=> work[w].pc # "idle"
  BY DEF At
<1> QED
  BY <1>1, <1>2 DEF JobOK, JobKept, RowKept, Delivering, Inv, Queued

\* The claim copies a row.
LEMMA Copied ==
  ASSUME NEW r \in Rows
  PROVE  ClaimOf(r) \in Claims
  BY DEF ClaimOf, Rows, Claims

LEMMA IdleJob ==
  /\ Idle \in Jobs /\ Idle.pc = "idle" /\ Idle.inv = None /\ ~Idle.current
  /\ Idle.err = "none" /\ ~Idle.found /\ ~Idle.late
<1>1. Absent \in Rows
  BY InvitationAssumption DEF Absent, Rows, Statuses, Commands
<1>2. ClaimOf(Absent) \in Claims
  BY <1>1, Copied
<1> QED
  BY <1>2 DEF Idle, Jobs, Delivering

LEMMA IdleOK ==
  ASSUME NEW w \in Workers, work'[w] = Idle
  PROVE  JobOK(w)'
  BY IdleJob DEF JobOK, At, Delivering, Inv

\* Everything of the type invariant but the rows and the jobs.
TypeRest ==
    /\ meeting \in [Invites -> Slots \cup {None}]
    /\ event \in [Invites -> Slots \cup {None, Gone}]
    /\ episode \in [n : Nat, open : BOOLEAN]
    /\ host \in [accepts : BOOLEAN, granted : BOOLEAN, outages : Nat]
    /\ used \in [changes : Nat, faults : Nat]
    /\ moved \in Flags /\ edited \in Flags /\ lapsed \in Flags /\ lost \in Flags

RowType(i) ==
    /\ row[i].held => row[i].status \in Queued \cup {"erased"}
    /\ row[i].parked # 0 => row[i].status = "needs_attention"

LEMMA Typed ==
  TypeOK <=> /\ row \in [Invites -> Rows] /\ work \in [Workers -> Jobs]
             /\ \A i \in Invites : RowType(i)
             /\ TypeRest
  BY DEF TypeOK, RowType, TypeRest

LEMMA RowKeptType ==
  ASSUME NEW j \in Invites, RowType(j), RowKept(j)
  PROVE  RowType(j)'
  BY DEF RowType, RowKept

LEMMA CoreFrom ==
  ASSUME row' \in [Invites -> Rows], work' \in [Workers -> Jobs], TypeRest',
         \A i \in Invites : RowType(i)' /\ RowOK(i)',
         \A w \in Workers : JobOK(w)'
  PROVE  Core'
  BY DEF Core, TypeOK, TypeRest, RowType

LEMMA CoreTyped ==
  ASSUME Core
  PROVE  /\ row \in [Invites -> Rows] /\ work \in [Workers -> Jobs] /\ TypeRest
         /\ \A i \in Invites : RowType(i) /\ RowOK(i)
         /\ \A w \in Workers : JobOK(w)
  BY Typed DEF Core

\* One row is written; the others are kept.
LEMMA OthersKept ==
  ASSUME Core, NEW i \in Invites, NEW r \in Rows, Write(i, r),
         \A j \in Invites \ {i} : meeting'[j] = meeting[j]
  PROVE  /\ row' \in [Invites -> Rows] /\ row'[i] = FollowsStatus(r)
         /\ \A j \in Invites \ {i} : RowKept(j) /\ RowOK(j)' /\ RowType(j)'
<1>1. /\ row \in [Invites -> Rows]
      /\ \A j \in Invites : RowType(j) /\ RowOK(j)
  BY CoreTyped
<1>2. /\ row' \in [Invites -> Rows] /\ row'[i] = FollowsStatus(r)
      /\ \A j \in Invites \ {i} : row'[j] = row[j]
  BY <1>1, Written
<1>3. \A j \in Invites \ {i} : RowKept(j)
  BY <1>2 DEF RowKept
<1>4. \A j \in Invites \ {i} : RowOK(j)' /\ RowType(j)'
  BY <1>1, <1>3, RowKeptOK, RowKeptType
<1> QED
  BY <1>2, <1>3, <1>4

\* The rows of S change, and their workers are outdated.
LEMMA OutdatedOK ==
  ASSUME Core, NEW S, work' = Outdated(S), \A j \in Invites \ S : RowKept(j)
  PROVE  work' \in [Workers -> Jobs] /\ \A w \in Workers : JobOK(w)'
<1>1. work \in [Workers -> Jobs] /\ \A w \in Workers : JobOK(w)
  BY CoreTyped
<1>2. ASSUME NEW w \in Workers PROVE JobOK(w)'
  <2>1. JobKept(w) /\ (work'[w].current => Inv(w) \notin S)
    BY <1>1, OutdatedKeeps DEF JobKept
  <2> QED
    BY <1>1, <2>1, JobKeptOK DEF Inv
<1> QED
  BY <1>1, <1>2, OutdatedKeeps

\* And one of them is done.
LEMMA OutdatedIdleOK ==
  ASSUME Core, NEW S, NEW v \in Workers, work' = [Outdated(S) EXCEPT ![v] = Idle],
         \A j \in Invites \ S : RowKept(j)
  PROVE  work' \in [Workers -> Jobs] /\ \A w \in Workers : JobOK(w)'
<1>1. work \in [Workers -> Jobs] /\ \A w \in Workers : JobOK(w)
  BY CoreTyped
<1>2. Outdated(S) \in [Workers -> Jobs]
  BY <1>1, OutdatedKeeps
<1>3. ASSUME NEW w \in Workers PROVE JobOK(w)'
  <2>1. CASE w = v
    BY <1>2, <2>1, IdleOK
  <2>2. CASE w # v
    <3>1. work'[w] = Outdated(S)[w]
      BY <1>2, <2>2
    <3>2. JobKept(w) /\ (work'[w].current => Inv(w) \notin S)
      BY <1>1, <3>1, OutdatedKeeps DEF JobKept
    <3> QED
      BY <1>1, <3>2, JobKeptOK DEF Inv
  <2> QED
    BY <2>1, <2>2
<1> QED
  BY <1>2, <1>3, IdleJob

\* One worker goes on, and no row changes.
LEMMA OneWorkerOK ==
  ASSUME Core, NEW v \in Workers, NEW job \in Jobs, work' = [work EXCEPT ![v] = job],
         UNCHANGED <<row, meeting>>, JobOK(v)'
  PROVE  /\ row' \in [Invites -> Rows] /\ work' \in [Workers -> Jobs]
         /\ \A i \in Invites : RowType(i)' /\ RowOK(i)'
         /\ \A w \in Workers : JobOK(w)'
<1>1. /\ row \in [Invites -> Rows] /\ work \in [Workers -> Jobs]
      /\ \A i \in Invites : RowType(i) /\ RowOK(i)
      /\ \A w \in Workers : JobOK(w)
  BY CoreTyped
<1>2. \A i \in Invites : RowKept(i)
  BY DEF RowKept
<1>3. \A i \in Invites : RowType(i)' /\ RowOK(i)'
  BY <1>1, <1>2, RowKeptOK, RowKeptType
<1>4. ASSUME NEW w \in Workers, w # v PROVE JobOK(w)'
  <2>1. JobKept(w)
    BY <1>1, <1>4 DEF JobKept
  <2> QED
    BY <1>1, <1>2, <2>1, JobKeptOK
<1> QED
  BY <1>1, <1>3, <1>4

\* What a written row says.
Says(i, r) ==
    /\ row'[i].status = r.status /\ row'[i].command = r.command /\ row'[i].slot = r.slot
    /\ row'[i].receipt = r.receipt /\ row'[i].held = r.held /\ row'[i].clean = r.clean
    /\ row'[i].parked = IF r.status = "needs_attention" THEN r.parked ELSE 0

OthersSame(i) == \A j \in Invites \ {i} : row'[j] = row[j]

LEMMA WrittenSays ==
  ASSUME Core, NEW i \in Invites, NEW r \in Rows, Write(i, r)
  PROVE  Says(i, r) /\ OthersSame(i)
<1>1. row'[i] = FollowsStatus(r) /\ OthersSame(i)
  BY CoreTyped, Written DEF OthersSame
<1> QED
  BY <1>1, Followed DEF Says

\* The same, spelled out.
Now(i, status, command, slot, receipt, held, clean) ==
    /\ row'[i].status = status /\ row'[i].command = command /\ row'[i].slot = slot
    /\ row'[i].receipt = receipt /\ row'[i].held = held /\ row'[i].clean = clean
    /\ OthersSame(i)

\* A row is written and its workers are outdated.
LEMMA ChangeOK ==
  ASSUME Core, NEW i \in Invites, NEW r \in Rows, Write(i, r),
         \A j \in Invites \ {i} : meeting'[j] = meeting[j],
         work' = Outdated({i}), TypeRest', RowType(i)', RowOK(i)'
  PROVE  Core'
<1>1. /\ row' \in [Invites -> Rows]
      /\ \A j \in Invites \ {i} : RowKept(j) /\ RowOK(j)' /\ RowType(j)'
  BY OthersKept
<1>2. work' \in [Workers -> Jobs] /\ \A w \in Workers : JobOK(w)'
  BY <1>1, OutdatedOK
<1> QED
  BY <1>1, <1>2, CoreFrom

\* A worker writes the row it has in hand, and is done.
LEMMA FinishedOK ==
  ASSUME Core, NEW w \in Workers, NEW i \in Invites, i = Inv(w), NEW r \in Rows, Finished(w, r),
         \A j \in Invites \ {i} : meeting'[j] = meeting[j],
         TypeRest', RowType(i)', RowOK(i)'
  PROVE  Core'
<1>1. Write(i, r) /\ work' = [Outdated({i}) EXCEPT ![w] = Idle]
  BY DEF Finished
<1>2. /\ row' \in [Invites -> Rows]
      /\ \A j \in Invites \ {i} : RowKept(j) /\ RowOK(j)' /\ RowType(j)'
  BY <1>1, OthersKept
<1>3. work' \in [Workers -> Jobs] /\ \A v \in Workers : JobOK(v)'
  BY <1>1, <1>2, OutdatedIdleOK
<1> QED
  BY <1>2, <1>3, CoreFrom

\* A worker goes on and nothing else changes.
LEMMA OnlyOK ==
  ASSUME Core, NEW w \in Workers, NEW job \in Jobs, Only(w, job), JobOK(w)'
  PROVE  Core'
<1>1. /\ work' = [work EXCEPT ![w] = job] /\ UNCHANGED <<row, meeting>>
      /\ UNCHANGED <<event, episode, host, used, history>>
  BY DEF Only
<1>2. TypeRest'
  BY <1>1, CoreTyped DEF TypeRest, history
<1> QED
  BY <1>1, <1>2, OneWorkerOK, CoreFrom

-----------------------------------------------------------------------------
(***************************************************************************)
(* The rows and the jobs stay in order: what is asked for.                 *)
(***************************************************************************)
\* A change has all its attempts.
LEMMA Afresh ==
  ASSUME NEW r \in Rows
  PROVE  LET q == [r EXCEPT !.attempts = 0]
         IN  /\ q \in Rows
             /\ q.status = r.status /\ q.command = r.command /\ q.slot = r.slot
             /\ q.receipt = r.receipt /\ q.held = r.held /\ q.clean = r.clean
             /\ q.parked = r.parked
<1>1. 0 \in 0..MaxAttempts
  BY InvitationAssumption
<1> QED
  BY <1>1 DEF Rows

LEMMA CreateCore ==
  ASSUME Core, NEW i \in Invites, NEW s \in Slots, CreateInvitation(i, s)
  PROVE  Core' /\ Now(i, "pending", row[i].command, s, row[i].receipt, row[i].held, row[i].clean)
<1>. DEFINE q == [row[i] EXCEPT !.status = "pending", !.slot = s]
<1>. DEFINE r == [q EXCEPT !.attempts = 0]
<1>1. row \in [Invites -> Rows] /\ TypeRest /\ RowType(i) /\ RowOK(i)
  BY CoreTyped
<1>2. r \in Rows /\ r.status = "pending" /\ r.command = row[i].command /\ r.slot = s
      /\ r.clean = row[i].clean /\ r.held = row[i].held /\ r.receipt = row[i].receipt
  <2>1. q \in Rows /\ q.status = "pending" /\ q.command = row[i].command /\ q.slot = s
        /\ q.clean = row[i].clean /\ q.held = row[i].held /\ q.receipt = row[i].receipt
    BY <1>1, InvitationAssumption DEF Rows, Statuses, Queued
  <2> HIDE DEF q
  <2> QED
    BY <2>1, Afresh
<1>3. Write(i, r) /\ work' = Outdated({i})
  BY DEF CreateInvitation, Change
<1>. HIDE DEF r
<1>4. meeting' = [meeting EXCEPT ![i] = s] /\ row[i].status = "absent"
  BY DEF CreateInvitation
<1>5. TypeRest'
  BY <1>1, <1>4 DEF TypeRest, CreateInvitation, history, Change, SpendChange
<1>6. meeting'[i] = s /\ \A j \in Invites \ {i} : meeting'[j] = meeting[j]
  BY <1>1, <1>4 DEF TypeRest
<1>7. Says(i, r) /\ OthersSame(i)
  BY <1>2, <1>3, WrittenSays
<1>8. RowOK(i)' /\ RowType(i)'
  BY <1>1, <1>2, <1>4, <1>6, <1>7 DEF RowOK, RowType, Says, Queued, PendingFor
<1>n. Now(i, "pending", row[i].command, s, row[i].receipt, row[i].held, row[i].clean)
  BY <1>2, <1>7 DEF Says, Now
<1> QED
  BY <1>n, <1>2, <1>3, <1>5, <1>6, <1>8, ChangeOK

LEMMA RescheduleCore ==
  ASSUME Core, NEW i \in Invites, NEW s \in Slots, Reschedule(i, s)
  PROVE  Core' /\ Now(i, "rescheduling", "update", s, row[i].receipt, row[i].held, row[i].clean)
<1>. DEFINE q == [row[i] EXCEPT !.status = "rescheduling", !.command = "update", !.slot = s]
<1>. DEFINE r == [q EXCEPT !.attempts = 0]
<1>1. row \in [Invites -> Rows] /\ TypeRest /\ RowType(i) /\ RowOK(i)
  BY CoreTyped
<1>2. r \in Rows /\ r.status = "rescheduling" /\ r.command = "update" /\ r.slot = s
      /\ r.clean = row[i].clean /\ r.held = row[i].held /\ r.receipt = row[i].receipt
  <2>1. q \in Rows /\ q.status = "rescheduling" /\ q.command = "update" /\ q.slot = s
        /\ q.clean = row[i].clean /\ q.held = row[i].held /\ q.receipt = row[i].receipt
    BY <1>1, InvitationAssumption DEF Rows, Statuses, Queued, Commands
  <2> HIDE DEF q
  <2> QED
    BY <2>1, Afresh
<1>3. Write(i, r) /\ work' = Outdated({i})
  BY DEF Reschedule, Change
<1>. HIDE DEF r
<1>4. meeting' = meeting /\ row[i].status = "confirmed"
  BY DEF Reschedule
<1>5. TypeRest'
  BY <1>1 DEF TypeRest, Reschedule, history, Change, SpendChange
<1>6. Says(i, r) /\ OthersSame(i)
  BY <1>2, <1>3, WrittenSays
<1>7. RowOK(i)' /\ RowType(i)'
  BY <1>1, <1>2, <1>4, <1>6 DEF RowOK, RowType, Says, Queued, PendingFor
<1>n. Now(i, "rescheduling", "update", s, row[i].receipt, row[i].held, row[i].clean)
  BY <1>2, <1>6 DEF Says, Now
<1> QED
  BY <1>n, <1>2, <1>3, <1>4, <1>5, <1>7, ChangeOK

LEMMA CancelCore ==
  ASSUME Core, NEW i \in Invites, Cancel(i)
  PROVE  Core' /\ Now(i, "canceling", "cancel", None, row[i].receipt, row[i].held, row[i].clean)
<1>. DEFINE q == [row[i] EXCEPT !.status = "canceling", !.command = "cancel", !.slot = None]
<1>. DEFINE r == [q EXCEPT !.attempts = 0]
<1>1. row \in [Invites -> Rows] /\ TypeRest /\ RowType(i) /\ RowOK(i)
  BY CoreTyped
<1>2. r \in Rows /\ r.status = "canceling" /\ r.command = "cancel" /\ r.slot = None /\ r.clean = row[i].clean /\ r.held = row[i].held /\ r.receipt = row[i].receipt
  <2>1. q \in Rows /\ q.status = "canceling" /\ q.command = "cancel" /\ q.slot = None /\ q.clean = row[i].clean /\ q.held = row[i].held /\ q.receipt = row[i].receipt
    BY <1>1, InvitationAssumption DEF Rows, Statuses, Queued, Commands
  <2> HIDE DEF q
  <2> QED
    BY <2>1, Afresh
<1>3. Write(i, r) /\ work' = Outdated({i})
  BY DEF Cancel, Change
<1>. HIDE DEF r
<1>4. meeting' = meeting /\ row[i].status # "erased"
  BY DEF Cancel
<1>5. TypeRest'
  BY <1>1 DEF TypeRest, Cancel, history, Change, SpendChange
<1>6. Says(i, r) /\ OthersSame(i)
  BY <1>2, <1>3, WrittenSays
<1>7. RowOK(i)' /\ RowType(i)'
  BY <1>1, <1>2, <1>4, <1>6 DEF RowOK, RowType, Says, Queued, PendingFor
<1>n. Now(i, "canceling", "cancel", None, row[i].receipt, row[i].held, row[i].clean)
  BY <1>2, <1>6 DEF Says, Now
<1> QED
  BY <1>n, <1>2, <1>3, <1>4, <1>5, <1>7, ChangeOK

LEMMA RetryCore ==
  ASSUME Core, NEW i \in Invites, Retry(i)
  PROVE  Core' /\ Now(i, PendingFor(row[i].command), row[i].command, row[i].slot, row[i].receipt, row[i].held, row[i].clean)
<1>. DEFINE q == [row[i] EXCEPT !.status = PendingFor(row[i].command)]
<1>. DEFINE r == [q EXCEPT !.attempts = 0]
<1>1. row \in [Invites -> Rows] /\ TypeRest /\ RowType(i) /\ RowOK(i)
  BY CoreTyped
<1>2. PendingFor(row[i].command) \in Queued
  BY <1>1 DEF Rows, PendingFor, Queued, Commands
<1>3. r \in Rows /\ r.status = PendingFor(row[i].command) /\ r.command = row[i].command
      /\ r.slot = row[i].slot /\ r.receipt = row[i].receipt /\ r.clean = row[i].clean /\ r.held = row[i].held
  <2>1. q \in Rows /\ q.status = PendingFor(row[i].command) /\ q.command = row[i].command
        /\ q.slot = row[i].slot /\ q.receipt = row[i].receipt /\ q.clean = row[i].clean /\ q.held = row[i].held
    BY <1>1, <1>2, InvitationAssumption DEF Rows, Statuses
  <2> HIDE DEF q
  <2> QED
    BY <2>1, Afresh
<1>4. Write(i, r) /\ work' = Outdated({i})
  BY DEF Retry, Change
<1>. HIDE DEF r
<1>5. meeting' = meeting /\ row[i].status = "needs_attention"
  BY DEF Retry
<1>6. TypeRest'
  BY <1>1 DEF TypeRest, Retry, history, Change, SpendChange
<1>7. Says(i, r) /\ OthersSame(i)
  BY <1>3, <1>4, WrittenSays
<1>8. RowOK(i)' /\ RowType(i)'
  BY <1>1, <1>2, <1>3, <1>5, <1>7 DEF RowOK, RowType, Says, Queued, PendingFor
<1>n. Now(i, PendingFor(row[i].command), row[i].command, row[i].slot, row[i].receipt, row[i].held, row[i].clean)
  BY <1>3, <1>7 DEF Says, Now
<1> QED
  BY <1>n, <1>3, <1>4, <1>5, <1>6, <1>8, ChangeOK

LEMMA EraseCore ==
  ASSUME Core, NEW i \in Invites, Erase(i)
  PROVE  Core' /\ Now(i, "erased", "cancel", None, row[i].receipt, row[i].held, row[i].clean)
<1>. DEFINE r == [row[i] EXCEPT !.status = "erased", !.command = "cancel", !.slot = None]
<1>1. row \in [Invites -> Rows] /\ TypeRest /\ RowType(i) /\ RowOK(i)
  BY CoreTyped
<1>2. r \in Rows /\ r.status = "erased" /\ r.command = "cancel" /\ r.slot = None /\ r.clean = row[i].clean /\ r.held = row[i].held /\ r.receipt = row[i].receipt
  BY <1>1, InvitationAssumption DEF Rows, Statuses, Queued, Commands
<1>3. Write(i, r) /\ work' = Outdated({i})
  BY DEF Erase
<1>. HIDE DEF r
<1>4. meeting' = [meeting EXCEPT ![i] = None] /\ row[i].status # "erased"
  BY DEF Erase
<1>5. TypeRest'
  BY <1>1, <1>4 DEF TypeRest, Erase, history, SpendChange
<1>6. meeting'[i] = None /\ \A j \in Invites \ {i} : meeting'[j] = meeting[j]
  BY <1>1, <1>4 DEF TypeRest
<1>7. Says(i, r) /\ OthersSame(i)
  BY <1>2, <1>3, WrittenSays
<1>8. RowOK(i)' /\ RowType(i)'
  BY <1>1, <1>2, <1>4, <1>6, <1>7 DEF RowOK, RowType, Says, Queued, PendingFor
<1>n. Now(i, "erased", "cancel", None, row[i].receipt, row[i].held, row[i].clean)
  BY <1>2, <1>7 DEF Says, Now
<1> QED
  BY <1>n, <1>2, <1>3, <1>5, <1>6, <1>8, ChangeOK

-----------------------------------------------------------------------------
(***************************************************************************)
(* And what the workers do.                                                *)
(***************************************************************************)
LEMMA FlagSet ==
  ASSUME NEW f \in Flags, NEW i \in Invites, NEW b \in BOOLEAN
  PROVE  [f EXCEPT ![i] = b] \in Flags
  BY DEF Flags

\* A delivery goes on with the same claim.
LEMMA DeliveringOK ==
  ASSUME Core, NEW w \in Workers, work[w].pc \in Delivering, work'[w].pc \in Delivering,
         work'[w].inv = work[w].inv, work'[w].claim = work[w].claim,
         work'[w].current = work[w].current, row' = row,
         work'[w].pc = "save" => work[w].claim.command # "cancel",
         work'[w].pc = "delete" => work[w].claim.command = "cancel",
         work'[w].pc = "finish" /\ work'[w].err = "none" =>
             work'[w].found \/ work[w].claim.command = "cancel"
  PROVE  JobOK(w)'
<1>1. JobOK(w)
  BY CoreTyped
<1> QED
  BY <1>1 DEF JobOK, At, Inv, Delivering, Queued

LEMMA OutcomeJob ==
  ASSUME Core, NEW w \in Workers, NEW f \in BOOLEAN, NEW e \in {"none", "failed", "refused"}
  PROVE  LET o == Outcome(w, f, e)
         IN  /\ o \in Jobs /\ o.pc = "finish" /\ o.inv = work[w].inv /\ o.claim = work[w].claim
             /\ o.current = work[w].current /\ o.found = f /\ o.err = e /\ o.late = work[w].late
             /\ o.seen = work[w].seen
  BY CoreTyped DEF Outcome, Jobs, Delivering

\* A call that ends with an outcome leaves everything in order.
LEMMA OutcomeCore ==
  ASSUME Core, NEW w \in Workers, work[w].pc \in Delivering,
         NEW f \in BOOLEAN, NEW e \in {"none", "failed", "refused"}, Only(w, Outcome(w, f, e)),
         e = "none" => f \/ work[w].claim.command = "cancel"
  PROVE  Core'
<1>. DEFINE o == Outcome(w, f, e)
<1>1. /\ o \in Jobs /\ o.pc = "finish" /\ o.inv = work[w].inv /\ o.claim = work[w].claim
      /\ o.current = work[w].current /\ o.found = f /\ o.err = e
  BY OutcomeJob
<1>. HIDE DEF o
<1>2. work'[w] = o /\ row' = row
  BY <1>1, CoreTyped DEF Only, o
<1>3. JobOK(w)'
  BY <1>1, <1>2, DeliveringOK DEF Delivering
<1> QED
  BY <1>1, <1>3, OnlyOK DEF o

LEMMA CallFailsCore ==
  ASSUME Core, NEW w \in Workers, CallFails(w)
  PROVE  Core'
<1>1. work[w].pc \in Delivering
  BY DEF CallFails, Delivering
<1>2. work[w].claim.receipt \in BOOLEAN
  BY CoreTyped DEF Jobs, Claims
<1>3. PICK f \in KeptAfter(w), e \in {"failed", "refused"} : Only(w, Outcome(w, f, e))
  BY DEF CallFails
<1>4. f \in BOOLEAN
  BY <1>2, <1>3 DEF KeptAfter
<1> QED
  BY <1>1, <1>3, <1>4, OutcomeCore

LEMMA LookBeforeSaveCore ==
  ASSUME Core, NEW w \in Workers, LookBeforeSave(w)
  PROVE  Core'
<1>1. work[w].pc = "look" /\ work[w].pc \in Delivering /\ work[w].claim.command # "cancel"
  BY DEF LookBeforeSave, At, Delivering
<1>2. CASE Only(w, Outcome(w, TRUE, "none"))
  BY <1>1, <1>2, OutcomeCore
<1>3. CASE Only(w, [work[w] EXCEPT !.pc = "save"])
  <2>. DEFINE job == [work[w] EXCEPT !.pc = "save"]
  <2>1. job \in Jobs /\ job.pc = "save" /\ job.inv = work[w].inv /\ job.claim = work[w].claim
        /\ job.current = work[w].current
    BY CoreTyped DEF Jobs, Delivering
  <2>. HIDE DEF job
  <2>2. work'[w] = job /\ row' = row
    BY <1>3, <2>1, CoreTyped DEF Only, job
  <2>3. JobOK(w)'
    BY <1>1, <2>1, <2>2, DeliveringOK DEF Delivering
  <2> QED
    BY <1>3, <2>1, <2>3, OnlyOK DEF job
<1> QED
  BY <1>2, <1>3 DEF LookBeforeSave

LEMMA LookBeforeDeleteCore ==
  ASSUME Core, NEW w \in Workers, LookBeforeDelete(w)
  PROVE  Core'
<1>1. work[w].pc = "look" /\ work[w].pc \in Delivering /\ work[w].claim.command = "cancel"
  BY DEF LookBeforeDelete, At, Delivering
<1>2. CASE Only(w, Outcome(w, FALSE, "none"))
  BY <1>1, <1>2, OutcomeCore
<1>3. CASE Only(w, [work[w] EXCEPT !.pc = "delete", !.found = TRUE])
  <2>. DEFINE job == [work[w] EXCEPT !.pc = "delete", !.found = TRUE]
  <2>1. job \in Jobs /\ job.pc = "delete" /\ job.inv = work[w].inv /\ job.claim = work[w].claim
        /\ job.current = work[w].current
    BY CoreTyped DEF Jobs, Delivering
  <2>. HIDE DEF job
  <2>2. work'[w] = job /\ row' = row
    BY <1>3, <2>1, CoreTyped DEF Only, job
  <2>3. JobOK(w)'
    BY <1>1, <2>1, <2>2, DeliveringOK DEF Delivering
  <2> QED
    BY <1>3, <2>1, <2>3, OnlyOK DEF job
<1> QED
  BY <1>2, <1>3 DEF LookBeforeDelete

\* The calendar did as it was asked; its answer is an outcome.
LEMMA AnswersCore ==
  ASSUME Core, NEW w \in Workers, work[w].pc \in Delivering,
         NEW f \in BOOLEAN, NEW heard \in BOOLEAN, Answers(w, f, heard),
         event' \in [Invites -> Slots \cup {None, Gone}], edited' \in Flags,
         UNCHANGED <<row, meeting, episode, host, used, moved, lapsed>>
  PROVE  Core'
<1>. DEFINE o == IF heard THEN Outcome(w, TRUE, "none") ELSE Outcome(w, f, "failed")
<1>1. /\ o \in Jobs /\ o.pc = "finish" /\ o.inv = work[w].inv /\ o.claim = work[w].claim
      /\ o.current = work[w].current /\ (o.err = "none" => o.found)
  <2>1. CASE heard
    BY <2>1, OutcomeJob
  <2>2. CASE ~heard
    BY <2>2, OutcomeJob
  <2> QED
    BY <2>1, <2>2
<1>2. work' = [work EXCEPT ![w] = o]
  BY DEF Answers
<1>. HIDE DEF o
<1>3. work'[w] = o
  BY <1>1, <1>2, CoreTyped
<1>4. JobOK(w)'
  BY <1>1, <1>3, DeliveringOK DEF Delivering
<1>5. work[w].inv \in Invites
  BY CoreTyped DEF JobOK, At, Inv, Delivering
<1>6. lost' \in Flags
  <2>1. (lost[Inv(w)] \/ (~heard /\ ~f /\ lapsed[Inv(w)])) \in BOOLEAN
    OBVIOUS
  <2>2. lost \in Flags
    BY CoreTyped DEF TypeRest
  <2> QED
    BY <1>5, <2>1, <2>2, FlagSet DEF Answers, Inv
<1>7. TypeRest'
  BY <1>6, CoreTyped DEF TypeRest
<1> QED
  BY <1>1, <1>2, <1>4, <1>7, OneWorkerOK, CoreFrom

LEMMA SaveCore ==
  ASSUME Core, NEW w \in Workers, Save(w)
  PROVE  Core'
<1>1. work[w].pc = "save" /\ work[w].pc \in Delivering
  BY DEF Save, At, Delivering
<1>2. work[w].claim.slot \in Slots /\ work[w].inv \in Invites
  BY <1>1, CoreTyped DEF JobOK, At, Inv, Delivering
<1>3. CASE Only(w, Outcome(w, TRUE, "none"))
  BY <1>1, <1>3, OutcomeCore
<1>4. CASE ~Only(w, Outcome(w, TRUE, "none"))
  <2>1. /\ event' = [event EXCEPT ![Inv(w)] = work[w].claim.slot]
        /\ edited' = [edited EXCEPT ![Inv(w)] = FALSE]
        /\ \E heard \in BOOLEAN : Answers(w, FALSE, heard)
        /\ UNCHANGED <<row, meeting, episode, host, used, moved, lapsed>>
    BY <1>4 DEF Save
  <2>2. event' \in [Invites -> Slots \cup {None, Gone}] /\ edited' \in Flags
    BY <1>2, <2>1, CoreTyped, FlagSet DEF TypeRest, Inv
  <2> QED
    BY <1>1, <2>1, <2>2, AnswersCore
<1> QED
  BY <1>3, <1>4

LEMMA DeleteCore ==
  ASSUME Core, NEW w \in Workers, Delete(w)
  PROVE  Core'
<1>1. work[w].pc \in Delivering
  BY DEF Delete, At, Delivering
<1>2. event' \in [Invites -> Slots \cup {None, Gone}] /\ edited' \in Flags
  BY CoreTyped DEF TypeRest, Delete
<1> QED
  BY <1>1, <1>2, AnswersCore DEF Delete

LEMMA FinishFailsCore ==
  ASSUME Core, NEW w \in Workers, FinishFails(w)
  PROVE  Core'
<1>. DEFINE job == [work[w] EXCEPT !.err = "failed"]
<1>1. work[w].pc = "finish" /\ work[w].pc \in Delivering
  BY DEF FinishFails, Finishing, At, Delivering
<1>2. job \in Jobs /\ job.pc = "finish" /\ job.inv = work[w].inv /\ job.claim = work[w].claim
      /\ job.current = work[w].current /\ job.err # "none"
  BY <1>1, CoreTyped DEF Jobs
<1>. HIDE DEF job
<1>3. Only(w, job)
  BY DEF FinishFails, job
<1>4. work'[w] = job /\ row' = row
  BY <1>2, <1>3, CoreTyped DEF Only
<1>5. JobOK(w)'
  BY <1>1, <1>2, <1>4, DeliveringOK DEF Delivering
<1> QED
  BY <1>2, <1>3, <1>5, OnlyOK

\* A row in somebody's hands.
LEMMA InHand ==
  ASSUME Core, NEW w \in Workers, work[w].pc # "idle"
  PROVE  work[w].inv \in Invites /\ row[work[w].inv] \in Rows /\ RowOK(work[w].inv)
         /\ RowType(work[w].inv)
<1>1. work[w].inv \in Invites
  BY CoreTyped DEF JobOK, At, Inv
<1> QED
  BY <1>1, CoreTyped

LEMMA ClaimCore ==
  ASSUME Core, NEW i \in Invites, Claim(i)
  PROVE  Core' /\ Now(i, row[i].status, row[i].command, row[i].slot, row[i].receipt, TRUE, row[i].clean)
<1>. DEFINE r == [row[i] EXCEPT !.attempts = Lesser(@ + 1, MaxAttempts), !.held = TRUE]
<1>. DEFINE job == [Idle EXCEPT !.pc = "look", !.inv = i, !.claim = ClaimOf(row[i]), !.current = TRUE]
<1>1. row \in [Invites -> Rows] /\ row[i] \in Rows /\ TypeRest /\ RowType(i) /\ RowOK(i)
  BY CoreTyped
<1>2. Lesser(row[i].attempts + 1, MaxAttempts) \in 0..MaxAttempts
  BY <1>1, InvitationAssumption DEF Lesser, Rows
<1>3. r \in Rows /\ r.status = row[i].status /\ r.command = row[i].command /\ r.slot = row[i].slot
      /\ r.receipt = row[i].receipt /\ r.held = TRUE /\ r.clean = row[i].clean /\ r.parked = row[i].parked
  BY <1>1, <1>2 DEF Rows
<1>4. /\ Write(i, r) /\ work' = [Outdated({i}) EXCEPT ![0] = job]
      /\ UNCHANGED <<meeting, event, episode, host, used, history>>
  BY DEF Claim
<1>5. 0 \in Workers
  BY InvitationAssumption DEF Workers
<1>6. Due(i)
  BY DEF Claim
<1>. HIDE DEF r
<1>7. Says(i, r) /\ OthersSame(i)
  BY <1>3, <1>4, WrittenSays
<1>8. RowOK(i)' /\ RowType(i)'
  BY <1>1, <1>3, <1>4, <1>6, <1>7 DEF RowOK, RowType, Says, Due, Queued, PendingFor
<1>9. /\ row' \in [Invites -> Rows]
      /\ \A j \in Invites \ {i} : RowKept(j) /\ RowOK(j)' /\ RowType(j)'
  BY <1>3, <1>4, OthersKept
<1>10. job \in Jobs /\ job.pc = "look" /\ job.inv = i /\ job.claim = ClaimOf(row[i])
  BY <1>1, IdleJob, Copied DEF Jobs, Delivering
<1>. HIDE DEF job
<1>11. work \in [Workers -> Jobs] /\ \A w \in Workers : JobOK(w)
  BY CoreTyped
<1>12. Outdated({i}) \in [Workers -> Jobs]
  BY <1>11, OutdatedKeeps
<1>13. JobOK(0)'
  <2>1. work'[0] = job
    BY <1>4, <1>5, <1>12
  <2>2. /\ job.claim.status = row[i].status /\ job.claim.command = row[i].command
        /\ job.claim.slot = row[i].slot
    BY <1>10 DEF ClaimOf
  <2> QED
    BY <1>1, <1>3, <1>6, <1>7, <1>10, <2>1, <2>2
    DEF JobOK, RowOK, Says, At, Inv, Delivering, Due, Queued, PendingFor
<1>14. ASSUME NEW w \in Workers, w # 0 PROVE JobOK(w)'
  <2>1. work'[w] = Outdated({i})[w]
    BY <1>4, <1>12, <1>14
  <2>2. JobKept(w) /\ (work'[w].current => Inv(w) # i)
    BY <1>11, <2>1, OutdatedKeeps DEF JobKept
  <2> QED
    BY <1>9, <1>11, <2>2, JobKeptOK DEF Inv
<1>15. TypeRest'
  BY <1>1, <1>4 DEF TypeRest, history
<1>16. work' \in [Workers -> Jobs]
  BY <1>4, <1>10, <1>12
<1>17. Now(i, row[i].status, row[i].command, row[i].slot, row[i].receipt, TRUE, row[i].clean)
  BY <1>3, <1>7 DEF Says, Now
<1> QED
  BY <1>8, <1>9, <1>13, <1>14, <1>15, <1>16, <1>17, CoreFrom


\* A worker drops its outcome, or a pass ends: nobody else notices.
LEMMA DoneCore ==
  ASSUME Core, NEW w \in Workers, work' = [work EXCEPT ![w] = Idle],
         UNCHANGED <<row, meeting>>, TypeRest'
  PROVE  Core'
<1>1. work'[w] = Idle
  BY CoreTyped
<1> QED
  BY <1>1, IdleOK, IdleJob, OneWorkerOK, CoreFrom

LEMMA FinishErasedCore ==
  ASSUME Core, NEW w \in Workers, FinishErased(w)
  PROVE  /\ Core'
         /\ row[Inv(w)].status = "erased"
         /\ \E b, c \in BOOLEAN :
               /\ b <=> (row[Inv(w)].receipt \/ work[w].found)
               /\ c <=> (work[w].claim.status = "erased" /\ work[w].err = "none")
               /\ Now(Inv(w), "erased", row[Inv(w)].command, row[Inv(w)].slot, b, FALSE, c)
<1>0. work[w].pc # "idle"
  BY DEF FinishErased, Finishing, At
<1>i. PICK i \in Invites : i = work[w].inv
  BY <1>0, InHand
<1>. DEFINE r == CleanedUp(row[i], work[w])
<1>1. i \in Invites /\ row[i] \in Rows /\ RowOK(i) /\ RowType(i)
  BY <1>0, <1>i, InHand DEF FinishErased, Finishing, At
<1>2. row[i].status = "erased" /\ row' = [row EXCEPT ![i] = r] /\ work' = [work EXCEPT ![w] = Idle]
      /\ UNCHANGED <<meeting, event, episode, host, used, history>>
  BY <1>i DEF FinishErased, Inv
<1>3. PICK b, c \in BOOLEAN :
         /\ r = [row[i] EXCEPT !.receipt = b, !.held = FALSE, !.clean = c]
         /\ b <=> (row[i].receipt \/ work[w].found)
         /\ c <=> (work[w].claim.status = "erased" /\ work[w].err = "none")
  <2>1. (row[i].receipt \/ work[w].found) \in BOOLEAN
        /\ (work[w].claim.status = "erased" /\ work[w].err = "none") \in BOOLEAN
    OBVIOUS
  <2> QED
    BY <2>1, Zenon DEF CleanedUp
<1>4. r \in Rows /\ r.status = "erased" /\ r.command = row[i].command /\ r.slot = row[i].slot
      /\ r.held = FALSE /\ r.parked = row[i].parked /\ r.receipt = b /\ r.clean = c
  BY <1>1, <1>2, <1>3 DEF Rows
<1>. HIDE DEF r
<1>5. row \in [Invites -> Rows] /\ work \in [Workers -> Jobs]
      /\ (\A j \in Invites : RowOK(j) /\ RowType(j)) /\ \A v \in Workers : JobOK(v)
  BY CoreTyped
<1>6. row'[i] = r /\ row' \in [Invites -> Rows]
  BY <1>1, <1>2, <1>4, <1>5
<1>7. ASSUME NEW j \in Invites PROVE RowOK(j)' /\ RowType(j)'
  <2>1. CASE j = i
    BY <1>1, <1>2, <1>4, <1>6, <2>1 DEF RowOK, RowType, Queued, PendingFor
  <2>2. CASE j # i
    BY <1>2, <1>5, <2>2, RowKeptOK, RowKeptType DEF RowKept
  <2> QED
    BY <2>1, <2>2
<1>8. ASSUME NEW v \in Workers PROVE JobOK(v)'
  <2>1. CASE v = w
    BY <1>2, <1>5, <2>1, IdleOK
  <2>2. CASE v # w
    <3>1. work'[v] = work[v]
      BY <1>2, <1>5, <2>2
    <3>2. \A j \in Invites : row'[j].status = row[j].status /\ row'[j].command = row[j].command
                             /\ row'[j].slot = row[j].slot
      BY <1>1, <1>2, <1>4, <1>5, <1>6
    <3> QED
      BY <1>5, <3>1, <3>2 DEF JobOK, At, Inv, Delivering, Queued
  <2> QED
    BY <2>1, <2>2
<1>9. TypeRest'
  BY <1>2, CoreTyped DEF TypeRest, history
<1>10. work' \in [Workers -> Jobs]
  BY <1>2, <1>5, IdleJob
<1>11. Now(i, "erased", row[i].command, row[i].slot, b, FALSE, c)
  BY <1>1, <1>2, <1>4, <1>5, <1>6 DEF Now, OthersSame
<1>12. i = Inv(w)
  BY <1>i DEF Inv
<1>13. Core'
  BY <1>6, <1>7, <1>8, <1>9, <1>10, CoreFrom
<1> QED
  BY <1>2, <1>3, <1>11, <1>12, <1>13


LEMMA FinishSupersededCore ==
  ASSUME Core, NEW w \in Workers, FinishSuperseded(w)
  PROVE  /\ Core'
         /\ \/ work' = [work EXCEPT ![w] = Idle] /\ UNCHANGED row
            \/ /\ row[Inv(w)].command = "cancel" /\ work[w].claim.command # "cancel" /\ work[w].found
               /\ Now(Inv(w), "canceling", "cancel", row[Inv(w)].slot, TRUE, FALSE, row[Inv(w)].clean)
<1>0. work[w].pc # "idle"
  BY DEF FinishSuperseded, Finishing, At
<1>i. PICK i \in Invites : i = work[w].inv
  BY <1>0, InHand
<1>. DEFINE r == Reopened(row[i])
<1>1. i \in Invites /\ row[i] \in Rows /\ RowOK(i) /\ RowType(i)
  BY <1>0, <1>i, InHand DEF FinishSuperseded, Finishing, At
<1>2. UNCHANGED <<meeting, event, episode, host, used, history>> /\ row[i].status # "erased"
  BY <1>i DEF FinishSuperseded, Inv
<1>3. TypeRest'
  BY <1>2, CoreTyped DEF TypeRest, history
<1>12. i = Inv(w)
  BY <1>i DEF Inv
<1>4. CASE /\ row[i].command = "cancel" /\ work[w].claim.command # "cancel" /\ work[w].found
           /\ Finished(w, r)
  <2>0. 0 \in 0..MaxAttempts
    BY InvitationAssumption
  <2>1. r \in Rows /\ r.status = "canceling" /\ r.command = "cancel" /\ r.held = FALSE /\ r.slot = row[i].slot /\ r.receipt = TRUE
        /\ r.clean = row[i].clean
    BY <1>1, <1>4, <2>0 DEF Rows, Reopened, Statuses, Queued
  <2>2. Write(i, r)
    BY <1>i, <1>4 DEF Finished, Inv
  <2>. HIDE DEF r
  <2>3. Says(i, r) /\ OthersSame(i)
    BY <1>1, <2>1, <2>2, WrittenSays
  <2>4. RowOK(i)' /\ RowType(i)'
    BY <1>1, <1>2, <2>1, <2>3 DEF RowOK, RowType, Says, Queued, PendingFor
  <2>5. Now(i, "canceling", "cancel", row[i].slot, TRUE, FALSE, row[i].clean)
    BY <2>1, <2>3 DEF Says, Now
  <2>6. Core'
    BY <1>i, <1>1, <1>2, <1>3, <1>4, <2>1, <2>4, FinishedOK DEF Inv
  <2> QED
    BY <1>4, <1>12, <2>5, <2>6
<1>5. CASE work' = [work EXCEPT ![w] = Idle] /\ UNCHANGED row
  BY <1>2, <1>3, <1>5, DoneCore
<1> QED
  BY <1>i, <1>4, <1>5 DEF FinishSuperseded, Inv

LEMMA PostponeCore ==
  ASSUME Core, NEW w \in Workers, Postpone(w)
  PROVE  /\ Core' /\ row[Inv(w)].status \in Queued /\ row'[Inv(w)].parked = 0
         /\ \E s \in {row[Inv(w)].status, "needs_attention"} :
               Now(Inv(w), s, row[Inv(w)].command, row[Inv(w)].slot, row[Inv(w)].receipt, FALSE,
                   row[Inv(w)].clean)
<1>0. work[w].pc # "idle"
  BY DEF Postpone, Stands, Finishing, At
<1>i. PICK i \in Invites : i = work[w].inv
  BY <1>0, InHand
<1>. DEFINE s == IF Exhausted(row[i]) THEN "needs_attention" ELSE row[i].status
<1>. DEFINE r == [row[i] EXCEPT !.held = FALSE, !.status = s]
<1>1. i \in Invites /\ row[i] \in Rows /\ RowOK(i) /\ RowType(i) /\ JobOK(w)
  BY <1>0, <1>i, InHand, CoreTyped DEF Postpone, Stands, Finishing, At
<1>2. Finished(w, r) /\ UNCHANGED <<meeting, event, episode, host, used, history>>
  BY <1>i DEF Postpone, Inv
<1>3. row[i].status \in Queued
  BY <1>i, <1>1 DEF Postpone, Stands, Finishing, At, JobOK, Delivering, Inv
<1>4. s \in {row[i].status, "needs_attention"}
  OBVIOUS
<1>. HIDE DEF s
<1>5. r \in Rows /\ r.status = s /\ r.command = row[i].command /\ r.slot = row[i].slot /\ r.held = FALSE
      /\ r.clean = row[i].clean /\ r.parked = row[i].parked /\ r.receipt = row[i].receipt
  BY <1>1, <1>4 DEF Rows, Statuses
<1>. HIDE DEF r
<1>6. Says(i, r) /\ OthersSame(i)
  BY <1>i, <1>1, <1>2, <1>5, WrittenSays DEF Finished, Inv
<1>7. RowOK(i)' /\ RowType(i)'
  BY <1>1, <1>2, <1>3, <1>4, <1>5, <1>6 DEF RowOK, RowType, Says, Queued, PendingFor
<1>8. TypeRest'
  BY <1>2, CoreTyped DEF TypeRest, history
<1>9. Now(i, s, row[i].command, row[i].slot, row[i].receipt, FALSE, row[i].clean)
  BY <1>5, <1>6 DEF Says, Now
<1>10. i = Inv(w)
  BY <1>i DEF Inv
<1>11. row'[i].parked = 0
  BY <1>1, <1>3, <1>5, <1>6 DEF Says, RowType, Queued
<1>12. Core'
  BY <1>i, <1>1, <1>2, <1>5, <1>7, <1>8, FinishedOK DEF Inv
<1> QED
  BY <1>3, <1>4, <1>9, <1>10, <1>11, <1>12


LEMMA SettleCore ==
  ASSUME Core, NEW w \in Workers, Settle(w)
  PROVE  /\ Core' /\ row[Inv(w)].status \in Queued
         /\ Now(Inv(w), IF row[Inv(w)].command = "cancel" THEN "canceled" ELSE "confirmed",
                row[Inv(w)].command, row[Inv(w)].slot, work[w].found, FALSE, row[Inv(w)].clean)
<1>. DEFINE f == work[w].found
<1>0. work[w].pc # "idle"
  BY DEF Settle, Stands, Finishing, At
<1>i. PICK i \in Invites : i = work[w].inv
  BY <1>0, InHand
<1>. DEFINE s == IF row[i].command = "cancel" THEN "canceled" ELSE "confirmed"
<1>. DEFINE r == [row[i] EXCEPT !.receipt = f, !.held = FALSE, !.status = s]
<1>1. i \in Invites /\ row[i] \in Rows /\ RowOK(i) /\ RowType(i) /\ JobOK(w)
  BY <1>0, <1>i, InHand, CoreTyped
<1>2. /\ Finished(w, r) /\ meeting' = [meeting EXCEPT ![i] = Settled(i)]
      /\ moved' = [moved EXCEPT ![i] = @ /\ meeting[i] = Settled(i)]
      /\ UNCHANGED <<event, episode, host, used, edited, lapsed, lost>>
  BY <1>i DEF Settle, Inv
<1>3. work[w].claim.status \in Queued \cup {"erased"} /\ row[i].status \in Queued
      /\ row[i].command = work[w].claim.command
  BY <1>i, <1>1 DEF Settle, Stands, Finishing, At, JobOK, Delivering, Inv
<1>4. f \in BOOLEAN /\ s \in {"canceled", "confirmed"}
  BY CoreTyped DEF Jobs
<1>5. r \in Rows /\ r.status = s /\ r.command = row[i].command /\ r.slot = row[i].slot /\ r.held = FALSE
      /\ r.clean = row[i].clean /\ r.receipt = f
  BY <1>1, <1>4 DEF Rows, Statuses
<1>. HIDE DEF r
<1>6. Says(i, r) /\ OthersSame(i)
  BY <1>i, <1>1, <1>2, <1>5, WrittenSays DEF Finished, Inv
<1>7. row[i].command # "cancel" => row[i].slot \in Slots
  BY <1>1, <1>3 DEF RowOK, Queued
<1>8. Settled(i) \in Slots \cup {None} /\ (row[i].command = "cancel" => Settled(i) = None)
      /\ (row[i].command # "cancel" => Settled(i) = row[i].slot)
  BY <1>7 DEF Settled
<1>9. /\ meeting'[i] = Settled(i) /\ \A j \in Invites \ {i} : meeting'[j] = meeting[j]
      /\ meeting' \in [Invites -> Slots \cup {None}]
  BY <1>2, <1>8, CoreTyped DEF TypeRest
<1>10. moved' \in Flags
  <2>1. (moved[i] /\ meeting[i] = Settled(i)) \in BOOLEAN
    OBVIOUS
  <2> QED
    BY <1>2, <2>1, FlagSet, CoreTyped DEF TypeRest
<1>11. TypeRest'
  BY <1>2, <1>9, <1>10, CoreTyped DEF TypeRest
<1>12. f \/ row[i].command = "cancel"
  BY <1>1, <1>3 DEF Settle, Stands, Finishing, JobOK
<1>13. RowOK(i)' /\ RowType(i)'
  BY <1>1, <1>3, <1>4, <1>5, <1>6, <1>7, <1>8, <1>9, <1>12 DEF RowOK, RowType, Says, Queued, PendingFor
<1>14. Now(i, s, row[i].command, row[i].slot, f, FALSE, row[i].clean)
  BY <1>5, <1>6 DEF Says, Now
<1>15. i = Inv(w)
  BY <1>i DEF Inv
<1>16. Core'
  BY <1>i, <1>1, <1>2, <1>5, <1>9, <1>11, <1>13, FinishedOK DEF Inv
<1> QED
  BY <1>3, <1>14, <1>15, <1>16


\* What a row says once it is parked, and once it is resumed.
PutAside(j, n) ==
    /\ row[j].status \in Queued
    /\ row'[j].status = "needs_attention" /\ row'[j].command = row[j].command
    /\ row'[j].slot = row[j].slot /\ row'[j].receipt = row[j].receipt
    /\ row'[j].held = FALSE /\ row'[j].clean = row[j].clean /\ row'[j].parked = n

SentOn(j) ==
    /\ Parked(row[j])
    /\ row'[j].status = PendingFor(row[j].command) /\ row'[j].status \in Queued
    /\ row'[j].command = row[j].command
    /\ row'[j].slot = row[j].slot /\ row'[j].receipt = row[j].receipt
    /\ row'[j].held = row[j].held /\ row'[j].clean = row[j].clean /\ row'[j].parked = 0

LEMMA ParkCore ==
  ASSUME Core, NEW w \in Workers, Park(w)
  PROVE  /\ Core'
         /\ \A j \in {Inv(w)} \cup Waiting(Inv(w)) : PutAside(j, Current)
         /\ \A j \in Invites \ ({Inv(w)} \cup Waiting(Inv(w))) : row'[j] = row[j]
<1>0. work[w].pc # "idle"
  BY DEF Park, Stands, Finishing, At
<1>i. PICK i \in Invites : i = work[w].inv
  BY <1>0, InHand
<1>. DEFINE S == {i} \cup Waiting(i)
<1>. DEFINE p(j) == [row[j] EXCEPT !.status = "needs_attention", !.parked = Current, !.held = FALSE]
<1>1. /\ row' = [j \in Invites |-> IF j \in S THEN FollowsStatus(p(j)) ELSE row[j]]
      /\ work' = [Outdated(S) EXCEPT ![w] = Idle]
      /\ episode' = [n |-> Current, open |-> TRUE]
      /\ host' = [host EXCEPT !.granted = @ /\ episode.open]
      /\ UNCHANGED <<meeting, event, used, history>>
  BY <1>i DEF Park, Inv
<1>2. /\ row \in [Invites -> Rows] /\ TypeRest
      /\ (\A j \in Invites : RowType(j) /\ RowOK(j)) /\ JobOK(w)
  BY CoreTyped
<1>3. Current \in Nat
  BY <1>2 DEF TypeRest, Current
<1>4. \A j \in S : row[j].status \in Queued
  <2>1. row[i].status \in Queued
    BY <1>i, <1>2 DEF Park, Stands, Finishing, At, JobOK, Delivering, Inv
  <2> QED
    BY <2>1 DEF Waiting
<1>5. ASSUME NEW j \in S
      PROVE  /\ j \in Invites /\ row'[j] \in Rows /\ row'[j].status = "needs_attention"
             /\ row'[j].command = row[j].command /\ row'[j].slot = row[j].slot
             /\ row'[j].held = FALSE /\ row'[j].clean = row[j].clean
             /\ row'[j].receipt = row[j].receipt /\ row'[j].parked = Current
  <2>1. j \in Invites
    BY DEF Waiting
  <2>2. p(j) \in Rows /\ p(j).status = "needs_attention" /\ p(j).command = row[j].command
        /\ p(j).slot = row[j].slot /\ p(j).held = FALSE /\ p(j).receipt = row[j].receipt
        /\ p(j).parked = Current /\ p(j).clean = row[j].clean
    BY <1>2, <1>3, <2>1 DEF Rows, Statuses
  <2>3. row'[j] = FollowsStatus(p(j))
    BY <1>1, <2>1
  <2>. HIDE DEF p
  <2> QED
    BY <2>1, <2>2, <2>3, Followed
<1>6. ASSUME NEW j \in Invites \ S PROVE row'[j] = row[j]
  BY <1>1, <1>6
<1>7. row' \in [Invites -> Rows]
  <2>1. \A j \in Invites : row'[j] \in Rows
    BY <1>2, <1>5, <1>6
  <2> QED
    BY <1>1, <2>1
<1>. HIDE DEF p, S
<1>8. meeting' = meeting
  BY <1>1
<1>9. ASSUME NEW j \in Invites PROVE RowOK(j)' /\ RowType(j)'
  <2>1. CASE j \in S
    BY <1>2, <1>4, <1>5, <1>8, <2>1 DEF RowOK, RowType, Queued, PendingFor
  <2>2. CASE j \notin S
    BY <1>2, <1>6, <1>8, <2>2, RowKeptOK, RowKeptType DEF RowKept
  <2> QED
    BY <2>1, <2>2
<1>10. \A j \in Invites \ S : RowKept(j)
  BY <1>6, <1>8 DEF RowKept
<1>11. work' \in [Workers -> Jobs] /\ \A v \in Workers : JobOK(v)'
  BY <1>1, <1>10, OutdatedIdleOK
<1>12. TypeRest'
  <2>1. host' \in [accepts : BOOLEAN, granted : BOOLEAN, outages : Nat]
    <3>1. (host.granted /\ episode.open) \in BOOLEAN
      OBVIOUS
    <3> QED
      BY <1>1, <1>2, <3>1 DEF TypeRest
  <2> QED
    BY <1>1, <1>2, <1>3, <2>1 DEF TypeRest, history
<1>13. \A j \in S : PutAside(j, Current)
  BY <1>4, <1>5 DEF PutAside
<1>14. S = {Inv(w)} \cup Waiting(Inv(w))
  BY <1>i DEF Inv, S
<1>15. Core'
  BY <1>7, <1>9, <1>11, <1>12, CoreFrom
<1> QED
  BY <1>6, <1>13, <1>14, <1>15

LEMMA CrashCore ==
  ASSUME Core, NEW w \in Workers, Crash(w)
  PROVE  Core'
<1>1. work[w].inv \in Invites
  BY InHand DEF Crash, Delivering
<1>2. /\ work' = [work EXCEPT ![w] = Idle]
      /\ UNCHANGED <<row, meeting, event, episode, host, moved, edited, lapsed>>
  BY DEF Crash
<1>3. lost' \in Flags
  <2>. DEFINE b == lost[Inv(w)] \/ (Finishing(w) /\ work[w].found
                     /\ work[w].claim.command # "cancel" /\ lapsed[Inv(w)])
  <2>1. b \in BOOLEAN
    OBVIOUS
  <2>2. lost' = [lost EXCEPT ![Inv(w)] = b]
    BY DEF Crash
  <2>. HIDE DEF b
  <2> QED
    BY <1>1, <2>1, <2>2, FlagSet, CoreTyped DEF TypeRest, Inv
<1>4. TypeRest'
  BY <1>2, <1>3, CoreTyped DEF TypeRest, Crash, SpendFault
<1> QED
  BY <1>2, <1>4, DoneCore

LEMMA StallCore ==
  ASSUME Core, Stall
  PROVE  Core'
<1>1. PICK v \in Workers \ {0} : work' = [work EXCEPT ![v] = work[0], ![0] = Idle]
  BY DEF Stall
<1>2. UNCHANGED <<row, meeting, event, episode, host, history>>
  BY DEF Stall
<1>3. /\ row \in [Invites -> Rows] /\ work \in [Workers -> Jobs] /\ TypeRest
      /\ (\A j \in Invites : RowType(j) /\ RowOK(j)) /\ \A w \in Workers : JobOK(w)
  BY CoreTyped
<1>4. 0 \in Workers
  BY InvitationAssumption DEF Workers
<1>5. \A j \in Invites : RowKept(j)
  BY <1>2 DEF RowKept
<1>6. \A j \in Invites : RowOK(j)' /\ RowType(j)'
  BY <1>3, <1>5, RowKeptOK, RowKeptType
<1>7. /\ work'[v] = work[0] /\ work'[0] = Idle
      /\ \A w \in Workers \ {0, v} : work'[w] = work[w]
      /\ work' \in [Workers -> Jobs]
  BY <1>1, <1>3, <1>4, IdleJob
<1>8. ASSUME NEW w \in Workers PROVE JobOK(w)'
  <2>1. CASE w = 0
    BY <1>7, <2>1, IdleOK
  <2>2. CASE w = v
    BY <1>2, <1>3, <1>4, <1>7, <2>2 DEF JobOK, At, Inv
  <2>3. CASE w \notin {0, v}
    BY <1>2, <1>3, <1>7, <2>3 DEF JobOK, At, Inv
  <2> QED
    BY <2>1, <2>2, <2>3
<1>9. TypeRest'
  BY <1>2, <1>3 DEF TypeRest, history, Stall, SpendFault
<1> QED
  BY <1>2, <1>3, <1>6, <1>7, <1>8, <1>9, CoreFrom

LEMMA LapseCore ==
  ASSUME Core, NEW i \in Invites, Lapse(i)
  PROVE  Core'
<1>1. /\ row' = [row EXCEPT ![i].held = FALSE] /\ lapsed' = [lapsed EXCEPT ![i] = @ \/ Busy(i)]
      /\ UNCHANGED <<meeting, event, work, episode, host, used, moved, edited, lost>>
  BY DEF Lapse
<1>2. /\ row \in [Invites -> Rows] /\ work \in [Workers -> Jobs] /\ TypeRest
      /\ (\A j \in Invites : RowType(j) /\ RowOK(j)) /\ \A w \in Workers : JobOK(w)
  BY CoreTyped
<1>3. row' \in [Invites -> Rows] /\ \A j \in Invites : RowKept(j)
  BY <1>1, <1>2 DEF RowKept, Rows
<1>4. \A j \in Invites : RowOK(j)' /\ RowType(j)'
  BY <1>2, <1>3, RowKeptOK, RowKeptType
<1>5. \A w \in Workers : JobOK(w)'
  BY <1>1, <1>2, <1>3, JobKeptOK DEF JobKept
<1>6. TypeRest'
  <2>1. (lapsed[i] \/ Busy(i)) \in BOOLEAN
    OBVIOUS
  <2>2. lapsed' \in Flags
    BY <1>1, <1>2, <2>1, FlagSet DEF TypeRest
  <2> QED
    BY <1>1, <1>2, <2>2 DEF TypeRest
<1> QED
  BY <1>1, <1>2, <1>3, <1>4, <1>5, <1>6, CoreFrom

-----------------------------------------------------------------------------
(***************************************************************************)
(* And what comes back from the calendar.                                  *)
(***************************************************************************)
LEMMA SeenJob ==
  ASSUME Core, NEW i \in Invites,
         NEW pc \in {"import", "warn"}, NEW seen \in Slots \cup {None, Gone}
  PROVE  LET job == [Idle EXCEPT !.pc = pc, !.inv = i, !.claim = ClaimOf(row[i]),
                                 !.current = TRUE, !.seen = seen]
         IN  job \in Jobs /\ job.pc = pc /\ job.inv = i
  BY IdleJob, Copied, CoreTyped DEF Jobs, Delivering

LEMMA WatchCore ==
  ASSUME Core, NEW i \in Invites, Watch(i)
  PROVE  Core'
<1>. DEFINE seen == [Idle EXCEPT !.inv = i, !.claim = ClaimOf(row[i]), !.current = TRUE]
<1>1. row[i].status = "confirmed" /\ 0 \in Workers
  BY InvitationAssumption DEF Watch, Workers
<1>2. event[i] \in Slots \cup {None, Gone} /\ row[i] \in Rows /\ work \in [Workers -> Jobs]
  BY CoreTyped DEF TypeRest
<1>3. ASSUME NEW job \in Jobs, Only(0, job), job.pc \in {"import", "warn"}, job.inv = i
      PROVE  Core'
  <2>1. work'[0] = job /\ row' = row
    BY <1>1, <1>2, <1>3 DEF Only
  <2>2. JobOK(0)'
    BY <1>1, <1>3, <2>1 DEF JobOK, At, Inv, Delivering
  <2> QED
    BY <1>1, <1>3, <2>2, OnlyOK
<1>4. CASE Only(0, [seen EXCEPT !.pc = "import", !.seen = event[i]])
  <2>. DEFINE job == [seen EXCEPT !.pc = "import", !.seen = event[i]]
  <2>1. job \in Jobs /\ job.pc = "import" /\ job.inv = i
    BY <1>2, IdleJob, Copied DEF Jobs, Delivering
  <2>. HIDE DEF job
  <2> QED
    BY <1>3, <1>4, <2>1 DEF job
<1>5. CASE Only(0, [seen EXCEPT !.pc = "warn"])
  <2>. DEFINE job == [seen EXCEPT !.pc = "warn"]
  <2>1. job \in Jobs /\ job.pc = "warn" /\ job.inv = i
    BY <1>2, IdleJob, Copied DEF Jobs, Delivering
  <2>. HIDE DEF job
  <2> QED
    BY <1>3, <1>5, <2>1 DEF job
<1> QED
  BY <1>4, <1>5 DEF Watch

LEMMA ImportCore ==
  ASSUME Core, NEW w \in Workers, Import(w)
  PROVE  /\ Core'
         /\ work[w].current => row[Inv(w)].status = "confirmed"
         /\ work[w].current =>
              Now(Inv(w), IF work[w].seen \in Slots THEN "confirmed" ELSE "canceled", row[Inv(w)].command,
                      IF work[w].seen \in Slots THEN work[w].seen ELSE row[Inv(w)].slot,
                      row[Inv(w)].receipt, row[Inv(w)].held, row[Inv(w)].clean)
<1>0. work[w].pc = "import"
  BY DEF Import, At
<1>i. PICK i \in Invites : i = work[w].inv
  BY <1>0, InHand
<1>. DEFINE seen == work[w].seen
<1>1. row[i] \in Rows /\ RowOK(i) /\ RowType(i) /\ JobOK(w) /\ TypeRest /\ seen \in Slots \cup {None, Gone}
  BY CoreTyped DEF Jobs
<1>2. UNCHANGED <<event, episode, host, used, lapsed, lost>>
  BY DEF Import
<1>3. CASE ~work[w].current
  <2>1. work' = [work EXCEPT ![w] = Idle] /\ UNCHANGED <<row, meeting, moved, edited>>
    BY <1>3 DEF Import, StillAsSeen
  <2> QED
    BY <1>1, <1>2, <1>3, <2>1, DoneCore DEF TypeRest
<1>4. CASE work[w].current
  <2>. DEFINE m == IF seen \in Slots THEN seen ELSE None
  <2>. DEFINE r == IF seen \in Slots THEN [row[i] EXCEPT !.slot = seen]
                                      ELSE [row[i] EXCEPT !.status = "canceled"]
  <2>1. /\ Finished(w, r) /\ meeting' = [meeting EXCEPT ![i] = m]
        /\ moved' = [moved EXCEPT ![i] = TRUE] /\ edited' = [edited EXCEPT ![i] = event[i] # seen]
    BY <1>i, <1>4 DEF Import, StillAsSeen, Inv
  <2>2. row[i].status = "confirmed"
    BY <1>i, <1>0, <1>1, <1>4 DEF JobOK, Inv
  <2>3. /\ r \in Rows /\ r.command = row[i].command /\ r.held = row[i].held /\ r.clean = row[i].clean
        /\ r.receipt = row[i].receipt
        /\ (seen \in Slots => r.status = "confirmed" /\ r.slot = seen)
        /\ (seen \notin Slots => r.status = "canceled" /\ r.slot = row[i].slot)
    BY <1>1, <2>2 DEF Rows, Statuses
  <2>4. Write(i, r)
    BY <1>i, <2>1 DEF Finished, Inv
  <2>. HIDE DEF r
  <2>5. Says(i, r) /\ OthersSame(i)
    BY <2>3, <2>4, WrittenSays
  <2>6. /\ meeting'[i] = m /\ (\A j \in Invites \ {i} : meeting'[j] = meeting[j])
        /\ meeting' \in [Invites -> Slots \cup {None}]
    BY <1>1, <2>1 DEF TypeRest
  <2>7. (event[i] # seen) \in BOOLEAN
    OBVIOUS
  <2>8. TypeRest'
    BY <1>1, <1>2, <2>1, <2>6, <2>7, FlagSet DEF TypeRest
  <2>9. RowOK(i)' /\ RowType(i)'
    BY <1>1, <2>2, <2>3, <2>5, <2>6 DEF RowOK, RowType, Says, Queued, PendingFor
  <2>10. Now(i, IF seen \in Slots THEN "confirmed" ELSE "canceled", row[i].command,
              IF seen \in Slots THEN seen ELSE row[i].slot, row[i].receipt, row[i].held, row[i].clean)
    BY <2>3, <2>5 DEF Says, Now
  <2>11. Core'
    BY <1>i, <1>1, <2>1, <2>3, <2>6, <2>8, <2>9, FinishedOK DEF Inv
  <2>12. i = Inv(w)
    BY <1>i DEF Inv
  <2> QED
    BY <2>2, <2>10, <2>11, <2>12
<1> QED
  BY <1>3, <1>4

LEMMA WarnCore ==
  ASSUME Core, NEW w \in Workers, Warn(w)
  PROVE  /\ Core'
         /\ work[w].current => row[Inv(w)].status = "confirmed" /\ row'[Inv(w)].parked = 0
         /\ work[w].current =>
              Now(Inv(w), "needs_attention", row[Inv(w)].command, row[Inv(w)].slot,
                  row[Inv(w)].receipt, row[Inv(w)].held, row[Inv(w)].clean)
<1>0. work[w].pc = "warn"
  BY DEF Warn, At
<1>i. PICK i \in Invites : i = work[w].inv
  BY <1>0, InHand
<1>. DEFINE r == [row[i] EXCEPT !.status = "needs_attention"]
<1>1. row[i] \in Rows /\ RowOK(i) /\ RowType(i) /\ JobOK(w) /\ TypeRest
  BY CoreTyped
<1>2. UNCHANGED <<meeting, event, episode, host, used, history>>
  BY DEF Warn
<1>3. TypeRest'
  BY <1>1, <1>2 DEF TypeRest, history
<1>4. CASE ~work[w].current
  BY <1>2, <1>3, <1>4, DoneCore DEF Warn
<1>5. CASE work[w].current
  <2>1. Finished(w, r)
    BY <1>i, <1>5 DEF Warn, Inv
  <2>2. row[i].status = "confirmed"
    BY <1>i, <1>0, <1>1, <1>5 DEF JobOK, Inv
  <2>3. r \in Rows /\ r.status = "needs_attention" /\ r.command = row[i].command
        /\ r.slot = row[i].slot /\ r.held = row[i].held /\ r.clean = row[i].clean
        /\ r.parked = row[i].parked /\ r.receipt = row[i].receipt
    BY <1>1 DEF Rows, Statuses
  <2>4. Write(i, r)
    BY <1>i, <2>1 DEF Finished, Inv
  <2>. HIDE DEF r
  <2>5. Says(i, r) /\ OthersSame(i)
    BY <2>3, <2>4, WrittenSays
  <2>6. RowOK(i)' /\ RowType(i)'
    BY <1>1, <1>2, <2>2, <2>3, <2>5 DEF RowOK, RowType, Says, Queued, PendingFor
  <2>7. Now(i, "needs_attention", row[i].command, row[i].slot, row[i].receipt, row[i].held, row[i].clean)
    BY <2>3, <2>5 DEF Says, Now
  <2>8. row'[i].parked = 0
    BY <1>1, <2>2, <2>3, <2>5 DEF Says, RowType
  <2>9. Core'
    BY <1>i, <1>1, <1>2, <1>3, <2>1, <2>3, <2>6, FinishedOK DEF Inv
  <2>10. i = Inv(w)
    BY <1>i DEF Inv
  <2> QED
    BY <2>2, <2>7, <2>8, <2>9, <2>10
<1> QED
  BY <1>4, <1>5

LEMMA ResumeCore ==
  ASSUME Core, Resume
  PROVE  /\ Core'
         /\ \A j \in Invites : IF Parked(row[j]) THEN SentOn(j) ELSE row'[j] = row[j]
         /\ \A w \in Workers :
               JobKept(w) /\ (work'[w].current => Inv(w) \notin {j \in Invites : Parked(row[j])})
<1>. DEFINE S == {i \in Invites : Parked(row[i])}
<1>. DEFINE r(j) == [row[j] EXCEPT !.status = PendingFor(row[j].command), !.attempts = 0]
<1>1. /\ row' = [i \in Invites |-> IF Parked(row[i]) THEN FollowsStatus(r(i)) ELSE row[i]]
      /\ work' = [w \in Workers |->
              [Outdated(S)[w] EXCEPT !.late = @ \/ work[w].pc \in Delivering]]
      /\ episode' = [episode EXCEPT !.open = FALSE]
      /\ host' = [host EXCEPT !.granted = FALSE]
      /\ UNCHANGED <<meeting, event, used, history>>
  BY DEF Resume
<1>2. /\ row \in [Invites -> Rows] /\ work \in [Workers -> Jobs] /\ TypeRest
      /\ (\A j \in Invites : RowType(j) /\ RowOK(j)) /\ \A w \in Workers : JobOK(w)
  BY CoreTyped
<1>3. ASSUME NEW j \in S
      PROVE  /\ j \in Invites /\ row'[j] \in Rows /\ row'[j].status = PendingFor(row[j].command)
             /\ row'[j].command = row[j].command /\ row'[j].slot = row[j].slot
             /\ row'[j].held = row[j].held /\ row'[j].clean = row[j].clean
             /\ row'[j].parked = 0 /\ row[j].status = "needs_attention"
             /\ row'[j].status \in Queued /\ row'[j].receipt = row[j].receipt
  <2>1. j \in Invites /\ Parked(row[j])
    OBVIOUS
  <2>2. PendingFor(row[j].command) \in Queued
    BY <1>2, <2>1 DEF Rows, PendingFor, Queued, Commands
  <2>3. 0 \in 0..MaxAttempts
    BY InvitationAssumption
  <2>4. r(j) \in Rows /\ r(j).status = PendingFor(row[j].command) /\ r(j).command = row[j].command
        /\ r(j).slot = row[j].slot /\ r(j).held = row[j].held /\ r(j).clean = row[j].clean
        /\ r(j).receipt = row[j].receipt
    BY <1>2, <2>1, <2>2, <2>3 DEF Rows, Statuses
  <2>5. row'[j] = FollowsStatus(r(j))
    BY <1>1, <2>1
  <2>. HIDE DEF r
  <2> QED
    BY <2>1, <2>2, <2>4, <2>5, Followed DEF Parked, Queued
<1>4. ASSUME NEW j \in Invites \ S PROVE row'[j] = row[j]
  BY <1>1, <1>4
<1>5. row' \in [Invites -> Rows]
  <2>1. \A j \in Invites : row'[j] \in Rows
    BY <1>2, <1>3, <1>4
  <2> QED
    BY <1>1, <2>1
<1>. HIDE DEF r, S
<1>6. meeting' = meeting
  BY <1>1
<1>7. ASSUME NEW j \in Invites PROVE RowOK(j)' /\ RowType(j)'
  <2>1. CASE j \in S
    <3>1. RowType(j) /\ RowOK(j) /\ row[j].command \in Commands
      BY <1>2 DEF Rows
    <3>2. /\ row'[j].status = PendingFor(row[j].command)
          /\ row'[j].command = row[j].command /\ row'[j].slot = row[j].slot
          /\ row'[j].held = row[j].held /\ row'[j].clean = row[j].clean
          /\ row'[j].parked = 0 /\ row[j].status = "needs_attention"
          /\ row'[j].status \in Queued
      BY <1>3, <2>1
    <3>3. RowOK(j)'
      BY <1>6, <3>1, <3>2 DEF RowOK, Queued
    <3> QED
      BY <3>1, <3>2, <3>3 DEF RowType, Queued
  <2>2. CASE j \notin S
    BY <1>2, <1>4, <1>6, <2>2, RowKeptOK, RowKeptType DEF RowKept
  <2> QED
    BY <2>1, <2>2
<1>8. \A j \in Invites \ S : RowKept(j)
  BY <1>4, <1>6 DEF RowKept
<1>9. ASSUME NEW w \in Workers
      PROVE  /\ work'[w] \in Jobs /\ JobKept(w) /\ (work'[w].current => Inv(w) \notin S)
  <2>1. (Outdated(S)[w].late \/ work[w].pc \in Delivering) \in BOOLEAN
    OBVIOUS
  <2>2. Outdated(S)[w] \in Jobs
    BY <1>2, OutdatedKeeps
  <2>3. PICK b \in BOOLEAN : /\ b <=> (Outdated(S)[w].late \/ work[w].pc \in Delivering)
                             /\ work'[w] = [Outdated(S)[w] EXCEPT !.late = b]
    BY <1>1, <2>1, Zenon
  <2>4. /\ Outdated(S)[w].pc = work[w].pc /\ Outdated(S)[w].inv = work[w].inv
        /\ Outdated(S)[w].claim = work[w].claim /\ Outdated(S)[w].found = work[w].found
        /\ Outdated(S)[w].err = work[w].err /\ Outdated(S)[w].seen = work[w].seen
        /\ Outdated(S)[w].late = work[w].late
        /\ Outdated(S)[w].current => work[w].current /\ Inv(w) \notin S
    BY <1>2, OutdatedKeeps
  <2> QED
    BY <2>2, <2>3, <2>4 DEF JobKept, Jobs
<1>10. \A w \in Workers : JobOK(w)'
  BY <1>2, <1>8, <1>9, JobKeptOK DEF Inv
<1>11. work' \in [Workers -> Jobs]
  BY <1>1, <1>9
<1>12. TypeRest'
  BY <1>1, <1>2 DEF TypeRest, history
<1>13. Core'
  BY <1>5, <1>7, <1>10, <1>11, <1>12, CoreFrom
<1>14. ASSUME NEW j \in Invites PROVE IF Parked(row[j]) THEN SentOn(j) ELSE row'[j] = row[j]
  BY <1>3, <1>4 DEF S, SentOn
<1>15. \A w \in Workers : JobKept(w) /\ (work'[w].current => Inv(w) \notin {j \in Invites : Parked(row[j])})
  BY <1>9 DEF S
<1> QED
  BY <1>13, <1>14, <1>15

LEMMA CalendarCore ==
  ASSUME Core, Calendar
  PROVE  Core'
<1>1. UNCHANGED <<row, meeting, work>>
  BY DEF Calendar, Outage, Recover, Reconnect, HostEdits
<1>2. /\ row \in [Invites -> Rows] /\ work \in [Workers -> Jobs] /\ TypeRest
      /\ (\A j \in Invites : RowType(j) /\ RowOK(j)) /\ \A w \in Workers : JobOK(w)
  BY CoreTyped
<1>3. \A j \in Invites : RowKept(j)
  BY <1>1 DEF RowKept
<1>4. \A j \in Invites : RowOK(j)' /\ RowType(j)'
  BY <1>2, <1>3, RowKeptOK, RowKeptType
<1>5. \A w \in Workers : JobOK(w)'
  BY <1>1, <1>2, <1>3, JobKeptOK DEF JobKept
<1>6. TypeRest'
  <2>1. CASE Outage \/ Recover \/ Reconnect
    <3>1. UNCHANGED <<meeting, event, episode, used, moved, edited, lapsed, lost>>
      BY <2>1 DEF Outage, Recover, Reconnect, history
    <3>2. host \in [accepts : BOOLEAN, granted : BOOLEAN, outages : Nat] /\ episode.open \in BOOLEAN
      BY <1>2 DEF TypeRest
    <3>3. host' \in [accepts : BOOLEAN, granted : BOOLEAN, outages : Nat]
      <4>1. CASE Outage
        <5>1. PICK n \in Nat : n = host.outages + 1
          BY <3>2
        <5>2. host' = [host EXCEPT !.accepts = FALSE, !.outages = n]
          BY <4>1, <5>1 DEF Outage
        <5> QED
          BY <3>2, <5>2
      <4>2. CASE Recover
        BY <3>2, <4>2 DEF Recover
      <4>3. CASE Reconnect
        BY <3>2, <4>3 DEF Reconnect
      <4> QED
        BY <2>1, <4>1, <4>2, <4>3
    <3> QED
      BY <1>2, <3>1, <3>3 DEF TypeRest
  <2>2. ASSUME NEW i \in Invites, NEW to \in Slots \cup {Gone}, HostEdits(i, to)
        PROVE  TypeRest'
    <3>1. edited' \in Flags
      BY <1>2, <2>2, FlagSet DEF TypeRest, HostEdits
    <3> QED
      BY <1>2, <2>2, <3>1 DEF TypeRest, HostEdits, SpendChange
  <2> QED
    BY <2>1, <2>2 DEF Calendar
<1> QED
  BY <1>1, <1>2, <1>4, <1>5, <1>6, CoreFrom

-----------------------------------------------------------------------------
LEMMA CoreInit == Init => Core
<1>. SUFFICES ASSUME Init PROVE Core
  OBVIOUS
<1>1. Absent \in Rows
  BY InvitationAssumption DEF Absent, Rows, Statuses, Commands
<1>2. row = [i \in Invites |-> Absent] /\ meeting = [i \in Invites |-> None]
      /\ work = [w \in Workers |-> Idle]
  BY DEF Init
<1>3. TypeRest
  BY DEF Init, TypeRest, Flags
<1>4. \A i \in Invites : RowType(i) /\ RowOK(i)
  BY <1>2, InvitationAssumption DEF RowType, RowOK, Absent, Queued, PendingFor
<1>5. \A w \in Workers : JobOK(w)
  BY <1>2, IdleJob DEF JobOK, At, Inv, Delivering
<1>6. row \in [Invites -> Rows] /\ work \in [Workers -> Jobs]
  BY <1>1, <1>2, IdleJob
<1> QED
  BY <1>3, <1>4, <1>5, <1>6, Typed DEF Core

LEMMA CoreStep == Core /\ [Next]_vars => Core'
<1>. SUFFICES ASSUME Core, [Next]_vars PROVE Core'
  OBVIOUS
<1>1. CASE UNCHANGED vars
  <2>0. TypeRest
    BY CoreTyped
  <2>v. /\ UNCHANGED <<row, meeting, event, work, episode, host>>
        /\ UNCHANGED <<used, moved, edited, lapsed, lost>>
    BY <1>1 DEF vars
  <2>1. UNCHANGED <<row, meeting, work>> /\ TypeRest'
    BY <2>v, <2>0 DEF TypeRest
  <2>2. \A j \in Invites : RowKept(j)
    BY <2>1 DEF RowKept
  <2>3. \A j \in Invites : RowOK(j)' /\ RowType(j)'
    <3>1. \A j \in Invites : RowType(j) /\ RowOK(j)
      BY CoreTyped
    <3> QED
      BY <2>2, <3>1, RowKeptOK, RowKeptType
  <2>4. \A w \in Workers : JobOK(w)'
    <3>0. \A w \in Workers : JobOK(w)
      BY CoreTyped
    <3>1. \A w \in Workers : JobOK(w) /\ JobKept(w)
      BY <2>1, <3>0 DEF JobKept
    <3> QED
      BY <2>2, <3>1, JobKeptOK
  <2> QED
    BY <2>1, <2>3, <2>4, CoreTyped, CoreFrom
<1>2. ASSUME NEW i \in Invites, Asked(i) PROVE Core'
  BY <1>2, CreateCore, RescheduleCore, CancelCore, RetryCore, EraseCore DEF Asked
<1>3. ASSUME NEW i \in Invites, Lapse(i) \/ Claim(i) \/ Watch(i) PROVE Core'
  BY <1>3, LapseCore, ClaimCore, WatchCore
<1>4. ASSUME NEW w \in Workers, Delivers(w) PROVE Core'
  BY <1>4, CallFailsCore, LookBeforeSaveCore, LookBeforeDeleteCore, SaveCore, DeleteCore,
     FinishErasedCore, FinishSupersededCore, ParkCore, PostponeCore, SettleCore, FinishFailsCore
  DEF Delivers
<1>5. ASSUME NEW w \in Workers, Imports(w) \/ Crash(w) PROVE Core'
  BY <1>5, ImportCore, WarnCore, CrashCore DEF Imports
<1>6. CASE Stall \/ Resume \/ Calendar
  BY <1>6, StallCore, ResumeCore, CalendarCore
<1> QED
  BY <1>1, <1>2, <1>3, <1>4, <1>5, <1>6 DEF Next

\* Rows and jobs are always in order: a queued row is in the state its command
\* waits in, a confirmed one names its meeting's hour and knows its event, one
\* that was withdrawn has no meeting, and a worker whose version is current
\* holds the row as it is (applyInvitationChange, claimInvitation,
\* finishInvitation).
THEOREM InOrder == Spec => []Core
<1> QED
  BY CoreInit, CoreStep, PTL DEF Spec

\* Every variable keeps its type, a lease is held only on a row somebody may
\* still deliver or withdraw, and only a waiting row has an episode.
THEOREM TypeCorrect == Spec => []TypeOK
<1>1. Core => TypeOK
  BY DEF Core
<1> QED
  BY <1>1, InOrder, PTL

-----------------------------------------------------------------------------
(***************************************************************************)
(* The host's hours: whoever comes to hold one finds it free, had it       *)
(* already, or was put there by the host.                                  *)
(***************************************************************************)
HourKept(j) == \A s \in Slots :
    Holds(j, s)' => Holds(j, s) /\ (PutThere(j, s) => PutThere(j, s)')

LEMMA HoursKept ==
  ASSUME HoursInv, \A j \in Invites : HourKept(j)
  PROVE  HoursInv'
<1>. SUFFICES ASSUME NEW i \in Invites, NEW j \in Invites, NEW s \in Slots,
                     i # j, Holds(i, s)', Holds(j, s)'
              PROVE  PutThere(i, s)' \/ PutThere(j, s)'
  BY DEF HoursInv
<1>1. /\ Holds(i, s) /\ (PutThere(i, s) => PutThere(i, s)')
      /\ Holds(j, s) /\ (PutThere(j, s) => PutThere(j, s)')
  BY DEF HourKept
<1>2. PutThere(i, s) \/ PutThere(j, s)
  BY <1>1 DEF HoursInv
<1> QED
  BY <1>1, <1>2

\* Nothing of row j that an hour depends on has changed.
HourSame(j) ==
    /\ row'[j].status = row[j].status /\ row'[j].command = row[j].command
    /\ row'[j].slot = row[j].slot
    /\ meeting'[j] = meeting[j] /\ moved'[j] = moved[j]

LEMMA SameHours ==
  ASSUME NEW j, HourSame(j)
  PROVE  HourKept(j) /\ \A s \in Slots : Holds(j, s)' => Holds(j, s)
  BY DEF HourSame, HourKept, Holds, PutThere, MovesTo

\* One row changes.
LEMMA OneRowHours ==
  ASSUME HoursInv, NEW i \in Invites, \A j \in Invites \ {i} : HourSame(j),
         \A s \in Slots : Holds(i, s)' =>
            \/ Holds(i, s) /\ (PutThere(i, s) => PutThere(i, s)')
            \/ PutThere(i, s)'
            \/ \A j \in Invites \ {i} : ~Holds(j, s)
  PROVE  HoursInv'
<1>1. \A j \in Invites \ {i} : HourKept(j) /\ \A s \in Slots : Holds(j, s)' => Holds(j, s)
  BY SameHours
<1>. SUFFICES ASSUME NEW k \in Invites, NEW j \in Invites, NEW s \in Slots,
                     k # j, Holds(k, s)', Holds(j, s)'
              PROVE  PutThere(k, s)' \/ PutThere(j, s)'
  BY DEF HoursInv
<1>2. ASSUME NEW j_1 \in Invites \ {i}, Holds(j_1, s)', Holds(i, s)'
      PROVE  PutThere(i, s)' \/ PutThere(j_1, s)'
  <2>1. Holds(j_1, s) /\ (PutThere(j_1, s) => PutThere(j_1, s)')
    BY <1>1, <1>2 DEF HourKept
  <2>2. CASE Holds(i, s) /\ (PutThere(i, s) => PutThere(i, s)')
    BY <2>1, <2>2 DEF HoursInv
  <2> QED
    BY <1>2, <2>1, <2>2
<1>3. CASE k # i /\ j # i
  <2>1. /\ Holds(k, s) /\ (PutThere(k, s) => PutThere(k, s)')
        /\ Holds(j, s) /\ (PutThere(j, s) => PutThere(j, s)')
    BY <1>1, <1>3 DEF HourKept
  <2> QED
    BY <2>1 DEF HoursInv
<1> QED
  BY <1>2, <1>3

\* Hours that are not taken are nobody's.
LEMMA FreeHour ==
  ASSUME NEW i \in Invites, NEW s \in Slots, ~Taken(i, s)
  PROVE  \A j \in Invites \ {i} : ~Holds(j, s)
  BY DEF Taken, Holds

LEMMA AskedHours ==
  ASSUME Core, HoursInv, NEW i \in Invites, Asked(i)
  PROVE  HoursInv'
<1>1. meeting \in [Invites -> Slots \cup {None}]
  BY CoreTyped DEF TypeRest
<1>2. moved' = moved
  BY DEF Asked, CreateInvitation, Reschedule, Cancel, Retry, Erase, history
<1>3. ASSUME OthersSame(i), \A j \in Invites \ {i} : meeting'[j] = meeting[j]
      PROVE  \A j \in Invites \ {i} : HourSame(j)
  BY <1>2, <1>3 DEF HourSame, OthersSame
<1>4. ASSUME NEW s \in Slots, CreateInvitation(i, s) PROVE HoursInv'
  <2>1. Now(i, "pending", row[i].command, s, row[i].receipt, row[i].held, row[i].clean)
    BY <1>4, CreateCore
  <2>2. meeting' = [meeting EXCEPT ![i] = s] /\ ~Taken(i, s)
    BY <1>4 DEF CreateInvitation
  <2>3. \A t \in Slots : Holds(i, t)' => t = s
    BY <1>1, <2>1, <2>2 DEF Holds, MovesTo, Now
  <2> QED
    BY <1>1, <1>3, <2>1, <2>2, <2>3, FreeHour, OneRowHours DEF Now
<1>5. ASSUME NEW s \in Slots, Reschedule(i, s) PROVE HoursInv'
  <2>1. Now(i, "rescheduling", "update", s, row[i].receipt, row[i].held, row[i].clean)
    BY <1>5, RescheduleCore
  <2>2. meeting' = meeting /\ ~Taken(i, s)
    BY <1>5 DEF Reschedule
  <2>3. \A t \in Slots : Holds(i, t)' => t = s \/ (Holds(i, t) /\ (PutThere(i, t) => PutThere(i, t)'))
    BY <1>2, <2>1, <2>2 DEF Holds, MovesTo, PutThere, Now
  <2> QED
    BY <1>3, <2>1, <2>2, <2>3, FreeHour, OneRowHours DEF Now
<1>6. CASE Cancel(i) \/ Retry(i)
  <2>1. OthersSame(i) /\ meeting' = meeting
    BY <1>6, CancelCore, RetryCore DEF Now, Cancel, Retry
  <2>2. \/ row'[i].status = "canceling"
        \/ /\ row[i].status = "needs_attention" /\ row'[i].command = row[i].command
           /\ row'[i].slot = row[i].slot
    BY <1>6, CancelCore, RetryCore DEF Now, Retry
  <2>3. \A t \in Slots : Holds(i, t)' => Holds(i, t) /\ (PutThere(i, t) => PutThere(i, t)')
    BY <1>2, <2>1, <2>2 DEF Holds, MovesTo, PutThere
  <2> QED
    BY <1>3, <2>1, <2>3, OneRowHours
<1>7. CASE Erase(i)
  <2>1. Now(i, "erased", "cancel", None, row[i].receipt, row[i].held, row[i].clean)
    BY <1>7, EraseCore
  <2>2. meeting' = [meeting EXCEPT ![i] = None]
    BY <1>7 DEF Erase
  <2>3. \A t \in Slots : ~Holds(i, t)'
    BY <1>1, <2>1, <2>2, InvitationAssumption DEF Holds, MovesTo, Now
  <2> QED
    BY <1>1, <1>3, <2>1, <2>2, <2>3, OneRowHours DEF Now
<1> QED
  BY <1>4, <1>5, <1>6, <1>7 DEF Asked

\* Most steps change no meeting, and leave the command and the time of each row.
LEMMA QuietHours ==
  ASSUME HoursInv, meeting' = meeting, moved' = moved,
         \A j \in Invites :
            row'[j].command = "update" /\ row'[j].status \in {"rescheduling", "needs_attention"} =>
               /\ row'[j].slot = row[j].slot
               /\ MovesTo(j, row[j].slot) \/ meeting[j] = row[j].slot
  PROVE  HoursInv'
<1>1. ASSUME NEW j \in Invites, NEW s \in Slots, Holds(j, s)'
      PROVE  Holds(j, s) /\ (PutThere(j, s) => PutThere(j, s)')
  BY <1>1 DEF Holds, MovesTo, PutThere
<1> QED
  BY <1>1, HoursKept DEF HourKept

LEMMA DeliversHours ==
  ASSUME Core, HoursInv, NEW w \in Workers, Delivers(w)
  PROVE  HoursInv'
<1>1. row \in [Invites -> Rows] /\ TypeRest /\ \A i \in Invites : RowOK(i)
  BY CoreTyped
<1>2. CASE row' = row /\ meeting' = meeting /\ moved' = moved
  BY <1>2, QuietHours DEF MovesTo
<1>3. CASE FinishErased(w) \/ FinishSuperseded(w)
  <2>1. meeting' = meeting /\ moved' = moved
    BY <1>3 DEF FinishErased, FinishSuperseded, history
  <2>2. \A j \in Invites : row'[j] = row[j] \/ row'[j].status \in {"erased", "canceling"}
    BY <1>3, FinishErasedCore, FinishSupersededCore DEF Now, OthersSame
  <2> QED
    BY <2>1, <2>2, QuietHours DEF MovesTo
<1>4. CASE Park(w)
  <2>1. meeting' = meeting /\ moved' = moved
    BY <1>4 DEF Park, history
  <2>2. \A j \in Invites : row'[j] = row[j] \/ PutAside(j, Current)
    BY <1>4, ParkCore
  <2> QED
    BY <1>1, <2>1, <2>2, QuietHours DEF MovesTo, PutAside, RowOK, PendingFor
<1>5. CASE Postpone(w)
  <2>1. meeting' = meeting /\ moved' = moved
    BY <1>5 DEF Postpone, history
  <2>2. \A j \in Invites :
           \/ row'[j] = row[j]
           \/ /\ row[j].status \in Queued
              /\ row'[j].slot = row[j].slot /\ row'[j].command = row[j].command
    BY <1>5, PostponeCore DEF Now, OthersSame
  <2> QED
    BY <1>1, <2>1, <2>2, QuietHours DEF MovesTo, RowOK, PendingFor
<1>6. CASE Settle(w)
  <2>1. work[w].pc # "idle"
    BY <1>6 DEF Settle, Stands, Finishing, At
  <2>2. PICK i \in Invites : i = Inv(w)
    BY <2>1, InHand DEF Inv
  <2>3. /\ row[i].status \in Queued
        /\ Now(i, IF row[i].command = "cancel" THEN "canceled" ELSE "confirmed",
               row[i].command, row[i].slot, work[w].found, FALSE, row[i].clean)
    BY <1>6, <2>2, SettleCore
  <2>4. /\ meeting' = [meeting EXCEPT ![i] = Settled(i)]
        /\ moved' = [moved EXCEPT ![i] = @ /\ meeting[i] = Settled(i)]
    BY <1>6, <2>2 DEF Settle
  <2>5. meeting'[i] = Settled(i) /\ (moved[i] /\ meeting[i] = Settled(i) => moved'[i])
    BY <1>1, <2>4 DEF TypeRest, Flags
  <2>6. \A j \in Invites \ {i} : HourSame(j)
    BY <1>1, <2>3, <2>4 DEF HourSame, Now, OthersSame, TypeRest, Flags
  <2>7. ASSUME NEW s \in Slots, Holds(i, s)' PROVE Holds(i, s) /\ (PutThere(i, s) => PutThere(i, s)')
    <3>1. s = Settled(i)
      BY <2>3, <2>5, <2>7 DEF Holds, MovesTo, Now
    <3>2. row[i].command # "cancel" /\ s = row[i].slot
      BY <3>1, InvitationAssumption DEF Settled
    <3>3. Holds(i, s)
      BY <1>1, <2>3, <3>2 DEF RowOK, Holds, MovesTo, PendingFor, Queued, Rows, Commands
    <3> QED
      BY <2>5, <3>1, <3>3 DEF PutThere
  <2> QED
    BY <2>6, <2>7, OneRowHours
<1>7. CASE CallFails(w) \/ LookBeforeSave(w) \/ LookBeforeDelete(w) \/ FinishFails(w)
  <2>1. row' = row /\ meeting' = meeting /\ moved' = moved
    BY <1>7 DEF CallFails, LookBeforeSave, LookBeforeDelete, FinishFails, Only, history
  <2> QED
    BY <1>2, <2>1
<1>8. CASE Save(w) \/ Delete(w)
  <2>1. row' = row /\ meeting' = meeting /\ moved' = moved
    BY <1>8 DEF Save, Delete, Only, history
  <2> QED
    BY <1>2, <2>1
<1> QED
  BY <1>3, <1>4, <1>5, <1>6, <1>7, <1>8 DEF Delivers

LEMMA ImportsHours ==
  ASSUME Core, HoursInv, NEW w \in Workers, Imports(w)
  PROVE  HoursInv'
<1>1. TypeRest /\ (\A i \in Invites : RowOK(i)) /\ row \in [Invites -> Rows]
  BY CoreTyped
<1>2. CASE Import(w)
  <2>1. CASE work[w].current
    <3>1. work[w].pc # "idle"
      BY <1>2 DEF Import, At
    <3>2. PICK i \in Invites : i = Inv(w)
      BY <3>1, InHand DEF Inv
    <3>3. Now(i, IF work[w].seen \in Slots THEN "confirmed" ELSE "canceled", row[i].command,
              IF work[w].seen \in Slots THEN work[w].seen ELSE row[i].slot,
              row[i].receipt, row[i].held, row[i].clean)
      BY <1>2, <2>1, <3>2, ImportCore
    <3>4. /\ meeting' = [meeting EXCEPT ![i] = IF work[w].seen \in Slots THEN work[w].seen ELSE None]
          /\ moved' = [moved EXCEPT ![i] = TRUE]
      BY <1>2, <2>1, <3>2 DEF Import, StillAsSeen
    <3>5. \A j \in Invites \ {i} : HourSame(j)
      BY <1>1, <3>3, <3>4 DEF HourSame, Now, OthersSame, TypeRest, Flags
    <3>6. moved'[i]
      BY <1>1, <3>4 DEF TypeRest, Flags
    <3>7. \A s \in Slots : Holds(i, s)' => PutThere(i, s)'
      BY <3>3, <3>6 DEF Holds, MovesTo, Now, PutThere
    <3> QED
      BY <3>5, <3>7, OneRowHours
  <2>2. CASE ~work[w].current
    <3>1. row' = row /\ meeting' = meeting /\ moved' = moved
      BY <1>2, <2>2 DEF Import, StillAsSeen
    <3> QED
      BY <3>1, QuietHours DEF MovesTo
  <2> QED
    BY <2>1, <2>2
<1>3. CASE Warn(w)
  <2>1. meeting' = meeting /\ moved' = moved
    BY <1>3 DEF Warn, history
  <2>2. \A j \in Invites :
           row'[j] = row[j] \/ (row[j].status = "confirmed" /\ row'[j].slot = row[j].slot)
    BY <1>3, WarnCore DEF Now, OthersSame, Warn
  <2> QED
    BY <1>1, <2>1, <2>2, QuietHours DEF MovesTo, RowOK
<1> QED
  BY <1>2, <1>3 DEF Imports

LEMMA OtherHours ==
  ASSUME Core, HoursInv,
         \/ \E i \in Invites : Lapse(i) \/ Claim(i) \/ Watch(i)
         \/ \E w \in Workers : Crash(w)
         \/ Stall \/ Resume \/ Calendar
  PROVE  HoursInv'
<1>1. TypeRest /\ row \in [Invites -> Rows]
  BY CoreTyped
<1>2. meeting' = meeting /\ moved' = moved
  BY DEF Lapse, Claim, Watch, Only, Crash, Stall, Resume, Calendar, Outage, Recover, Reconnect,
         HostEdits, history
<1>3. ASSUME NEW i \in Invites, Lapse(i)
      PROVE  \A j \in Invites : row'[j].status = row[j].status /\ row'[j].slot = row[j].slot
                               /\ row'[j].command = row[j].command
  BY <1>1, <1>3 DEF Lapse, Rows
<1>4. ASSUME NEW i \in Invites, Claim(i)
      PROVE  \A j \in Invites : row'[j].status = row[j].status /\ row'[j].slot = row[j].slot
                               /\ row'[j].command = row[j].command
  BY <1>4, ClaimCore DEF Now, OthersSame
<1>5. CASE Resume
  <2>1. \A j \in Invites : row'[j] = row[j] \/ SentOn(j)
    BY <1>5, ResumeCore
  <2> QED
    BY <1>2, <2>1, QuietHours DEF SentOn, Parked, MovesTo
<1>6. CASE (\E i \in Invites : Watch(i)) \/ (\E w \in Workers : Crash(w)) \/ Stall \/ Calendar
  <2>1. row' = row
    BY <1>6 DEF Watch, Only, Crash, Stall, Calendar, Outage, Recover, Reconnect, HostEdits
  <2> QED
    BY <1>2, <2>1, QuietHours DEF MovesTo
<1>7. CASE \E i \in Invites : Lapse(i) \/ Claim(i)
  <2>1. \A j \in Invites : row'[j].status = row[j].status /\ row'[j].slot = row[j].slot
                           /\ row'[j].command = row[j].command
    BY <1>3, <1>4, <1>7
  <2> QED
    BY <1>2, <2>1, QuietHours DEF MovesTo
<1> QED
  BY <1>5, <1>6, <1>7

\* No two meetings of the host share an hour by Margince's doing: a move holds
\* its new hour from the moment it is asked for until it is settled, and its old
\* one as long (reserveInvitation, localMeetingSlots, settleInvitation).
THEOREM NoDoubleBooking == Spec => []HostNotDoubleBooked
<1>1. Init => HoursInv
  <2>. SUFFICES ASSUME Init PROVE HoursInv
    OBVIOUS
  <2>1. \A i \in Invites, s \in Slots : ~Holds(i, s)
    BY InvitationAssumption DEF Init, Holds, MovesTo, Absent
  <2> QED
    BY <2>1 DEF HoursInv
<1>2. Core /\ HoursInv /\ [Next]_vars => HoursInv'
  <2>. SUFFICES ASSUME Core, HoursInv, [Next]_vars PROVE HoursInv'
    OBVIOUS
  <2>1. CASE UNCHANGED vars
    BY <2>1, QuietHours DEF vars, MovesTo
  <2> QED
    BY <2>1, AskedHours, DeliversHours, ImportsHours, OtherHours DEF Next
<1>3. Core /\ HoursInv => HostNotDoubleBooked
  <2>. SUFFICES ASSUME Core, HoursInv, NEW i \in Invites, NEW j \in Invites,
                       i # j, meeting[i] = meeting[j], meeting[i] # None
                PROVE  moved[i] \/ moved[j]
    BY DEF HostNotDoubleBooked
  <2>1. meeting[i] \in Slots
    BY CoreTyped DEF TypeRest
  <2> QED
    BY <2>1 DEF HoursInv, Holds, PutThere
<1> QED
  BY <1>1, <1>2, <1>3, InOrder, PTL DEF Spec

-----------------------------------------------------------------------------
(***************************************************************************)
(* Episodes: each is paid for by an outage of its own.                     *)
(***************************************************************************)
LEMMA EpisodeKept ==
  ASSUME EpisodeInv, UNCHANGED <<episode, host>>,
         \A i \in Invites : row'[i].parked # 0 => row'[i].parked = row[i].parked,
         \A w \in Workers : News(w)' => ~host.accepts \/ \E v \in Workers : News(v)
  PROVE  EpisodeInv'
  BY DEF EpisodeInv, OneEpisodePerOutage, Paid

\* A row that does not wait for its host has no episode.
LEMMA NotParked ==
  ASSUME Core', NEW i \in Invites, row'[i].status # "needs_attention"
  PROVE  row'[i].parked = 0
  BY DEF Core, TypeOK

\* No worker has news it did not have.
LEMMA OutdatedNews ==
  ASSUME Core, NEW S, NEW v \in Workers,
         work' = Outdated(S) \/ work' = [Outdated(S) EXCEPT ![v] = Idle]
            \/ work' = [work EXCEPT ![v] = Idle]
  PROVE  \A w \in Workers : News(w)' => News(w)
<1>1. work \in [Workers -> Jobs]
  BY CoreTyped
<1>2. /\ Outdated(S) \in [Workers -> Jobs]
      /\ \A w \in Workers : Outdated(S)[w].pc = work[w].pc /\ Outdated(S)[w].err = work[w].err
                            /\ Outdated(S)[w].late = work[w].late
  BY <1>1, OutdatedKeeps
<1>3. ASSUME NEW w \in Workers
      PROVE  \/ work'[w] = Idle \/ work'[w] = work[w] \/ work'[w] = Outdated(S)[w]
  BY <1>1, <1>2
<1> QED
  BY <1>2, <1>3, IdleJob DEF News, Finishing, At

LEMMA AskedEpisode ==
  ASSUME Core, EpisodeInv, NEW i \in Invites, Asked(i)
  PROVE  EpisodeInv'
<1>1. Core' /\ OthersSame(i) /\ row'[i].status # "needs_attention"
  <2>1. ASSUME NEW s \in Slots, CreateInvitation(i, s) \/ Reschedule(i, s)
        PROVE  Core' /\ OthersSame(i) /\ row'[i].status # "needs_attention"
    BY <2>1, CreateCore, RescheduleCore DEF Now
  <2>2. CASE Cancel(i) \/ Erase(i)
    BY <2>2, CancelCore, EraseCore DEF Now
  <2>3. CASE Retry(i)
    <3>1. row[i].command \in Commands
      BY CoreTyped DEF Rows
    <3>2. PendingFor(row[i].command) \in Queued
      BY <3>1 DEF Commands, PendingFor, Queued
    <3> QED
      BY <2>3, <3>2, RetryCore DEF Now, Queued
  <2> QED
    BY <2>1, <2>2, <2>3 DEF Asked
<1>2. UNCHANGED <<episode, host>> /\ work' = Outdated({i})
  BY DEF Asked, CreateInvitation, Reschedule, Cancel, Retry, Erase, Change
<1>3. \A j \in Invites : row'[j].parked # 0 => row'[j].parked = row[j].parked
  BY <1>1, NotParked DEF OthersSame
<1>4. 0 \in Workers
  BY InvitationAssumption DEF Workers
<1>5. \A w \in Workers : News(w)' => News(w)
  BY <1>2, <1>4, OutdatedNews
<1> QED
  BY <1>2, <1>3, <1>5, EpisodeKept

\* A worker that did not end with a refusal has none to report.
LEMMA OneWorkerNews ==
  ASSUME Core, NEW v \in Workers, NEW job, work' = [work EXCEPT ![v] = job],
         ~(job.pc = "finish" /\ job.err = "refused" /\ ~job.late)
  PROVE  \A w \in Workers : News(w)' => News(w)
<1>1. \A w \in Workers : work'[w] = IF w = v THEN job ELSE work[w]
  BY CoreTyped
<1> QED
  BY <1>1 DEF News, Finishing, At

LEMMA DeliversEpisode ==
  ASSUME Core, EpisodeInv, NEW w \in Workers, Delivers(w)
  PROVE  EpisodeInv'
<1>1. work \in [Workers -> Jobs] /\ TypeRest /\ row \in [Invites -> Rows]
      /\ \A j \in Invites : RowType(j)
  BY CoreTyped
<1>2. CASE CallFails(w)
  <2>1. PICK f \in KeptAfter(w), e \in {"failed", "refused"} :
          (e = "refused" => ~host.accepts) /\ Only(w, Outcome(w, f, e))
    BY <1>2 DEF CallFails
  <2>2. UNCHANGED <<episode, host, row>> /\ work' = [work EXCEPT ![w] = Outcome(w, f, e)]
    BY <2>1 DEF Only
  <2>3. Outcome(w, f, e).err = e
    BY <1>1 DEF Outcome, Jobs
  <2>4. \A v \in Workers : News(v)' => ~host.accepts \/ News(v)
    BY <2>1, <2>2, <2>3, OneWorkerNews
  <2> QED
    BY <2>2, <2>4, EpisodeKept
<1>3. CASE LookBeforeSave(w) \/ LookBeforeDelete(w) \/ Save(w) \/ Delete(w) \/ FinishFails(w)
  <2>1. UNCHANGED <<episode, host, row>>
    BY <1>3 DEF LookBeforeSave, LookBeforeDelete, Save, Delete, FinishFails, Only
  <2>2. PICK job : /\ work' = [work EXCEPT ![w] = job]
                   /\ job.pc # "finish" \/ job.err # "refused"
    <3>1. ASSUME NEW f, NEW e \in {"none", "failed"}
          PROVE  Outcome(w, f, e).err # "refused"
      BY <1>1 DEF Outcome, Jobs
    <3>2. CASE LookBeforeSave(w) \/ LookBeforeDelete(w)
      <4>1. [work[w] EXCEPT !.pc = "save"].pc = "save"
            /\ [work[w] EXCEPT !.pc = "delete", !.found = TRUE].pc = "delete"
        BY <1>1 DEF Jobs
      <4> QED
        BY <3>1, <3>2, <4>1 DEF LookBeforeSave, LookBeforeDelete, Only
    <3>3. CASE Save(w) \/ Delete(w)
      BY <3>1, <3>3 DEF Save, Delete, Only, Answers
    <3>4. CASE FinishFails(w)
      <4>1. [work[w] EXCEPT !.err = "failed"].err = "failed"
        BY <1>1 DEF Jobs
      <4> QED
        BY <3>4, <4>1 DEF FinishFails, Only
    <3> QED
      BY <1>3, <3>2, <3>3, <3>4
  <2>3. \A v \in Workers : News(v)' => News(v)
    BY <2>2, OneWorkerNews
  <2> QED
    BY <2>1, <2>3, EpisodeKept
<1>4. CASE FinishErased(w) \/ FinishSuperseded(w) \/ Postpone(w) \/ Settle(w)
  <2>1. UNCHANGED <<episode, host>>
    BY <1>4 DEF FinishErased, FinishSuperseded, Postpone, Settle
  <2>2. \A v \in Workers : News(v)' => News(v)
    BY <1>4, OutdatedNews DEF FinishErased, FinishSuperseded, Postpone, Settle, Finished
  <2>3. \A j \in Invites :
           row'[j] = row[j] \/ row'[j].parked = 0 \/ row'[j].status # "needs_attention"
    BY <1>4, FinishErasedCore, FinishSupersededCore, PostponeCore, SettleCore DEF Now, OthersSame
  <2>4. Core'
    BY <1>4, FinishErasedCore, FinishSupersededCore, PostponeCore, SettleCore
  <2> QED
    BY <2>1, <2>2, <2>3, <2>4, NotParked, EpisodeKept
<1>5. CASE Park(w)
  <2>1. /\ episode' = [n |-> Current, open |-> TRUE]
        /\ host' = [host EXCEPT !.granted = @ /\ episode.open]
        /\ Stands(w) /\ Parks(w)
    BY <1>5 DEF Park
  <2>2. /\ host'.accepts = host.accepts /\ host'.outages = host.outages
        /\ (host'.granted => host.granted /\ episode.open)
    BY <1>1, <2>1 DEF TypeRest
  <2>3. episode.open \/ News(w)
    BY <2>1 DEF Parks, IsNews, News, Stands
  <2>4. episode'.n = Current /\ episode'.open /\ episode.n \in Nat /\ host.outages \in Nat
    BY <1>1, <2>1 DEF TypeRest
  <2>5. Current <= host.outages /\ (episode.open => Current = episode.n)
    BY <2>3, <2>4 DEF EpisodeInv, OneEpisodePerOutage, Paid, Current
  <2>6. \A j \in Invites : row'[j].parked = Current \/ row'[j] = row[j]
    BY <1>5, ParkCore DEF PutAside
  <2>7. OneEpisodePerOutage'
    BY <2>2, <2>4, <2>5, <2>6 DEF EpisodeInv, OneEpisodePerOutage
  <2>8. host'.granted /\ ~host'.accepts => Paid'
    BY <2>2, <2>4, <2>5 DEF EpisodeInv, Paid
  <2> QED
    BY <2>4, <2>7, <2>8 DEF EpisodeInv
<1> QED
  BY <1>2, <1>3, <1>4, <1>5 DEF Delivers

LEMMA OtherEpisode ==
  ASSUME Core, EpisodeInv,
         \/ \E i \in Invites : Lapse(i) \/ Claim(i) \/ Watch(i)
         \/ \E w \in Workers : Imports(w) \/ Crash(w)
         \/ Stall
  PROVE  EpisodeInv'
<1>1. work \in [Workers -> Jobs] /\ TypeRest /\ row \in [Invites -> Rows]
      /\ \A j \in Invites : RowType(j)
  BY CoreTyped
<1>0. 0 \in Workers
  BY InvitationAssumption DEF Workers
<1>2. ASSUME NEW i \in Invites, Lapse(i) PROVE EpisodeInv'
  <2>1. UNCHANGED <<episode, host, work>> /\ row' = [row EXCEPT ![i].held = FALSE]
    BY <1>2 DEF Lapse
  <2>2. \A j \in Invites : row'[j].parked = row[j].parked
    BY <1>1, <2>1 DEF Rows
  <2>3. \A w \in Workers : News(w)' => News(w)
    BY <2>1 DEF News, Finishing, At
  <2> QED
    BY <2>1, <2>2, <2>3, EpisodeKept
<1>3. ASSUME NEW i \in Invites, Claim(i) PROVE EpisodeInv'
  <2>1. /\ UNCHANGED <<episode, host>> /\ Due(i)
        /\ work' = [Outdated({i}) EXCEPT ![0] =
              [Idle EXCEPT !.pc = "look", !.inv = i, !.claim = ClaimOf(row[i]), !.current = TRUE]]
    BY <1>3 DEF Claim
  <2>2. Core' /\ row'[i].status # "needs_attention" /\ OthersSame(i)
    BY <1>3, <2>1, ClaimCore DEF Now, Due, Queued
  <2>3. \A j \in Invites : row'[j].parked # 0 => row'[j].parked = row[j].parked
    BY <2>2, NotParked DEF OthersSame
  <2>4. [Idle EXCEPT !.pc = "look", !.inv = i, !.claim = ClaimOf(row[i]), !.current = TRUE].pc = "look"
    BY IdleJob DEF Jobs
  <2>5. Outdated({i}) \in [Workers -> Jobs]
        /\ \A w \in Workers : Outdated({i})[w].pc = work[w].pc /\ Outdated({i})[w].err = work[w].err
                              /\ Outdated({i})[w].late = work[w].late
    BY <1>1, OutdatedKeeps
  <2>6. \A w \in Workers : work'[w].pc = "look" \/ work'[w] = Outdated({i})[w]
    BY <1>0, <2>1, <2>4, <2>5
  <2>7. \A w \in Workers : News(w)' => News(w)
    BY <2>5, <2>6 DEF News, Finishing, At
  <2> QED
    BY <2>1, <2>3, <2>7, EpisodeKept
<1>4. ASSUME NEW i \in Invites, Watch(i) PROVE EpisodeInv'
  <2>1. PICK job : Only(0, job) /\ job.pc # "finish"
    <3>. DEFINE seen == [Idle EXCEPT !.inv = i, !.claim = ClaimOf(row[i]), !.current = TRUE]
    <3>1. [seen EXCEPT !.pc = "warn"].pc = "warn"
          /\ [seen EXCEPT !.pc = "import", !.seen = event[i]].pc = "import"
      BY IdleJob DEF Jobs
    <3> QED
      BY <1>4, <3>1 DEF Watch
  <2>2. UNCHANGED <<episode, host, row>> /\ work' = [work EXCEPT ![0] = job]
    BY <2>1 DEF Only
  <2>3. \A w \in Workers : News(w)' => News(w)
    BY <1>0, <2>1, <2>2, OneWorkerNews
  <2> QED
    BY <2>2, <2>3, EpisodeKept
<1>5. ASSUME NEW w \in Workers, Imports(w) PROVE EpisodeInv'
  <2>1. UNCHANGED <<episode, host>>
    BY <1>5 DEF Imports, Import, Warn
  <2>2. \A v \in Workers : News(v)' => News(v)
    BY <1>5, OutdatedNews DEF Imports, Import, Warn, Finished
  <2>3. /\ Core'
        /\ \A j \in Invites :
              row'[j] = row[j] \/ row'[j].parked = 0 \/ row'[j].status # "needs_attention"
    <3>1. CASE ~work[w].current
      <4>1. row' = row
        BY <1>5, <3>1 DEF Imports, Import, Warn, StillAsSeen
      <4> QED
        BY <1>5, <4>1, ImportCore, WarnCore DEF Imports
    <3>2. CASE work[w].current
      BY <1>5, <3>2, ImportCore, WarnCore DEF Imports, Now, OthersSame
    <3> QED
      BY <3>1, <3>2
  <2> QED
    BY <2>1, <2>2, <2>3, NotParked, EpisodeKept
<1>6. ASSUME NEW w \in Workers, Crash(w) PROVE EpisodeInv'
  <2>1. UNCHANGED <<episode, host, row>> /\ work' = [work EXCEPT ![w] = Idle]
    BY <1>6 DEF Crash
  <2>2. \A v \in Workers : News(v)' => News(v)
    BY <2>1, OutdatedNews
  <2> QED
    BY <2>1, <2>2, EpisodeKept
<1>7. CASE Stall
  <2>1. PICK v \in Workers \ {0} : work' = [work EXCEPT ![v] = work[0], ![0] = Idle]
    BY <1>7 DEF Stall
  <2>2. UNCHANGED <<episode, host, row>>
    BY <1>7 DEF Stall
  <2>3. \A w \in Workers : work'[w] = Idle \/ work'[w] = work[0] \/ work'[w] = work[w]
    BY <1>0, <1>1, <2>1
  <2>4. \A w \in Workers : News(w)' => \E u \in Workers : News(u)
    BY <1>0, <2>3, IdleJob DEF News, Finishing, At
  <2> QED
    BY <2>2, <2>4, EpisodeKept
<1> QED
  BY <1>2, <1>3, <1>4, <1>5, <1>6, <1>7

LEMMA ResumeEpisode ==
  ASSUME Core, EpisodeInv, Resume
  PROVE  EpisodeInv'
<1>1. work \in [Workers -> Jobs] /\ TypeRest /\ row \in [Invites -> Rows]
      /\ \A j \in Invites : RowType(j)
  BY CoreTyped
<1>2. /\ episode' = [episode EXCEPT !.open = FALSE] /\ host' = [host EXCEPT !.granted = FALSE]
      /\ episode.open /\ host.granted
  BY DEF Resume
<1>3. /\ episode'.n = episode.n /\ ~episode'.open /\ ~host'.granted
      /\ host'.accepts = host.accepts /\ host'.outages = host.outages
  BY <1>1, <1>2 DEF TypeRest
<1>4. ASSUME NEW j \in Invites PROVE row'[j].parked = 0
  <2>1. IF Parked(row[j]) THEN SentOn(j) ELSE row'[j] = row[j]
    BY ResumeCore
  <2> QED
    BY <1>1, <2>1 DEF SentOn, Parked, RowType, EpisodeInv, OneEpisodePerOutage
<1>5. ASSUME NEW w \in Workers PROVE ~News(w)'
  <2>. DEFINE S == {i \in Invites : Parked(row[i])}
  <2>1. (Outdated(S)[w].late \/ work[w].pc \in Delivering) \in BOOLEAN
    OBVIOUS
  <2>2. work' = [v \in Workers |->
              [Outdated(S)[v] EXCEPT !.late = @ \/ work[v].pc \in Delivering]]
    BY DEF Resume
  <2>. HIDE DEF S
  <2>3. PICK b \in BOOLEAN : /\ b <=> (Outdated(S)[w].late \/ work[w].pc \in Delivering)
                             /\ work'[w] = [Outdated(S)[w] EXCEPT !.late = b]
    BY <2>1, <2>2, Zenon
  <2>4. Outdated(S)[w] \in Jobs /\ Outdated(S)[w].pc = work[w].pc
    BY <1>1, OutdatedKeeps
  <2>5. work'[w].pc = work[w].pc /\ work'[w].late = b
    BY <2>3, <2>4 DEF Jobs
  <2> QED
    BY <2>3, <2>5 DEF News, Finishing, At, Delivering
<1> QED
  BY <1>2, <1>3, <1>4, <1>5 DEF EpisodeInv, OneEpisodePerOutage, Paid

LEMMA CalendarEpisode ==
  ASSUME Core, EpisodeInv, Calendar
  PROVE  EpisodeInv'
<1>1. TypeRest
  BY CoreTyped
<1>2. UNCHANGED <<episode, row, work>>
  BY DEF Calendar, Outage, Recover, Reconnect, HostEdits
<1>3. \A w \in Workers : News(w)' <=> News(w)
  BY <1>2 DEF News, Finishing, At
<1>4. host.outages \in Nat /\ episode.n \in Nat
  BY <1>1 DEF TypeRest
<1>5. CASE Outage
  <2>1. ~host'.accepts /\ host'.outages = host.outages + 1 /\ host'.granted = host.granted
    BY <1>1, <1>5 DEF Outage, TypeRest
  <2> QED
    BY <1>2, <1>3, <1>4, <2>1 DEF EpisodeInv, OneEpisodePerOutage, Paid
<1>6. CASE Recover
  <2>1. host'.accepts /\ host'.outages = host.outages /\ host'.granted = host.granted
    BY <1>1, <1>6 DEF Recover, TypeRest
  <2> QED
    BY <1>2, <1>3, <1>4, <2>1 DEF EpisodeInv, OneEpisodePerOutage, Paid
<1>7. CASE Reconnect
  <2>1. host'.accepts /\ host'.outages = host.outages /\ host'.granted = episode.open
    BY <1>1, <1>7 DEF Reconnect, TypeRest
  <2> QED
    BY <1>2, <1>3, <1>4, <2>1 DEF EpisodeInv, OneEpisodePerOutage, Paid
<1>8. CASE UNCHANGED host
  BY <1>2, <1>3, <1>8, EpisodeKept
<1> QED
  BY <1>5, <1>6, <1>7, <1>8 DEF Calendar, HostEdits

\* No outage begins two episodes, and a parked row is in the one that is open: a
\* refusal counts as news only if its attempt was claimed after the last resume,
\* and such an attempt met an outage of its own (disconnectEpisode, resumeQueue,
\* parkInvitationAndQueue).
THEOREM OneEpisode == Spec => []OneEpisodePerOutage
<1>1. Init => EpisodeInv
  BY IdleJob DEF Init, EpisodeInv, OneEpisodePerOutage, Absent, News, Finishing, At, Paid
<1>2. Core /\ EpisodeInv /\ [Next]_vars => EpisodeInv'
  <2>. SUFFICES ASSUME Core, EpisodeInv, [Next]_vars PROVE EpisodeInv'
    OBVIOUS
  <2>1. CASE UNCHANGED vars
    <3>1. \A w \in Workers : News(w)' => News(w)
      BY <2>1 DEF vars, News, Finishing, At
    <3> QED
      BY <2>1, <3>1, EpisodeKept DEF vars
  <2> QED
    BY <2>1, AskedEpisode, DeliversEpisode, OtherEpisode, ResumeEpisode, CalendarEpisode DEF Next
<1>3. EpisodeInv => OneEpisodePerOutage
  BY DEF EpisodeInv
<1> QED
  BY <1>1, <1>2, <1>3, InOrder, PTL DEF Spec

-----------------------------------------------------------------------------
(***************************************************************************)
(* What is said of the event is true, unless a lease ran out under it.     *)
(***************************************************************************)
Unworked(i) == \A w \in Workers : ~Works(w, i)

\* A row that is not held has no worker, and two workers have no lease.
LEMMA Unheld ==
  ASSUME Core, EventInv, NEW i \in Invites,
         ~row[i].held \/ row[i].status \notin Queued \cup {"erased"}
  PROVE  lapsed[i] \/ Unworked(i)
<1>1. ~row[i].held
  BY CoreTyped DEF RowType
<1> QED
  BY <1>1 DEF EventInv, LeaseOK, Unworked

LEMMA TwoWorkers ==
  ASSUME EventInv, NEW i \in Invites, NEW v \in Workers, NEW w \in Workers, v # w,
         Works(v, i), Works(w, i)
  PROVE  lapsed[i]
  BY DEF EventInv, LeaseOK

\* The news a worker has of a save is not lost on the way.
LEMMA UnreportedKept ==
  ASSUME NEW i \in Invites, \A v \in Workers : Inv(v) = i /\ Finishing(v) => JobKept(v)
  PROVE  Unreported(i) => Unreported(i)'
<1>. SUFFICES ASSUME Unreported(i) PROVE Unreported(i)'
  OBVIOUS
<1>1. PICK v \in Workers :
        Inv(v) = i /\ Finishing(v) /\ work[v].found /\ work[v].claim.command # "cancel"
  BY DEF Unreported
<1>2. /\ work'[v].inv = i /\ work'[v].pc = "finish" /\ work'[v].found
      /\ work'[v].claim.command # "cancel"
  BY <1>1 DEF JobKept, Inv, Finishing, At
<1> QED
  BY <1>2 DEF Unreported, Inv, Finishing, At

LEMMA IdleKnows ==
  ASSUME NEW w \in Workers, work'[w].pc = "idle"
  PROVE  Knows(w)'
  BY DEF Knows, Stands, Finishing, At, Delivering

\* What a worker knows stays true while nobody touches the event.
LEMMA KnowsKept ==
  ASSUME NEW w \in Workers, Knows(w), JobKept(w), NEW i \in Invites, i = Inv(w),
         event'[i] = event[i],
         Works(w, i) /\ edited[i] => edited'[i] \/ lapsed[i], lapsed[i] => lapsed'[i],
         work'[w].current => row'[i].status = row[i].status,
         work'[w].current /\ (Unreported(i) \/ lost[i]) => Unreported(i)' \/ lost'[i]
  PROVE  Knows(w)'
<1>1. work'[w].inv = i /\ work[w].inv = i
  BY DEF JobKept, Inv
<1>2. /\ work'[w].pc = work[w].pc /\ work'[w].claim = work[w].claim
      /\ work'[w].found = work[w].found /\ work'[w].err = work[w].err
      /\ work'[w].seen = work[w].seen /\ (work'[w].current => work[w].current)
  BY DEF JobKept
<1>3. (work[w].pc \in Delivering /\ (work[w].found \/ work[w].claim.receipt) => event'[i] # None)
      /\ (work[w].pc = "delete" => event'[i] # None)
      /\ (work[w].pc = "import" => work[w].seen # None /\ (work[w].seen = Gone => event'[i] = Gone))
  BY <1>1 DEF Knows, At, Inv
<1>4. ASSUME work[w].pc = "finish", work[w].err = "none"
      PROVE  IF work[w].claim.command = "cancel"
               THEN event'[i] \in Slots => lapsed'[i]
               ELSE work[w].found
                    /\ (event'[i] = work[w].claim.slot \/ edited'[i] \/ lapsed'[i])
  BY <1>1, <1>4 DEF Knows, Finishing, At, Inv, Live, Works, Delivering
<1>5. ASSUME work[w].pc = "finish", work'[w].current, row'[i].status # "erased",
             work[w].err = "none", work[w].claim.command = "cancel", event'[i] \in Slots
      PROVE  Unreported(i)' \/ lost'[i]
  <2>1. Stands(w) /\ Live(i)
    BY <1>1, <1>2, <1>5 DEF Stands, Finishing, At, Inv, Live
  <2>2. Unreported(i) \/ lost[i]
    BY <1>5, <2>1 DEF Knows
  <2> QED
    BY <1>5, <2>2
<1>6. Inv(w)' = i /\ Live(Inv(w))' = (event'[i] \in Slots) /\ Unreported(Inv(w))' = Unreported(i)'
  BY <1>1 DEF Inv, Live, Unreported
<1> QED
  BY <1>1, <1>2, <1>3, <1>4, <1>5, <1>6 DEF Knows, Stands, Finishing, At

LEMMA TellsKept ==
  ASSUME NEW i \in Invites, Tells(i), RowKept(i), event'[i] = event[i],
         edited[i] => edited'[i], lapsed[i] => lapsed'[i],
         Unreported(i) \/ lost[i] => Unreported(i)' \/ lost'[i]
  PROVE  Tells(i)'
  BY DEF Tells, RowKept, Live

\* Nobody touches an event; the rows of S change, and their workers are outdated.
LEMMA EventFrom ==
  ASSUME Core, EventInv, NEW S \in SUBSET Invites,
         UNCHANGED <<event, lapsed>>,
         \A j \in Invites : edited[j] => edited'[j] \/ (j \in S /\ (lapsed[j] \/ Unworked(j))),
         \A j \in Invites \ S : row'[j] = row[j] /\ meeting'[j] = meeting[j],
         \A j \in Invites \ S : Unreported(j) \/ lost[j] => Unreported(j)' \/ lost'[j],
         \A w \in Workers :
      work'[w].pc = "idle" \/ (JobKept(w) /\ (work'[w].current => Inv(w) \notin S)),
         \A j \in S : (lapsed[j] \/ row'[j].held = row[j].held \/ \A w \in Workers : ~Works(w, j)')
                     /\ Tells(j)'
  PROVE  EventInv'
<1>1. \A w \in Workers, j \in Invites : Works(w, j)' => Works(w, j) /\ JobKept(w)
  BY DEF Works, Inv, JobKept, Delivering
<1>2. ASSUME NEW j \in Invites PROVE LeaseOK(j)'
  <2>1. LeaseOK(j)
    BY DEF EventInv
  <2>2. lapsed[j] \/ row'[j].held = row[j].held \/ \A w \in Workers : ~Works(w, j)'
    OBVIOUS
  <2>3. lapsed'[j] = lapsed[j]
    OBVIOUS
  <2>4. CASE lapsed[j]
    BY <2>3, <2>4 DEF LeaseOK
  <2>5. CASE \A w \in Workers : ~Works(w, j)'
    BY <2>5 DEF LeaseOK
  <2>6. CASE row'[j].held = row[j].held
    BY <1>1, <2>1, <2>3, <2>6 DEF LeaseOK
  <2> QED
    BY <2>2, <2>4, <2>5, <2>6
<1>3. ASSUME NEW w \in Workers PROVE Knows(w)'
  <2>1. CASE work'[w].pc = "idle"
    BY <2>1, IdleKnows
  <2>2. CASE work'[w].pc # "idle"
    <3>1. JobKept(w) /\ work[w].pc # "idle" /\ (work'[w].current => Inv(w) \notin S)
      BY <2>2 DEF JobKept
    <3>2. PICK i \in Invites : i = Inv(w)
      BY <3>1, InHand DEF Inv
    <3>3. event'[i] = event[i] /\ (lapsed[i] => lapsed'[i])
      OBVIOUS
    <3>4. Works(w, i) /\ edited[i] => edited'[i] \/ lapsed[i]
      BY DEF Unworked
    <3>5. work'[w].current => i \notin S
      BY <3>1, <3>2
    <3>6. /\ work'[w].current => row'[i].status = row[i].status
          /\ work'[w].current /\ (Unreported(i) \/ lost[i]) => Unreported(i)' \/ lost'[i]
      BY <3>5
    <3>7. Knows(w)
      BY DEF EventInv
    <3> QED
      BY <3>1, <3>2, <3>3, <3>4, <3>6, <3>7, KnowsKept
  <2> QED
    BY <2>1, <2>2
<1>4. ASSUME NEW j \in Invites PROVE Tells(j)'
  <2>1. CASE j \in S
    BY <2>1
  <2>2. CASE j \notin S
    <3>1. Tells(j) /\ RowKept(j)
      BY <2>2 DEF EventInv, RowKept
    <3>2. /\ event'[j] = event[j] /\ (edited[j] => edited'[j]) /\ (lapsed[j] => lapsed'[j])
          /\ Unreported(j) \/ lost[j] => Unreported(j)' \/ lost'[j]
      BY <2>2
    <3> QED
      BY <3>1, <3>2, TellsKept
  <2> QED
    BY <2>1, <2>2
<1> QED
  BY <1>2, <1>3, <1>4 DEF EventInv

\* Workers are outdated, and one may be done, which need not concern the others.
LEMMA OutdatedWork ==
  ASSUME Core, NEW S, work' = Outdated(S)
  PROVE  /\ \A w \in Workers : JobKept(w) /\ (work'[w].current => Inv(w) \notin S)
         /\ \A j \in Invites : Unreported(j) => Unreported(j)'
<1>1. \A w \in Workers : JobKept(w) /\ (work'[w].current => Inv(w) \notin S)
  BY OutdatedKeeps, CoreTyped DEF JobKept
<1> QED
  BY <1>1, UnreportedKept

LEMMA DoneWork ==
  ASSUME Core, NEW v \in Workers, NEW S,
         \/ work' = [Outdated(S) EXCEPT ![v] = Idle]
         \/ S = {} /\ work' = [work EXCEPT ![v] = Idle]
  PROVE  /\ work'[v] = Idle
         /\ \A w \in Workers \ {v} : JobKept(w) /\ (work'[w].current => Inv(w) \notin S)
         /\ \A j \in Invites \ {Inv(v)} : Unreported(j) => Unreported(j)'
<1>1. work \in [Workers -> Jobs] /\ Outdated(S) \in [Workers -> Jobs]
  BY OutdatedKeeps, CoreTyped
<1>2. work'[v] = Idle
        /\ \A w \in Workers \ {v} :
              work'[w] = Outdated(S)[w] \/ (S = {} /\ work'[w] = work[w])
  BY <1>1
<1>3. \A w \in Workers \ {v} : JobKept(w) /\ (work'[w].current => Inv(w) \notin S)
  BY <1>1, <1>2, OutdatedKeeps DEF JobKept
<1>4. ASSUME NEW j \in Invites \ {Inv(v)} PROVE Unreported(j) => Unreported(j)'
  BY <1>3, UnreportedKept
<1> QED
  BY <1>2, <1>3, <1>4

\* What a row says of its event when it is in none of the states that say much.
LEMMA TellsLittle ==
  ASSUME NEW i \in Invites, row'[i].status \notin {"confirmed", "canceled", "erased"},
         row'[i].receipt => event'[i] # None
  PROVE  Tells(i)'
  BY DEF Tells

LEMMA AskedEvent ==
  ASSUME Core, EventInv, NEW i \in Invites, Asked(i)
  PROVE  EventInv'
<1>1. /\ UNCHANGED <<event, lapsed, edited, lost>> /\ work' = Outdated({i})
      /\ \A j \in Invites \ {i} : meeting'[j] = meeting[j]
  BY CoreTyped DEF Asked, CreateInvitation, Reschedule, Cancel, Retry, Erase, Change, history, TypeRest
<1>2. /\ \A w \in Workers : JobKept(w) /\ (work'[w].current => Inv(w) \notin {i})
      /\ \A j \in Invites : Unreported(j) => Unreported(j)'
  BY <1>1, OutdatedWork
<1>3. Tells(i) /\ RowOK(i)
  BY CoreTyped DEF EventInv
<1>4. /\ OthersSame(i) /\ row'[i].receipt = row[i].receipt /\ row'[i].held = row[i].held
      /\ \/ row'[i].status \in Queued
         \/ row'[i].status = "erased" /\ row'[i].clean = row[i].clean /\ row[i].status # "erased"
  <2>1. ASSUME NEW s \in Slots, CreateInvitation(i, s)
        PROVE  OthersSame(i) /\ row'[i].receipt = row[i].receipt /\ row'[i].held = row[i].held
               /\ row'[i].status \in Queued
    BY <2>1, CreateCore DEF Now, Queued
  <2>2. ASSUME NEW s \in Slots, Reschedule(i, s)
        PROVE  OthersSame(i) /\ row'[i].receipt = row[i].receipt /\ row'[i].held = row[i].held
               /\ row'[i].status \in Queued
    BY <2>2, RescheduleCore DEF Now, Queued
  <2>3. CASE Cancel(i)
    BY <2>3, CancelCore DEF Now, Queued
  <2>4. CASE Retry(i)
    <3>1. row[i].command \in Commands
      BY CoreTyped DEF Rows
    <3>2. PendingFor(row[i].command) \in Queued
      BY <3>1 DEF Commands, PendingFor, Queued
    <3> QED
      BY <2>4, <3>2, RetryCore DEF Now
  <2>5. CASE Erase(i)
    BY <2>5, EraseCore DEF Now, Erase
  <2> QED
    BY <2>1, <2>2, <2>3, <2>4, <2>5 DEF Asked
<1>5. Tells(i)'
  <2>1. row'[i].receipt => event'[i] # None
    BY <1>1, <1>3, <1>4 DEF Tells
  <2>2. CASE row'[i].status \in Queued
    BY <2>1, <2>2, TellsLittle DEF Queued
  <2>3. CASE row'[i].status = "erased" /\ row'[i].clean = row[i].clean /\ row[i].status # "erased"
    BY <1>3, <2>1, <2>3 DEF Tells, RowOK
  <2> QED
    BY <1>4, <2>2, <2>3
<1>6. {i} \in SUBSET Invites
  OBVIOUS
<1>7. \A j \in Invites \ {i} : row'[j] = row[j] /\ meeting'[j] = meeting[j]
  BY <1>1, <1>4 DEF OthersSame
<1>8. \A j \in Invites : Unreported(j) \/ lost[j] => Unreported(j)' \/ lost'[j]
  BY <1>1, <1>2
<1> QED
  BY <1>1, <1>2, <1>4, <1>5, <1>6, <1>7, <1>8, EventFrom

\* A worker that is done leaves nobody on its row, or a lease had run out there.
LEMMA LastWorker ==
  ASSUME EventInv, NEW w \in Workers, NEW i \in Invites, Works(w, i), work'[w] = Idle,
         \A v \in Workers \ {w} : JobKept(v)
  PROVE  lapsed[i] \/ \A v \in Workers : ~Works(v, i)'
<1>1. ASSUME NEW v \in Workers, Works(v, i)' PROVE v # w /\ Works(v, i)
  BY <1>1, IdleJob DEF Works, Delivering, Inv, JobKept
<1> QED
  BY <1>1, TwoWorkers

LEMMA FinishErasedEvent ==
  ASSUME Core, EventInv, NEW w \in Workers, FinishErased(w)
  PROVE  EventInv'
<1>0. work[w].pc = "finish"
  BY DEF FinishErased, Finishing, At
<1>i. PICK i \in Invites : i = Inv(w)
  BY <1>0, InHand DEF Inv
<1>1. UNCHANGED <<meeting, event, lapsed, edited, lost>> /\ work' = [work EXCEPT ![w] = Idle]
  BY DEF FinishErased, history
<1>2. /\ work'[w] = Idle /\ work'[w].pc = "idle"
      /\ \A v \in Workers \ {w} : JobKept(v)
      /\ \A j \in Invites \ {i} : Unreported(j) => Unreported(j)'
  BY <1>i, <1>1, DoneWork, IdleJob
<1>3. PICK b \in BOOLEAN, c \in BOOLEAN :
        /\ b <=> (row[i].receipt \/ work[w].found)
        /\ c <=> (work[w].claim.status = "erased" /\ work[w].err = "none")
        /\ Now(i, "erased", row[i].command, row[i].slot, b, FALSE, c)
  BY <1>i, FinishErasedCore
<1>4. Works(w, i)
  BY <1>0, <1>i DEF Works, Delivering
<1>5. JobOK(w) /\ Knows(w) /\ Tells(i)
  BY CoreTyped DEF EventInv
<1>6. b => event[i] # None
  BY <1>0, <1>i, <1>3, <1>5 DEF Knows, Tells, Delivering
<1>7. c /\ Live(i) => lapsed[i]
  <2>. SUFFICES ASSUME c, Live(i) PROVE lapsed[i]
    OBVIOUS
  <2>1. work[w].claim.command = "cancel" /\ work[w].err = "none"
    BY <1>0, <1>3, <1>5 DEF JobOK, Delivering
  <2> QED
    BY <1>0, <1>i, <1>5, <2>1 DEF Knows, Finishing, At
<1>8. Tells(i)'
  <2>1. /\ row'[i].status = "erased" /\ row'[i].receipt = b /\ row'[i].clean = c
        /\ event' = event /\ lapsed' = lapsed
    BY <1>1, <1>3 DEF Now
  <2> QED
    BY <1>6, <1>7, <2>1 DEF Tells, Live
\* Workers of i are not outdated here, but they no longer stand.
<1>9. ASSUME NEW v \in Workers PROVE Knows(v)'
  <2>1. CASE v = w
    BY <1>2, <2>1, IdleKnows
  <2>2. CASE v # w
    <3>1. JobKept(v) /\ Knows(v)
      BY <1>2, <2>2 DEF EventInv
    <3>2. CASE work'[v].pc = "idle"
      BY <3>2, IdleKnows
    <3>3. CASE work'[v].pc # "idle"
      <4>1. PICK j \in Invites : j = Inv(v)
        BY <3>1, <3>3, InHand DEF JobKept, Inv
      <4>2. event'[j] = event[j] /\ (edited[j] => edited'[j]) /\ (lapsed[j] => lapsed'[j])
        BY <1>1
      <4>3. CASE j # i
        <5>1. row'[j] = row[j] /\ (Unreported(j) \/ lost[j] => Unreported(j)' \/ lost'[j])
          BY <1>1, <1>2, <1>3, <4>3 DEF Now, OthersSame
        <5> QED
          BY <3>1, <4>1, <4>2, <5>1, KnowsKept
      <4>4. CASE j = i
        <5>1. ~Stands(v)' /\ Inv(v)' = i
          BY <1>3, <3>1, <4>1, <4>4 DEF Stands, Inv, JobKept, Now
        <5> QED
          BY <1>1, <3>1, <4>1, <4>4, <5>1
          DEF Knows, JobKept, Finishing, At, Inv, Live, Delivering
      <4> QED
        BY <4>3, <4>4
    <3> QED
      BY <3>2, <3>3
  <2> QED
    BY <2>1, <2>2
<1>10. ASSUME NEW j \in Invites PROVE LeaseOK(j)' /\ Tells(j)'
  <2>1. CASE j # i
    <3>1. row'[j] = row[j] /\ RowKept(j) /\ (Unreported(j) \/ lost[j] => Unreported(j)' \/ lost'[j])
      BY <1>1, <1>2, <1>3, <2>1 DEF Now, OthersSame, RowKept
    <3>2. Tells(j)'
      BY <1>1, <3>1, TellsKept DEF EventInv
    <3>3. \A v \in Workers : Works(v, j)' => Works(v, j)
      BY <1>2, IdleJob DEF Works, JobKept, Inv, Delivering
    <3> QED
      BY <1>1, <3>1, <3>2, <3>3 DEF EventInv, LeaseOK
  <2>2. CASE j = i
    BY <1>1, <1>2, <1>4, <1>8, <2>2, LastWorker DEF LeaseOK
  <2> QED
    BY <2>1, <2>2
<1> QED
  BY <1>9, <1>10 DEF EventInv

LEMMA FinishSupersededEvent ==
  ASSUME Core, EventInv, NEW w \in Workers, FinishSuperseded(w)
  PROVE  EventInv'
<1>0. work[w].pc = "finish"
  BY DEF FinishSuperseded, Finishing, At
<1>i. PICK i \in Invites : i = Inv(w)
  BY <1>0, InHand DEF Inv
<1>1. UNCHANGED <<meeting, event, lapsed, edited, lost>>
  BY DEF FinishSuperseded, history
<1>2. Works(w, i) /\ Knows(w) /\ Tells(i)
  BY <1>0, <1>i DEF Works, Delivering, EventInv
<1>3. CASE /\ row[i].command = "cancel" /\ work[w].claim.command # "cancel" /\ work[w].found
           /\ Finished(w, Reopened(row[i]))
  <2>1. work' = [Outdated({i}) EXCEPT ![w] = Idle]
    BY <1>i, <1>3 DEF Finished
  <2>2. /\ work'[w] = Idle /\ work'[w].pc = "idle"
        /\ \A v \in Workers \ {w} : JobKept(v) /\ (work'[v].current => Inv(v) \notin {i})
        /\ \A j \in Invites \ {i} : Unreported(j) => Unreported(j)'
    BY <1>i, <2>1, DoneWork, IdleJob
  <2>3. Write(i, Reopened(row[i]))
    BY <1>i, <1>3 DEF Finished
  <2>4. Reopened(row[i]) \in Rows /\ Reopened(row[i]).status = "canceling"
    <3>1. 0 \in 0..MaxAttempts /\ row[i] \in Rows
      BY CoreTyped, InvitationAssumption
    <3> QED
      BY <3>1 DEF Reopened, Rows, Statuses, Queued
  <2>5. row'[i].status = "canceling" /\ OthersSame(i)
    BY <2>3, <2>4, WrittenSays DEF Says
  <2>6. event'[i] # None
    BY <1>0, <1>i, <1>1, <1>2, <1>3 DEF Knows, Delivering
  <2>7. Tells(i)'
    BY <2>5, <2>6, TellsLittle
  <2>8. lapsed[i] \/ \A v \in Workers : ~Works(v, i)'
    BY <1>2, <2>2, LastWorker
  <2>9. {i} \in SUBSET Invites
    OBVIOUS
  <2>10. \A v \in Workers :
      work'[v].pc = "idle" \/ (JobKept(v) /\ (work'[v].current => Inv(v) \notin {i}))
    BY <2>2
  <2> QED
    BY <1>1, <2>2, <2>5, <2>7, <2>8, <2>9, <2>10, EventFrom DEF OthersSame
<1>4. CASE /\ ~(row[i].command = "cancel" /\ work[w].claim.command # "cancel" /\ work[w].found)
           /\ work' = [work EXCEPT ![w] = Idle] /\ UNCHANGED row
  <2>1. /\ work'[w] = Idle /\ work'[w].pc = "idle"
        /\ \A v \in Workers \ {w} : JobKept(v)
        /\ \A j \in Invites \ {i} : Unreported(j) => Unreported(j)'
    BY <1>i, <1>4, DoneWork, IdleJob
  \* If it was the one with the news, nobody waits for them.
  <2>2. row[i].command = "cancel" => (Unreported(i) => Unreported(i)')
    <3>. SUFFICES ASSUME row[i].command = "cancel", Unreported(i) PROVE Unreported(i)'
      OBVIOUS
    <3>1. PICK v \in Workers :
            Inv(v) = i /\ Finishing(v) /\ work[v].found /\ work[v].claim.command # "cancel"
      BY DEF Unreported
    <3>2. v # w
      BY <1>4, <3>1
    <3>3. work'[v] = work[v]
      BY <1>4, <3>2, CoreTyped
    <3> QED
      BY <3>1, <3>3 DEF Unreported, Inv, Finishing, At
  <2>3. ASSUME NEW v \in Workers PROVE Knows(v)'
    <3>1. CASE work'[v].pc = "idle"
      BY <3>1, IdleKnows
    <3>2. CASE work'[v].pc # "idle"
      <4>1. v # w /\ JobKept(v) /\ Knows(v) /\ JobOK(v) /\ work[v].pc # "idle"
        BY <2>1, <3>2, CoreTyped DEF EventInv, JobKept
      <4>2. PICK j \in Invites : j = Inv(v)
        BY <4>1, InHand DEF Inv
      <4>3. work'[v].inv = j /\ row'[j] = row[j] /\ event'[j] = event[j]
            /\ (edited[j] => edited'[j]) /\ (lapsed[j] => lapsed'[j])
        BY <1>1, <1>4, <4>1, <4>2 DEF JobKept, Inv
      <4>4. CASE j # i \/ row[i].command = "cancel"
        <5>1. Unreported(j) \/ lost[j] => Unreported(j)' \/ lost'[j]
          BY <1>1, <2>1, <2>2, <4>4
        <5> QED
          BY <4>1, <4>2, <4>3, <5>1, KnowsKept
      <4>5. CASE j = i /\ row[i].command # "cancel"
        <5>1. ~(Stands(v)' /\ work'[v].claim.command = "cancel")
          BY <4>1, <4>2, <4>3, <4>5 DEF Stands, Inv, JobKept, JobOK, Finishing, At, Delivering
        <5> QED
          BY <1>1, <4>1, <4>2, <4>3, <5>1
          DEF Knows, JobKept, Finishing, At, Inv, Live, Delivering
      <4> QED
        BY <4>4, <4>5
    <3> QED
      BY <3>1, <3>2
  <2>4. ASSUME NEW j \in Invites PROVE LeaseOK(j)' /\ Tells(j)'
    <3>1. LeaseOK(j)'
      <4>1. \A v \in Workers : Works(v, j)' => Works(v, j)
        BY <2>1, IdleJob DEF Works, JobKept, Inv, Delivering
      <4> QED
        BY <1>1, <1>4, <4>1 DEF EventInv, LeaseOK
    <3>2. RowKept(j) /\ Tells(j)
      BY <1>1, <1>4 DEF RowKept, EventInv
    <3>3. CASE j # i \/ row[i].command = "cancel"
      <4>1. Unreported(j) \/ lost[j] => Unreported(j)' \/ lost'[j]
        BY <1>1, <2>1, <2>2, <3>3
      <4> QED
        BY <1>1, <3>1, <3>2, <4>1, TellsKept
    <3>4. CASE j = i /\ row[i].command # "cancel"
      <4>1. row[i].status = "canceled" => ~Live(i)
        BY <3>2, <3>4, InvitationAssumption DEF Tells, Live
      <4> QED
        BY <1>1, <1>4, <3>1, <3>2, <3>4, <4>1 DEF Tells, RowKept, Live
    <3> QED
      BY <3>3, <3>4
  <2> QED
    BY <2>3, <2>4 DEF EventInv
<1> QED
  BY <1>i, <1>3, <1>4 DEF FinishSuperseded

LEMMA ParkEvent ==
  ASSUME Core, EventInv, NEW w \in Workers, Park(w)
  PROVE  EventInv'
<1>0. work[w].pc = "finish"
  BY DEF Park, Stands, Finishing, At
<1>i. PICK i \in Invites : i = Inv(w)
  BY <1>0, InHand DEF Inv
<1>. DEFINE S == {i} \cup Waiting(i)
<1>1. UNCHANGED <<meeting, event, lapsed, edited, lost>> /\ work' = [Outdated(S) EXCEPT ![w] = Idle]
  BY <1>i DEF Park, history
<1>2. /\ \A j \in S : PutAside(j, Current)
      /\ \A j \in Invites \ S : row'[j] = row[j]
  BY <1>i, ParkCore
<1>3. S \in SUBSET Invites /\ i \in S /\ \A j \in S \ {i} : ~row[j].held
  BY DEF Waiting
<1>. HIDE DEF S
<1>4. /\ work'[w] = Idle /\ work'[w].pc = "idle"
      /\ \A v \in Workers \ {w} : JobKept(v) /\ (work'[v].current => Inv(v) \notin S)
      /\ \A j \in Invites \ {i} : Unreported(j) => Unreported(j)'
  BY <1>i, <1>1, DoneWork, IdleJob
<1>5. Works(w, i)
  BY <1>0, <1>i DEF Works, Delivering
<1>6. ASSUME NEW j \in S
      PROVE  /\ lapsed[j] \/ row'[j].held = row[j].held \/ \A v \in Workers : ~Works(v, j)'
             /\ Tells(j)'
  <2>1. PutAside(j, Current) /\ Tells(j)
    BY <1>2, <1>3 DEF EventInv
  <2>2. Tells(j)'
    BY <1>1, <2>1, TellsLittle, <1>3 DEF PutAside, Tells
  <2>3. CASE j = i
    BY <1>4, <1>5, <2>2, <2>3, LastWorker
  <2>4. CASE j # i
    <3>1. row[j].held = FALSE /\ row'[j].held = FALSE
      <4>1. row[j].held \in BOOLEAN
        BY <1>3, CoreTyped DEF Rows
      <4> QED
        BY <1>3, <2>1, <2>4, <4>1 DEF PutAside
    <3> QED
      BY <2>2, <3>1
  <2> QED
    BY <2>3, <2>4
<1>7. \A v \in Workers :
      work'[v].pc = "idle" \/ (JobKept(v) /\ (work'[v].current => Inv(v) \notin S))
  BY <1>4
<1> QED
  BY <1>1, <1>2, <1>3, <1>4, <1>6, <1>7, EventFrom

LEMMA PostponeEvent ==
  ASSUME Core, EventInv, NEW w \in Workers, Postpone(w)
  PROVE  EventInv'
<1>0. work[w].pc = "finish"
  BY DEF Postpone, Stands, Finishing, At
<1>i. PICK i \in Invites : i = Inv(w)
  BY <1>0, InHand DEF Inv
<1>1. UNCHANGED <<meeting, event, lapsed, edited, lost>> /\ work' = [Outdated({i}) EXCEPT ![w] = Idle]
  BY <1>i DEF Postpone, Finished, history
<1>2. /\ work'[w] = Idle /\ work'[w].pc = "idle"
      /\ \A v \in Workers \ {w} : JobKept(v) /\ (work'[v].current => Inv(v) \notin {i})
      /\ \A j \in Invites \ {i} : Unreported(j) => Unreported(j)'
  BY <1>i, <1>1, DoneWork, IdleJob
<1>3. /\ row'[i].status \in Queued \cup {"needs_attention"} /\ row'[i].receipt = row[i].receipt
      /\ OthersSame(i)
  BY <1>i, PostponeCore DEF Now
<1>4. Works(w, i) /\ Tells(i)
  BY <1>0, <1>i DEF Works, Delivering, EventInv
<1>5. Tells(i)'
  BY <1>1, <1>3, <1>4, TellsLittle DEF Queued, Tells
<1>6. lapsed[i] \/ \A v \in Workers : ~Works(v, i)'
  BY <1>2, <1>4, LastWorker
<1>7. {i} \in SUBSET Invites
  OBVIOUS
<1>8. \A v \in Workers :
      work'[v].pc = "idle" \/ (JobKept(v) /\ (work'[v].current => Inv(v) \notin {i}))
  BY <1>2
<1> QED
  BY <1>1, <1>2, <1>3, <1>5, <1>6, <1>7, <1>8, EventFrom DEF OthersSame

LEMMA SettleEvent ==
  ASSUME Core, EventInv, NEW w \in Workers, Settle(w)
  PROVE  EventInv'
<1>0. work[w].pc = "finish" /\ work[w].err = "none" /\ Stands(w)
  BY DEF Settle, Stands, Finishing, At
<1>i. PICK i \in Invites : i = Inv(w)
  BY <1>0, InHand DEF Inv
<1>1. /\ UNCHANGED <<event, lapsed, edited, lost>> /\ work' = [Outdated({i}) EXCEPT ![w] = Idle]
      /\ meeting' = [meeting EXCEPT ![i] = Settled(i)]
  BY <1>i DEF Settle, Finished
<1>m. meeting'[i] = Settled(i) /\ \A j \in Invites \ {i} : meeting'[j] = meeting[j]
  BY <1>1, CoreTyped DEF TypeRest
<1>2. /\ work'[w] = Idle /\ work'[w].pc = "idle"
      /\ \A v \in Workers \ {w} : JobKept(v) /\ (work'[v].current => Inv(v) \notin {i})
      /\ \A j \in Invites \ {i} : Unreported(j) => Unreported(j)'
  BY <1>i, <1>1, DoneWork, IdleJob
<1>3. Now(i, IF row[i].command = "cancel" THEN "canceled" ELSE "confirmed",
          row[i].command, row[i].slot, work[w].found, FALSE, row[i].clean)
  BY <1>i, SettleCore
<1>4. Works(w, i) /\ Knows(w) /\ JobOK(w)
  BY <1>0, <1>i, CoreTyped DEF Works, Delivering, EventInv
<1>5. work[w].claim.command = row[i].command /\ work[w].claim.slot = row[i].slot
  BY <1>0, <1>i, <1>4 DEF JobOK, Stands, Delivering
<1>6. work[w].found => event[i] # None
  BY <1>0, <1>i, <1>4 DEF Knows, Delivering
<1>7. CASE row[i].command = "cancel"
  <2>1. Live(i) => Unreported(i) \/ lost[i]
    BY <1>0, <1>i, <1>4, <1>5, <1>7 DEF Knows
  <2>2. Unreported(i) => Unreported(i)'
    <3>. SUFFICES ASSUME Unreported(i) PROVE Unreported(i)'
      OBVIOUS
    <3>1. PICK v \in Workers :
            Inv(v) = i /\ Finishing(v) /\ work[v].found /\ work[v].claim.command # "cancel"
      BY DEF Unreported
    <3>2. v # w
      BY <1>5, <1>7, <3>1
    <3>3. JobKept(v)
      BY <1>2, <3>2
    <3>4. /\ work'[v].inv = i /\ work'[v].pc = "finish" /\ work'[v].found
          /\ work'[v].claim.command # "cancel"
      BY <3>1, <3>3 DEF JobKept, Inv, Finishing, At
    <3> QED
      BY <3>4 DEF Unreported, Inv, Finishing, At
  <2>3. row'[i].status = "canceled" /\ row'[i].command = "cancel" /\ (row'[i].receipt => event'[i] # None)
    BY <1>1, <1>3, <1>6, <1>7 DEF Now
  <2>4. Tells(i)'
    BY <1>1, <2>1, <2>2, <2>3 DEF Tells, Live
  <2> QED
    BY <2>4, <1>1, <1>m, <1>2, <1>3, <1>4, LastWorker, EventFrom DEF Now, OthersSame
<1>8. CASE row[i].command # "cancel"
  <2>1. event[i] = row[i].slot \/ edited[i] \/ lapsed[i]
    BY <1>0, <1>i, <1>4, <1>5, <1>8 DEF Knows, Finishing, At
  <2>2. row'[i].status = "confirmed" /\ (row'[i].receipt => event'[i] # None) /\ meeting'[i] = row[i].slot
    BY <1>1, <1>m, <1>3, <1>6, <1>8 DEF Now, Settled
  <2>3. Tells(i)'
    BY <1>1, <2>1, <2>2 DEF Tells
  <2> QED
    BY <2>3, <1>1, <1>m, <1>2, <1>3, <1>4, LastWorker, EventFrom DEF Now, OthersSame
<1> QED
  BY <1>7, <1>8

LEMMA ImportsEvent ==
  ASSUME Core, EventInv, NEW w \in Workers, Imports(w)
  PROVE  EventInv'
<1>0. work[w].pc \in {"import", "warn"} /\ work[w].pc # "idle"
  BY DEF Imports, Import, Warn, At
<1>i. PICK i \in Invites : i = Inv(w)
  BY <1>0, InHand DEF Inv
<1>1. UNCHANGED <<event, lapsed, lost>>
  BY DEF Imports, Import, Warn, history
<1>2. CASE ~work[w].current
  <2>1. work' = [work EXCEPT ![w] = Idle] /\ UNCHANGED <<row, meeting, edited>>
    BY <1>2 DEF Imports, Import, Warn, StillAsSeen, history
  <2>2. work'[w] = Idle /\ work'[w].pc = "idle" /\ \A v \in Workers \ {w} : JobKept(v)
    BY <2>1, DoneWork, IdleJob
  <2>3. ASSUME NEW j \in Invites PROVE Unreported(j) => Unreported(j)'
    <3>1. \A v \in Workers : Finishing(v) => JobKept(v)
      BY <1>0, <2>2 DEF Finishing, At
    <3> QED
      BY <3>1, UnreportedKept
  <2>4. {} \in SUBSET Invites
    OBVIOUS
  <2>5. \A v \in Workers :
      work'[v].pc = "idle" \/ (JobKept(v) /\ (work'[v].current => Inv(v) \notin {}))
    BY <2>2
  <2> QED
    BY <1>1, <2>1, <2>3, <2>4, <2>5, EventFrom
<1>3. CASE work[w].current
  <2>1. work' = [Outdated({i}) EXCEPT ![w] = Idle]
    BY <1>i, <1>3 DEF Imports, Import, Warn, StillAsSeen, Finished
  <2>2. /\ work'[w] = Idle /\ work'[w].pc = "idle"
        /\ \A v \in Workers \ {w} : JobKept(v) /\ (work'[v].current => Inv(v) \notin {i})
        /\ \A j \in Invites \ {i} : Unreported(j) => Unreported(j)'
    BY <1>i, <2>1, DoneWork, IdleJob
  <2>3. /\ row[i].status = "confirmed" /\ OthersSame(i)
        /\ row'[i].receipt = row[i].receipt /\ row'[i].held = row[i].held
    BY <1>i, <1>3, ImportCore, WarnCore DEF Imports, Now
  <2>4. lapsed[i] \/ Unworked(i)
    BY <2>3, Unheld DEF Queued
  <2>5. Knows(w) /\ Tells(i)
    BY DEF EventInv
  <2>6. /\ Tells(i)'
        /\ \A j \in Invites \ {i} : meeting'[j] = meeting[j] /\ edited'[j] = edited[j]
    <3>1. CASE Import(w)
      <4>. DEFINE seen == work[w].seen
      <4>1. /\ meeting' = [meeting EXCEPT ![i] = IF seen \in Slots THEN seen ELSE None]
            /\ edited' = [edited EXCEPT ![i] = event[i] # seen]
        BY <1>i, <1>3, <3>1 DEF Import, StillAsSeen
      <4>2. /\ meeting'[i] = IF seen \in Slots THEN seen ELSE None
            /\ edited'[i] = (event[i] # seen)
            /\ \A j \in Invites \ {i} : meeting'[j] = meeting[j] /\ edited'[j] = edited[j]
        BY <4>1, CoreTyped DEF TypeRest, Flags
      <4>3. Now(i, IF seen \in Slots THEN "confirmed" ELSE "canceled", row[i].command,
                IF seen \in Slots THEN seen ELSE row[i].slot,
                row[i].receipt, row[i].held, row[i].clean)
        BY <1>i, <1>3, <3>1, ImportCore
      <4>4. seen \in Slots \/ event[i] = Gone
        <5>1. seen \in Slots \cup {None, Gone}
          BY CoreTyped DEF Jobs
        <5> QED
          BY <1>i, <2>5, <3>1, <5>1 DEF Knows, Import
      <4>5. CASE seen \in Slots
        <5>1. row'[i].status = "confirmed" /\ meeting'[i] = seen
              /\ (event[i] = seen \/ edited'[i])
          BY <4>2, <4>3, <4>5 DEF Now
        <5>2. Tells(i)'
          BY <1>1, <2>3, <2>5, <5>1 DEF Tells
        <5> QED
          BY <4>2, <5>2
      <4>6. CASE seen \notin Slots
        <5>1. row'[i].status = "canceled" /\ event'[i] = Gone
          BY <1>1, <4>3, <4>4, <4>6 DEF Now
        <5>2. Tells(i)'
          BY <5>1, InvitationAssumption DEF Tells, Live
        <5> QED
          BY <4>2, <5>2
      <4> QED
        BY <4>5, <4>6
    <3>2. CASE Warn(w)
      <4>1. row'[i].status = "needs_attention"
        BY <1>i, <1>3, <3>2, WarnCore DEF Now
      <4> QED
        <5>1. UNCHANGED <<meeting, edited>>
          BY <3>2 DEF Warn, history
        <5>2. row'[i].receipt => event'[i] # None
          BY <1>1, <2>3, <2>5 DEF Tells
        <5> QED
          BY <4>1, <5>1, <5>2, TellsLittle
    <3> QED
      BY <3>1, <3>2 DEF Imports
  <2>7. {i} \in SUBSET Invites
    OBVIOUS
  <2>8. \A v \in Workers :
      work'[v].pc = "idle" \/ (JobKept(v) /\ (work'[v].current => Inv(v) \notin {i}))
    BY <2>2
  <2>9. \A j \in Invites : edited[j] => edited'[j] \/ (j \in {i} /\ (lapsed[j] \/ Unworked(j)))
    BY <2>4, <2>6
  <2> QED
    BY <1>1, <2>2, <2>3, <2>6, <2>7, <2>8, <2>9, EventFrom DEF OthersSame
<1> QED
  BY <1>2, <1>3

LEMMA ResumeEvent ==
  ASSUME Core, EventInv, Resume
  PROVE  EventInv'
<1>. DEFINE S == {j \in Invites : Parked(row[j])}
<1>1. UNCHANGED <<meeting, event, lapsed, edited, lost>>
  BY DEF Resume, history
<1>2. /\ \A j \in Invites : IF j \in S THEN SentOn(j) ELSE row'[j] = row[j]
      /\ \A w \in Workers : JobKept(w) /\ (work'[w].current => Inv(w) \notin S)
  BY ResumeCore
<1>3. S \in SUBSET Invites
  OBVIOUS
<1>. HIDE DEF S
<1>4. \A j \in Invites : Unreported(j) => Unreported(j)'
  BY <1>2, UnreportedKept
<1>5. ASSUME NEW j \in S PROVE row'[j].held = row[j].held /\ Tells(j)'
  <2>1. SentOn(j) /\ Tells(j)
    BY <1>2, <1>3 DEF EventInv
  <2>2. row'[j].receipt => event'[j] # None
    BY <1>1, <2>1 DEF SentOn, Tells
  <2> QED
    BY <1>3, <2>1, <2>2, TellsLittle DEF SentOn, Queued
<1>6. \A w \in Workers :
      work'[w].pc = "idle" \/ (JobKept(w) /\ (work'[w].current => Inv(w) \notin S))
  BY <1>2
<1> QED
  BY <1>1, <1>2, <1>3, <1>4, <1>5, <1>6, EventFrom

\* One worker goes on by itself.  If it takes news with it that no other has,
\* the row is under lease and says nothing yet.
LEMMA OneWorkerEvent ==
  ASSUME Core, EventInv, NEW w \in Workers,
         UNCHANGED <<row, meeting, event, edited, lapsed>>,
         \A v \in Workers \ {w} : JobKept(v),
         \A j \in Invites : Works(w, j)' => Works(w, j),
         Knows(w)',
         \A j \in Invites :
            (Unreported(j) \/ lost[j] => Unreported(j)' \/ lost'[j]) \/ (Works(w, j) /\ ~lapsed[j])
  PROVE  EventInv'
<1>1. ASSUME NEW j \in Invites PROVE LeaseOK(j)'
  <2>1. \A v \in Workers : Works(v, j)' => Works(v, j)
    BY DEF Works, JobKept, Inv
  <2> QED
    BY <2>1 DEF EventInv, LeaseOK
<1>2. ASSUME NEW j \in Invites PROVE Tells(j)'
  <2>1. RowKept(j) /\ Tells(j) /\ LeaseOK(j) /\ RowType(j)
    BY CoreTyped DEF RowKept, EventInv
  <2>2. CASE Unreported(j) \/ lost[j] => Unreported(j)' \/ lost'[j]
    BY <2>1, <2>2, TellsKept
  <2>3. CASE Works(w, j) /\ ~lapsed[j]
    <3>1. row[j].status # "canceled"
      BY <2>1, <2>3 DEF LeaseOK, RowType, Queued
    <3> QED
      BY <2>1, <3>1 DEF Tells, RowKept, Live
  <2> QED
    BY <2>2, <2>3
<1>3. ASSUME NEW v \in Workers PROVE Knows(v)'
  <2>1. CASE v = w
    BY <2>1
  <2>2. CASE v # w /\ work'[v].pc = "idle"
    BY <2>2, IdleKnows
  <2>3. CASE v # w /\ work'[v].pc # "idle"
    <3>1. JobKept(v) /\ Knows(v) /\ work[v].pc # "idle"
      BY <2>3 DEF EventInv, JobKept
    <3>2. PICK j \in Invites : j = Inv(v)
      BY <3>1, InHand DEF Inv
    <3>3. CASE Unreported(j) \/ lost[j] => Unreported(j)' \/ lost'[j]
      BY <3>1, <3>2, <3>3, KnowsKept
    <3>4. CASE Works(w, j) /\ ~lapsed[j]
      <4>1. work[v].pc \notin Delivering /\ work'[v].pc = work[v].pc /\ work'[v].inv = j
        BY <2>3, <3>1, <3>2, <3>4, TwoWorkers DEF Works, JobKept, Inv
      <4> QED
        BY <3>1, <3>2, <4>1 DEF Knows, JobKept, Stands, Finishing, At, Delivering, Inv
    <3> QED
      BY <3>3, <3>4
  <2> QED
    BY <2>1, <2>2, <2>3
<1> QED
  BY <1>1, <1>2, <1>3 DEF EventInv

LEMMA CrashEvent ==
  ASSUME Core, EventInv, NEW w \in Workers, Crash(w)
  PROVE  EventInv'
<1>0. work[w].pc \in Delivering /\ work[w].pc # "idle"
  BY DEF Crash, Delivering
<1>i. PICK i \in Invites : i = Inv(w)
  BY <1>0, InHand DEF Inv
<1>1. /\ UNCHANGED <<row, meeting, event, edited, lapsed>> /\ work' = [work EXCEPT ![w] = Idle]
      /\ lost' = [lost EXCEPT ![i] =
            @ \/ (Finishing(w) /\ work[w].found /\ work[w].claim.command # "cancel" /\ lapsed[i])]
  BY <1>i DEF Crash
<1>2. /\ work'[w] = Idle /\ work'[w].pc = "idle"
      /\ \A v \in Workers \ {w} : JobKept(v)
      /\ \A j \in Invites \ {i} : Unreported(j) => Unreported(j)'
  BY <1>i, <1>1, DoneWork, IdleJob
<1>3. /\ \A j \in Invites \ {i} : lost'[j] = lost[j]
      /\ lost'[i] <=> (lost[i] \/ (Finishing(w) /\ work[w].found
                                     /\ work[w].claim.command # "cancel" /\ lapsed[i]))
  BY <1>1, CoreTyped DEF TypeRest, Flags
<1>4. Works(w, i) /\ \A j \in Invites : ~Works(w, j)'
  BY <1>0, <1>i, <1>2 DEF Works, Delivering
<1>5. (Unreported(i) \/ lost[i] => Unreported(i)' \/ lost'[i]) \/ (Works(w, i) /\ ~lapsed[i])
  <2>. SUFFICES ASSUME Unreported(i), lapsed[i] PROVE Unreported(i)' \/ lost'[i]
    BY <1>3, <1>4
  <2>1. PICK v \in Workers :
          Inv(v) = i /\ Finishing(v) /\ work[v].found /\ work[v].claim.command # "cancel"
    BY DEF Unreported
  <2>2. CASE v = w
    BY <1>3, <2>1, <2>2
  <2>3. CASE v # w
    <3>1. JobKept(v)
      BY <1>2, <2>3
    <3> QED
      BY <2>1, <3>1 DEF Unreported, JobKept, Inv, Finishing, At
  <2> QED
    BY <2>2, <2>3
<1>6. \A j \in Invites :
        (Unreported(j) \/ lost[j] => Unreported(j)' \/ lost'[j]) \/ (Works(w, j) /\ ~lapsed[j])
  BY <1>2, <1>3, <1>5
<1> QED
  BY <1>1, <1>2, <1>4, <1>6, IdleKnows, OneWorkerEvent

\* A call of one worker that neither dropped nor lost any news.
LEMMA CallEvent ==
  ASSUME Core, EventInv, NEW w \in Workers, NEW job \in Jobs, Only(w, job),
         work[w].pc \in Delivering, job.inv = work[w].inv, job.claim = work[w].claim,
         Finishing(w) => job.pc = "finish" /\ job.found = work[w].found,
         Knows(w)'
  PROVE  EventInv'
<1>1. /\ UNCHANGED <<row, meeting, event, edited, lapsed, lost>> /\ work' = [work EXCEPT ![w] = job]
  BY DEF Only, history
<1>2. work'[w] = job /\ \A v \in Workers \ {w} : work'[v] = work[v]
  BY <1>1, CoreTyped
<1>3. \A v \in Workers \ {w} : JobKept(v)
  BY <1>2 DEF JobKept
<1>4. \A j \in Invites : Works(w, j)' => Works(w, j)
  BY <1>2 DEF Works, Inv
<1>5. ASSUME NEW j \in Invites, Unreported(j) PROVE Unreported(j)'
  <2>1. PICK v \in Workers :
          Inv(v) = j /\ Finishing(v) /\ work[v].found /\ work[v].claim.command # "cancel"
    BY <1>5 DEF Unreported
  <2>2. CASE v = w
    BY <1>2, <2>1, <2>2 DEF Unreported, Inv, Finishing, At
  <2>3. CASE v # w
    BY <1>2, <2>1, <2>3 DEF Unreported, Inv, Finishing, At
  <2> QED
    BY <2>2, <2>3
<1> QED
  BY <1>1, <1>3, <1>4, <1>5, OneWorkerEvent

LEMMA CallFailsEvent ==
  ASSUME Core, EventInv, NEW w \in Workers, CallFails(w)
  PROVE  EventInv'
<1>1. work[w].pc \in {"look", "save", "delete"} /\ work[w].pc \in Delivering
  BY DEF CallFails, Delivering
<1>2. PICK found \in KeptAfter(w), err \in {"failed", "refused"} : Only(w, Outcome(w, found, err))
  BY DEF CallFails
<1>3. found \in BOOLEAN
  <2>1. work[w].claim.receipt \in BOOLEAN
    BY CoreTyped DEF Jobs, Claims
  <2> QED
    BY <2>1 DEF KeptAfter
<1>. DEFINE o == Outcome(w, found, err)
<1>4. /\ o \in Jobs /\ o.pc = "finish" /\ o.inv = work[w].inv /\ o.claim = work[w].claim
      /\ o.found = found /\ o.err = err
  BY <1>3, OutcomeJob
<1>5. Only(w, o)
  BY <1>2
<1>. HIDE DEF o
<1>6. work'[w] = o /\ event' = event
  BY <1>4, <1>5, CoreTyped DEF Only
<1>7. found \/ work[w].claim.receipt => event[Inv(w)] # None
  <2>1. Knows(w)
    BY DEF EventInv
  <2>2. found => At(w, "delete") \/ work[w].claim.receipt
    BY <1>2 DEF KeptAfter
  <2> QED
    BY <1>1, <2>1, <2>2 DEF Knows
<1>8. Knows(w)'
  BY <1>4, <1>6, <1>7 DEF Knows, Stands, Finishing, At, Inv
<1> QED
  BY <1>1, <1>4, <1>5, <1>8, CallEvent DEF Finishing, At

LEMMA LookBeforeSaveEvent ==
  ASSUME Core, EventInv, NEW w \in Workers, LookBeforeSave(w)
  PROVE  EventInv'
<1>1. work[w].pc = "look" /\ work[w].pc \in Delivering /\ work[w].claim.command # "cancel"
  BY DEF LookBeforeSave, At, Delivering
<1>2. work[w].claim.slot \in Slots /\ Knows(w) /\ work[w] \in Jobs
  BY <1>1, CoreTyped DEF JobOK, EventInv
<1>3. CASE Only(w, Outcome(w, TRUE, "none")) /\ event[Inv(w)] = work[w].claim.slot
  <2>. DEFINE o == Outcome(w, TRUE, "none")
  <2>1. /\ o \in Jobs /\ o.pc = "finish" /\ o.inv = work[w].inv /\ o.claim = work[w].claim
        /\ o.found = TRUE /\ o.err = "none"
    BY OutcomeJob
  <2>2. Only(w, o)
    BY <1>3
  <2>. HIDE DEF o
  <2>3. work'[w] = o /\ event' = event
    BY <2>1, <2>2, CoreTyped DEF Only
  <2>4. Knows(w)'
    BY <1>1, <1>2, <1>3, <2>1, <2>3, InvitationAssumption DEF Knows, Stands, Finishing, At, Inv
  <2> QED
    BY <1>1, <2>1, <2>2, <2>4, CallEvent DEF Finishing, At
<1>4. CASE Only(w, [work[w] EXCEPT !.pc = "save"])
  <2>. DEFINE o == [work[w] EXCEPT !.pc = "save"]
  <2>1. /\ o \in Jobs /\ o.pc = "save" /\ o.inv = work[w].inv /\ o.claim = work[w].claim
        /\ o.found = work[w].found
    BY <1>2 DEF Jobs, Delivering
  <2>2. Only(w, o)
    BY <1>4
  <2>. HIDE DEF o
  <2>3. work'[w] = o /\ event' = event
    BY <2>1, <2>2, CoreTyped DEF Only
  <2>4. Knows(w)'
    BY <1>1, <1>2, <2>1, <2>3 DEF Knows, Stands, Finishing, At, Inv
  <2> QED
    BY <1>1, <2>1, <2>2, <2>4, CallEvent DEF Finishing, At
<1> QED
  BY <1>3, <1>4 DEF LookBeforeSave

LEMMA LookBeforeDeleteEvent ==
  ASSUME Core, EventInv, NEW w \in Workers, LookBeforeDelete(w)
  PROVE  EventInv'
<1>1. work[w].pc = "look" /\ work[w].pc \in Delivering /\ work[w].claim.command = "cancel"
  BY DEF LookBeforeDelete, At, Delivering
<1>2. Knows(w) /\ work[w] \in Jobs
  BY CoreTyped DEF EventInv
<1>3. CASE /\ work[w].claim.receipt \/ event[Inv(w)] # None
           /\ Only(w, [work[w] EXCEPT !.pc = "delete", !.found = TRUE])
  <2>. DEFINE o == [work[w] EXCEPT !.pc = "delete", !.found = TRUE]
  <2>1. o \in Jobs /\ o.pc = "delete" /\ o.inv = work[w].inv /\ o.claim = work[w].claim
    BY <1>2 DEF Jobs, Delivering
  <2>2. Only(w, o)
    BY <1>3
  <2>. HIDE DEF o
  <2>3. work'[w] = o /\ event' = event
    BY <2>1, <2>2, CoreTyped DEF Only
  <2>4. event[Inv(w)] # None
    BY <1>1, <1>2, <1>3 DEF Knows
  <2>5. Knows(w)'
    BY <2>1, <2>3, <2>4 DEF Knows, Stands, Finishing, At, Inv
  <2> QED
    BY <1>1, <2>1, <2>2, <2>5, CallEvent DEF Finishing, At
<1>4. CASE /\ ~(work[w].claim.receipt \/ event[Inv(w)] # None)
           /\ Only(w, Outcome(w, FALSE, "none"))
  <2>. DEFINE o == Outcome(w, FALSE, "none")
  <2>1. /\ o \in Jobs /\ o.pc = "finish" /\ o.inv = work[w].inv /\ o.claim = work[w].claim
        /\ o.found = FALSE /\ o.err = "none"
    BY OutcomeJob
  <2>2. Only(w, o)
    BY <1>4
  <2>. HIDE DEF o
  <2>3. work'[w] = o /\ event' = event /\ work'[w].inv = work[w].inv
    BY <2>1, <2>2, CoreTyped DEF Only
  <2>4. ~Live(Inv(w))'
    BY <1>4, <2>3, InvitationAssumption DEF Live, Inv
  <2>5. Knows(w)'
    BY <1>1, <1>4, <2>1, <2>3, <2>4 DEF Knows, Stands, Finishing, At, Inv
  <2> QED
    BY <1>1, <2>1, <2>2, <2>5, CallEvent DEF Finishing, At
<1> QED
  BY <1>1, <1>3, <1>4 DEF LookBeforeDelete

LEMMA FinishFailsEvent ==
  ASSUME Core, EventInv, NEW w \in Workers, FinishFails(w)
  PROVE  EventInv'
<1>. DEFINE o == [work[w] EXCEPT !.err = "failed"]
<1>1. work[w].pc = "finish" /\ work[w].pc \in Delivering
  BY DEF FinishFails, Finishing, At, Delivering
<1>2. Knows(w) /\ work[w] \in Jobs
  BY CoreTyped DEF EventInv
<1>3. /\ o \in Jobs /\ o.pc = "finish" /\ o.inv = work[w].inv /\ o.claim = work[w].claim
      /\ o.found = work[w].found /\ o.err = "failed"
  BY <1>1, <1>2 DEF Jobs
<1>4. Only(w, o)
  BY DEF FinishFails
<1>. HIDE DEF o
<1>5. work'[w] = o /\ event' = event
  BY <1>3, <1>4, CoreTyped DEF Only
<1>6. Knows(w)'
  BY <1>1, <1>2, <1>3, <1>5 DEF Knows, Stands, Finishing, At, Inv
<1> QED
  BY <1>1, <1>3, <1>4, <1>6, CallEvent

\* The calendar did what worker w asked for invitation i.
LEMMA AnswersEvent ==
  ASSUME Core, EventInv, NEW w \in Workers, NEW i \in Invites, Works(w, i), ~Finishing(w),
         NEW f \in BOOLEAN, NEW heard \in BOOLEAN, Answers(w, f, heard),
         UNCHANGED <<row, meeting, lapsed>>,
         \A j \in Invites \ {i} : event'[j] = event[j] /\ edited'[j] = edited[j]
  PROVE  /\ work'[w].pc = "finish" /\ work'[w].inv = i /\ work'[w].claim = work[w].claim
         /\ (work'[w].found <=> heard \/ f)
         /\ (heard => work'[w].err = "none") /\ (~heard => work'[w].err = "failed")
         /\ \A v \in Workers \ {w} : work'[v] = work[v]
         /\ Unreported(i) => Unreported(i)'
         /\ lost[i] \/ (~heard /\ ~f /\ lapsed[i]) => lost'[i]
         /\ \A j \in Invites : LeaseOK(j)'
         /\ \A j \in Invites \ {i} : Tells(j)'
         /\ \A v \in Workers \ {w} : Inv(v) # i => Knows(v)'
<1>. DEFINE o == IF heard THEN Outcome(w, TRUE, "none") ELSE Outcome(w, f, "failed")
<1>1. /\ o \in Jobs /\ o.pc = "finish" /\ o.inv = work[w].inv /\ o.claim = work[w].claim
      /\ (o.found <=> heard \/ f)
      /\ (heard => o.err = "none") /\ (~heard => o.err = "failed")
  <2>1. CASE heard
    <3>1. o = Outcome(w, TRUE, "none")
      BY <2>1
    <3> QED
      BY <2>1, <3>1, OutcomeJob
  <2>2. CASE ~heard
    <3>1. o = Outcome(w, f, "failed")
      BY <2>2
    <3> QED
      BY <2>2, <3>1, OutcomeJob
  <2> QED
    BY <2>1, <2>2
<1>2. work' = [work EXCEPT ![w] = o]
  BY DEF Answers
<1>i. work[w].inv = i /\ work[w].pc \in Delivering
  BY DEF Works, Inv
<1>3. lost' = [lost EXCEPT ![i] = @ \/ (~heard /\ ~f /\ lapsed[i])]
  BY <1>i DEF Answers, Inv
<1>. HIDE DEF o
<1>4. work'[w] = o /\ \A v \in Workers \ {w} : work'[v] = work[v] /\ JobKept(v)
  BY <1>1, <1>2, CoreTyped DEF JobKept
<1>5. \A j \in Invites : lost[j] => lost'[j]
  BY <1>3, CoreTyped DEF TypeRest, Flags
<1>6. lost[i] \/ (~heard /\ ~f /\ lapsed[i]) => lost'[i]
  BY <1>3, CoreTyped DEF TypeRest, Flags
<1>7. ASSUME NEW j \in Invites PROVE Unreported(j) => Unreported(j)'
  <2>1. \A v \in Workers : Finishing(v) => JobKept(v)
    BY <1>4
  <2> QED
    BY <2>1, UnreportedKept
<1>8. ASSUME NEW j \in Invites PROVE LeaseOK(j)'
  <2>1. \A v \in Workers : Works(v, j)' => Works(v, j)
    BY <1>i, <1>1, <1>4 DEF Works, Inv
  <2> QED
    BY <2>1 DEF EventInv, LeaseOK
<1>9. ASSUME NEW j \in Invites \ {i} PROVE Tells(j)'
  BY <1>5, <1>7, TellsKept DEF EventInv, RowKept
<1>10. ASSUME NEW v \in Workers \ {w}, Inv(v) # i PROVE Knows(v)'
  <2>1. CASE work'[v].pc = "idle"
    BY <2>1, IdleKnows
  <2>2. CASE work'[v].pc # "idle"
    <3>1. JobKept(v) /\ Knows(v) /\ work[v].pc # "idle"
      BY <1>4, <2>2 DEF EventInv
    <3>2. PICK j \in Invites : j = Inv(v)
      BY <3>1, InHand DEF Inv
    <3>3. /\ event'[j] = event[j] /\ edited'[j] = edited[j] /\ row'[j] = row[j]
          /\ (Unreported(j) \/ lost[j] => Unreported(j)' \/ lost'[j])
      BY <1>5, <1>7, <1>10, <3>2
    <3> QED
      BY <3>1, <3>2, <3>3, KnowsKept
  <2> QED
    BY <2>1, <2>2
<1> QED
  BY <1>i, <1>1, <1>4, <1>6, <1>7, <1>8, <1>9, <1>10

LEMMA SaveEvent ==
  ASSUME Core, EventInv, NEW w \in Workers, Save(w)
  PROVE  EventInv'
<1>1. work[w].pc = "save" /\ work[w].pc \in Delivering /\ work[w].pc # "idle" /\ ~Finishing(w)
  BY DEF Save, At, Finishing, Delivering
<1>i. PICK i \in Invites : i = Inv(w)
  BY <1>1, InHand DEF Inv
<1>. DEFINE s == work[w].claim.slot
<1>2. /\ work[w].claim.command # "cancel" /\ s \in Slots /\ Knows(w) /\ Works(w, i)
      /\ Tells(i) /\ RowOK(i) /\ RowType(i)
  BY <1>1, <1>i, CoreTyped DEF JobOK, EventInv, At, Works
<1>3. CASE event[i] = s /\ Only(w, Outcome(w, TRUE, "none"))
  <2>. DEFINE o == Outcome(w, TRUE, "none")
  <2>1. /\ o \in Jobs /\ o.pc = "finish" /\ o.inv = work[w].inv /\ o.claim = work[w].claim
        /\ o.found = TRUE /\ o.err = "none"
    BY OutcomeJob
  <2>2. Only(w, o)
    BY <1>3
  <2>. HIDE DEF o
  <2>3. work'[w] = o /\ event' = event
    BY <2>1, <2>2, CoreTyped DEF Only
  <2>4. Knows(w)'
    BY <1>i, <1>2, <1>3, <2>1, <2>3, InvitationAssumption DEF Knows, Stands, Finishing, At, Inv
  <2> QED
    BY <1>1, <2>1, <2>2, <2>4, CallEvent
<1>4. ASSUME IF work[w].claim.receipt THEN Live(i) ELSE event[i] = None,
             event' = [event EXCEPT ![i] = s], edited' = [edited EXCEPT ![i] = FALSE],
             NEW heard \in BOOLEAN, Answers(w, FALSE, heard),
             UNCHANGED <<row, meeting, lapsed>>
      PROVE  EventInv'
  <2>1. /\ event'[i] = s /\ event'[i] # None /\ event[i] # Gone
        /\ \A j \in Invites \ {i} : event'[j] = event[j] /\ edited'[j] = edited[j]
    BY <1>2, <1>4, CoreTyped, InvitationAssumption DEF TypeRest, Flags, Live
  <2>2. /\ work'[w].pc = "finish" /\ work'[w].inv = i /\ work'[w].claim = work[w].claim
        /\ (heard => work'[w].found) /\ (~heard => work'[w].err = "failed")
        /\ \A v \in Workers \ {w} : work'[v] = work[v]
        /\ ~heard /\ lapsed[i] => lost'[i]
        /\ \A j \in Invites : LeaseOK(j)'
        /\ \A j \in Invites \ {i} : Tells(j)'
        /\ \A v \in Workers \ {w} : Inv(v) # i => Knows(v)'
    <3>1. PICK f \in BOOLEAN : ~f /\ Answers(w, f, heard)
      BY <1>4
    <3>2. /\ UNCHANGED <<row, meeting, lapsed>> /\ Works(w, i) /\ ~Finishing(w)
          /\ \A j \in Invites \ {i} : event'[j] = event[j] /\ edited'[j] = edited[j]
      BY <1>1, <1>2, <1>4, <2>1
    <3>3. /\ work'[w].pc = "finish" /\ work'[w].inv = i /\ work'[w].claim = work[w].claim
          /\ (work'[w].found <=> heard \/ f)
          /\ (heard => work'[w].err = "none") /\ (~heard => work'[w].err = "failed")
          /\ \A v \in Workers \ {w} : work'[v] = work[v]
          /\ lost[i] \/ (~heard /\ ~f /\ lapsed[i]) => lost'[i]
          /\ \A j \in Invites : LeaseOK(j)'
          /\ \A j \in Invites \ {i} : Tells(j)'
          /\ \A v \in Workers \ {w} : Inv(v) # i => Knows(v)'
      BY <3>1, <3>2, AnswersEvent
    <3> QED
      BY <3>1, <3>3
  \* A save nobody waits for any more is reported, or lost under a lapsed lease.
  <2>3. lapsed[i] => Unreported(i)' \/ lost'[i]
    <3>1. CASE heard
      BY <1>2, <2>2, <3>1 DEF Unreported, Inv, Finishing, At
    <3>2. CASE ~heard
      BY <2>2, <3>2
    <3> QED
      BY <3>1, <3>2
  <2>4. row[i].status \notin Queued \cup {"erased"} \/ ~row[i].held => lapsed[i]
    BY <1>2, Unheld DEF Unworked
  <2>5. Tells(i)'
    <3>1. row[i].status = "confirmed" \/ row[i].status = "canceled" \/ row[i].clean => lapsed[i]
      BY <1>2, <2>4 DEF RowOK, Queued
    <3>2. ~(row[i].status = "canceled" /\ row[i].command # "cancel")
      BY <1>2, <2>1 DEF Tells
    <3> QED
      BY <1>4, <2>1, <2>3, <3>1, <3>2 DEF Tells
  <2>6. Knows(w)'
    BY <1>2, <2>1, <2>2 DEF Knows, Stands, Finishing, At, Inv
  <2>7. ASSUME NEW v \in Workers \ {w}, Inv(v) = i PROVE Knows(v)'
    <3>1. Knows(v) /\ work'[v] = work[v] /\ work'[v].inv = i /\ work[v].inv = i
      BY <2>2, <2>7 DEF EventInv, Inv
    <3>2. work[v].pc \in Delivering => lapsed[i]
      BY <1>2, <2>7, TwoWorkers DEF Works
    <3>3. Unreported(Inv(v))' = Unreported(i)' /\ Live(Inv(v))' = Live(i)'
      BY <3>1 DEF Unreported, Inv, Live
    <3> QED
      BY <1>4, <2>1, <2>3, <3>1, <3>2, <3>3 DEF Knows, Stands, Finishing, At, Inv, Delivering
  <2> QED
    BY <2>2, <2>5, <2>6, <2>7 DEF EventInv
<1> QED
  BY <1>i, <1>3, <1>4 DEF Save

LEMMA DeleteEvent ==
  ASSUME Core, EventInv, NEW w \in Workers, Delete(w)
  PROVE  EventInv'
<1>1. work[w].pc = "delete" /\ work[w].pc \in Delivering /\ work[w].pc # "idle" /\ ~Finishing(w)
  BY DEF Delete, At, Finishing, Delivering
<1>i. PICK i \in Invites : i = Inv(w)
  BY <1>1, InHand DEF Inv
<1>2. /\ work[w].claim.command = "cancel" /\ Knows(w) /\ Works(w, i)
      /\ Tells(i) /\ RowOK(i) /\ RowType(i)
  BY <1>1, <1>i, CoreTyped DEF JobOK, EventInv, At, Works
<1>3. PICK heard \in BOOLEAN : Answers(w, TRUE, heard)
  BY DEF Delete
<1>4. event' = [event EXCEPT ![i] = IF Live(i) THEN Gone ELSE event[i]]
      /\ UNCHANGED <<row, meeting, lapsed, edited>>
  BY <1>i DEF Delete
<1>5. event[i] # None
  BY <1>1, <1>i, <1>2 DEF Knows, At
<1>6. /\ event'[i] = (IF Live(i) THEN Gone ELSE event[i]) /\ event'[i] # None
      /\ event[i] = Gone => event'[i] = Gone
      /\ \A j \in Invites \ {i} : event'[j] = event[j]
  BY <1>4, <1>5, CoreTyped, InvitationAssumption DEF TypeRest
<1>7. ~Live(i)'
  BY <1>6, InvitationAssumption DEF Live
<1>8. /\ work'[w].pc = "finish" /\ work'[w].inv = i /\ work'[w].claim = work[w].claim
      /\ \A v \in Workers \ {w} : work'[v] = work[v]
      /\ \A j \in Invites : LeaseOK(j)'
      /\ \A j \in Invites \ {i} : Tells(j)'
      /\ \A v \in Workers \ {w} : Inv(v) # i => Knows(v)'
  <2>1. PICK f \in BOOLEAN : f /\ Answers(w, f, heard)
    BY <1>3
  <2> QED
    BY <1>1, <1>2, <1>4, <1>6, <2>1, AnswersEvent
<1>9. Tells(i)'
  <2>1. row[i].status = "confirmed" => lapsed[i]
    BY <1>2, Unheld DEF Unworked, Queued
  <2> QED
    BY <1>2, <1>4, <1>6, <1>7, <2>1 DEF Tells
<1>10. Knows(w)'
  <2>1. ~Live(Inv(w))'
    BY <1>7, <1>8 DEF Live, Inv
  <2> QED
    BY <1>2, <1>6, <1>8, <2>1 DEF Knows, Stands, Finishing, At, Inv
<1>11. ASSUME NEW v \in Workers \ {w}, Inv(v) = i PROVE Knows(v)'
  <2>1. Knows(v) /\ work'[v] = work[v] /\ work'[v].inv = i /\ work[v].inv = i
    BY <1>8, <1>11 DEF EventInv, Inv
  <2>2. work[v].pc \in Delivering => lapsed[i]
    BY <1>2, <1>11, TwoWorkers DEF Works
  <2>3. ~Live(Inv(v))'
    BY <1>7, <2>1 DEF Live, Inv
  <2> QED
    BY <1>4, <1>6, <2>1, <2>2, <2>3 DEF Knows, Stands, Finishing, At, Inv, Delivering
<1> QED
  BY <1>8, <1>9, <1>10, <1>11 DEF EventInv

LEMMA ClaimEvent ==
  ASSUME Core, EventInv, NEW i \in Invites, Claim(i)
  PROVE  EventInv'
<1>. DEFINE job == [Idle EXCEPT !.pc = "look", !.inv = i, !.claim = ClaimOf(row[i]), !.current = TRUE]
<1>1. /\ UNCHANGED <<meeting, event, edited, lapsed, lost>> /\ Due(i) /\ ~row[i].held
      /\ work[0].pc = "idle" /\ 0 \in Workers /\ work' = [Outdated({i}) EXCEPT ![0] = job]
  BY InvitationAssumption DEF Claim, history, At, Workers
<1>2. Now(i, row[i].status, row[i].command, row[i].slot, row[i].receipt, TRUE, row[i].clean)
  BY ClaimCore
<1>3. job.pc = "look" /\ job.inv = i /\ ~job.found /\ job.claim.receipt = row[i].receipt
  BY IdleJob DEF Jobs, ClaimOf
<1>. HIDE DEF job
<1>4. Outdated({i}) \in [Workers -> Jobs]
  BY OutdatedKeeps, CoreTyped
<1>5. work'[0] = job /\ \A v \in Workers \ {0} : work'[v] = Outdated({i})[v]
  BY <1>1, <1>4
<1>6. \A v \in Workers \ {0} : JobKept(v) /\ (work'[v].current => Inv(v) # i)
  BY <1>5, OutdatedKeeps, CoreTyped DEF JobKept
<1>7. ASSUME NEW j \in Invites PROVE Unreported(j) => Unreported(j)'
  <2>1. \A v \in Workers : Finishing(v) => JobKept(v)
    BY <1>1, <1>6 DEF Finishing, At
  <2> QED
    BY <2>1, UnreportedKept
<1>8. Tells(i) /\ (lapsed[i] \/ Unworked(i))
  BY <1>1, Unheld DEF EventInv
<1>9. ASSUME NEW j \in Invites PROVE LeaseOK(j)' /\ Tells(j)'
  <2>1. CASE j = i
    <3>1. Tells(i)'
      BY <1>1, <1>2, <1>8 DEF Tells, Now, Due, Queued
    <3>2. \A v \in Workers : ~lapsed[i] /\ Works(v, i)' => v = 0
      BY <1>6, <1>8 DEF Unworked, Works, JobKept, Inv
    <3> QED
      BY <1>1, <1>2, <2>1, <3>1, <3>2 DEF LeaseOK, Now
  <2>2. CASE j # i
    <3>1. row'[j] = row[j] /\ RowKept(j)
      BY <1>1, <1>2, <2>2 DEF Now, OthersSame, RowKept
    <3>2. \A v \in Workers : Works(v, j)' => Works(v, j)
      BY <1>3, <1>5, <1>6, <2>2 DEF Works, JobKept, Inv
    <3> QED
      BY <1>1, <1>7, <3>1, <3>2, TellsKept DEF EventInv, LeaseOK
  <2> QED
    BY <2>1, <2>2
<1>10. ASSUME NEW v \in Workers PROVE Knows(v)'
  <2>1. CASE v = 0
    BY <1>1, <1>3, <1>5, <1>8, <2>1 DEF Knows, Stands, Finishing, At, Inv, Tells
  <2>2. CASE v # 0 /\ work'[v].pc = "idle"
    BY <2>2, IdleKnows
  <2>3. CASE v # 0 /\ work'[v].pc # "idle"
    <3>1. JobKept(v) /\ Knows(v) /\ work[v].pc # "idle"
      BY <1>6, <2>3 DEF EventInv, JobKept
    <3>2. PICK j \in Invites : j = Inv(v)
      BY <3>1, InHand DEF Inv
    <3>3. work'[v].current => row'[j].status = row[j].status
      BY <1>2, <1>6, <2>3, <3>2 DEF Now, OthersSame
    <3> QED
      BY <1>1, <1>7, <3>1, <3>2, <3>3, KnowsKept
  <2> QED
    BY <2>1, <2>2, <2>3
<1> QED
  BY <1>9, <1>10 DEF EventInv

LEMMA StallEvent ==
  ASSUME Core, EventInv, Stall
  PROVE  EventInv'
<1>1. PICK u \in Workers \ {0} : At(u, "idle") /\ work' = [work EXCEPT ![u] = work[0], ![0] = Idle]
  BY DEF Stall
<1>2. UNCHANGED <<row, meeting, event, edited, lapsed, lost>>
  BY DEF Stall, history
<1>3. 0 \in Workers
  BY InvitationAssumption DEF Workers
<1>4. /\ work'[u] = work[0] /\ work'[0] = Idle /\ work'[0].pc = "idle"
      /\ \A v \in Workers \ {0, u} : work'[v] = work[v]
  BY <1>1, <1>3, CoreTyped, IdleJob
<1>5. ASSUME NEW j \in Invites, Unreported(j) PROVE Unreported(j)'
  <2>1. PICK v \in Workers :
          Inv(v) = j /\ Finishing(v) /\ work[v].found /\ work[v].claim.command # "cancel"
    BY <1>5 DEF Unreported
  <2>2. v # u
    BY <1>1, <2>1 DEF Finishing, At
  <2>3. PICK x \in Workers : work'[x] = work[v]
    BY <1>4, <2>2
  <2> QED
    BY <2>1, <2>3 DEF Unreported, Inv, Finishing, At
<1>6. ASSUME NEW j \in Invites PROVE LeaseOK(j)' /\ Tells(j)'
  <2>1. Tells(j)'
    BY <1>2, <1>5, TellsKept DEF EventInv, RowKept
  <2>2. \A v \in Workers : Works(v, j)' => (v = u /\ Works(0, j)) \/ (v # u /\ v # 0 /\ Works(v, j))
    BY <1>4 DEF Works, Inv, Delivering
  <2> QED
    BY <1>2, <1>3, <2>1, <2>2 DEF EventInv, LeaseOK
<1>7. ASSUME NEW v \in Workers PROVE Knows(v)'
  <2>1. CASE work'[v].pc = "idle"
    BY <2>1, IdleKnows
  <2>2. CASE work'[v].pc # "idle"
    <3>1. PICK x \in Workers : work'[v] = work[x]
      BY <1>3, <1>4, <2>2
    <3>2. Knows(x) /\ work[x].pc # "idle"
      BY <2>2, <3>1 DEF EventInv
    <3>3. PICK j \in Invites : j = work[x].inv
      BY <3>2, InHand
    <3>4. /\ Unreported(j) \/ lost[j] => Unreported(j)' \/ lost'[j]
          /\ row' = row /\ event' = event /\ edited' = edited /\ lapsed' = lapsed
      BY <1>2, <1>5
    <3>5. /\ Inv(x) = j /\ Inv(v)' = j /\ (Live(j)' <=> Live(j))
          /\ (Unreported(Inv(v))' <=> Unreported(j)') /\ (Live(Inv(v))' <=> Live(j))
      BY <3>1, <3>3, <3>4 DEF Inv, Live, Unreported
    <3> QED
      BY <3>1, <3>2, <3>4, <3>5 DEF Knows, Stands, Finishing, At
  <2> QED
    BY <2>1, <2>2
<1> QED
  BY <1>6, <1>7 DEF EventInv

LEMMA LapseEvent ==
  ASSUME Core, EventInv, NEW i \in Invites, Lapse(i)
  PROVE  EventInv'
<1>1. /\ row' = [row EXCEPT ![i].held = FALSE] /\ lapsed' = [lapsed EXCEPT ![i] = @ \/ Busy(i)]
      /\ UNCHANGED <<meeting, event, work, edited, lost>>
  BY DEF Lapse
<1>2. /\ \A j \in Invites \ {i} : row'[j] = row[j] /\ lapsed'[j] = lapsed[j]
      /\ \A j \in Invites : RowKept(j) /\ (lapsed[j] => lapsed'[j])
      /\ lapsed'[i] <=> lapsed[i] \/ Busy(i)
  <2>1. /\ \A j \in Invites \ {i} : row'[j] = row[j]
        /\ \A j \in Invites : RowKept(j)
    BY <1>1, CoreTyped DEF RowKept, Rows
  <2>2. lapsed \in [Invites -> BOOLEAN]
    BY CoreTyped DEF TypeRest, Flags
  <2>3. /\ \A j \in Invites \ {i} : lapsed'[j] = lapsed[j]
        /\ lapsed'[i] <=> lapsed[i] \/ Busy(i)
    BY <1>1, <2>2
  <2>4. \A j \in Invites : lapsed[j] => lapsed'[j]
    BY <2>3
  <2> QED
    BY <2>1, <2>3, <2>4
<1>3. \A v \in Workers : JobKept(v)
  BY <1>1 DEF JobKept
<1>4. \A j \in Invites : Unreported(j) => Unreported(j)'
  BY <1>3, UnreportedKept
<1>5. ASSUME NEW j \in Invites PROVE LeaseOK(j)' /\ Tells(j)'
  <2>1. Tells(j)'
    BY <1>1, <1>2, <1>4, TellsKept DEF EventInv
  <2>2. \A v \in Workers : Works(v, j)' <=> Works(v, j)
    BY <1>1 DEF Works, Inv
  <2>3. CASE j = i
    BY <1>2, <2>1, <2>2, <2>3 DEF LeaseOK, Busy, Works
  <2>4. CASE j # i
    BY <1>2, <2>1, <2>2, <2>4 DEF EventInv, LeaseOK
  <2> QED
    BY <2>3, <2>4
<1>6. ASSUME NEW v \in Workers PROVE Knows(v)'
  <2>1. CASE work'[v].pc = "idle"
    BY <2>1, IdleKnows
  <2>2. CASE work'[v].pc # "idle"
    <3>1. JobKept(v) /\ Knows(v) /\ work[v].pc # "idle"
      BY <1>1, <1>3, <2>2 DEF EventInv
    <3>2. PICK j \in Invites : j = Inv(v)
      BY <3>1, InHand DEF Inv
    <3>3. row'[j].status = row[j].status
      BY <1>2 DEF RowKept
    <3> QED
      BY <1>1, <1>2, <1>4, <3>1, <3>2, <3>3, KnowsKept
  <2> QED
    BY <2>1, <2>2
<1> QED
  BY <1>5, <1>6 DEF EventInv

LEMMA WatchEvent ==
  ASSUME Core, EventInv, NEW i \in Invites, Watch(i)
  PROVE  EventInv'
<1>0. 0 \in Workers /\ work[0].pc = "idle" /\ row[i].status = "confirmed"
  BY InvitationAssumption DEF Workers, Watch, At
<1>1. event[i] # None
  BY <1>0, CoreTyped DEF RowOK, EventInv, Tells
<1>2. PICK job \in Jobs :
        /\ Only(0, job) /\ job.pc \in {"import", "warn"} /\ job.inv = i
        /\ job.pc = "import" => job.seen = event[i]
  <2>. DEFINE seen == [Idle EXCEPT !.inv = i, !.claim = ClaimOf(row[i]), !.current = TRUE]
  <2>1. event[i] \in Slots \cup {None, Gone} /\ ClaimOf(row[i]) \in Claims
    BY CoreTyped, Copied DEF TypeRest
  <2>2. /\ [seen EXCEPT !.pc = "import", !.seen = event[i]] \in Jobs
        /\ [seen EXCEPT !.pc = "import", !.seen = event[i]].pc = "import"
        /\ [seen EXCEPT !.pc = "import", !.seen = event[i]].inv = i
        /\ [seen EXCEPT !.pc = "import", !.seen = event[i]].seen = event[i]
        /\ [seen EXCEPT !.pc = "warn"] \in Jobs
        /\ [seen EXCEPT !.pc = "warn"].pc = "warn"
        /\ [seen EXCEPT !.pc = "warn"].inv = i
    BY <2>1, IdleJob DEF Jobs, Delivering
  <2>3. \/ Only(0, [seen EXCEPT !.pc = "import", !.seen = event[i]])
        \/ Only(0, [seen EXCEPT !.pc = "warn"])
    BY DEF Watch
  <2>. HIDE DEF seen
  <2> QED
    BY <2>2, <2>3
<1>3. /\ UNCHANGED <<row, meeting, event, edited, lapsed, lost>> /\ work' = [work EXCEPT ![0] = job]
  BY <1>2 DEF Only, history
<1>4. work'[0] = job /\ \A v \in Workers \ {0} : work'[v] = work[v] /\ JobKept(v)
  BY <1>0, <1>3, CoreTyped DEF JobKept
<1>5. ASSUME NEW j \in Invites PROVE Unreported(j) => Unreported(j)'
  <2>1. \A v \in Workers : Finishing(v) => JobKept(v)
    BY <1>0, <1>4 DEF Finishing, At
  <2> QED
    BY <2>1, UnreportedKept
<1>6. Knows(0)'
  BY <1>1, <1>2, <1>3, <1>4 DEF Knows, Stands, Finishing, At, Inv, Delivering
<1>7. \A j \in Invites : ~Works(0, j)'
  BY <1>2, <1>4 DEF Works, Delivering
<1> QED
  BY <1>0, <1>3, <1>4, <1>5, <1>6, <1>7, OneWorkerEvent

LEMMA SameEvent ==
  ASSUME EventInv, UNCHANGED <<row, meeting, event, work, edited, lapsed, lost>>
  PROVE  EventInv'
<1>1. ASSUME NEW j \in Invites PROVE LeaseOK(j)' /\ Tells(j)'
  BY DEF EventInv, LeaseOK, Works, Inv, Tells, Live, Unreported, Finishing, At
<1>2. ASSUME NEW v \in Workers PROVE Knows(v)'
  BY DEF EventInv, Knows, Stands, Inv, Live, Unreported, Finishing, At
<1> QED
  BY <1>1, <1>2 DEF EventInv

LEMMA CalendarEvent ==
  ASSUME Core, EventInv, Calendar
  PROVE  EventInv'
<1>1. CASE Outage \/ Recover \/ Reconnect
  BY <1>1, SameEvent DEF Outage, Recover, Reconnect, history
<1>2. ASSUME NEW i \in Invites, NEW to \in Slots \cup {Gone}, HostEdits(i, to) PROVE EventInv'
  <2>1. /\ Live(i) /\ UNCHANGED <<row, meeting, work, lapsed, lost>>
        /\ event' = [event EXCEPT ![i] = to] /\ edited' = [edited EXCEPT ![i] = TRUE]
    BY <1>2 DEF HostEdits
  <2>2. /\ event'[i] = to /\ edited'[i] /\ event[i] # Gone /\ to # None
        /\ \A j \in Invites \ {i} : event'[j] = event[j] /\ edited'[j] = edited[j]
    BY <2>1, CoreTyped, InvitationAssumption DEF TypeRest, Flags, Live
  <2>3. \A v \in Workers : JobKept(v) /\ work'[v] = work[v]
    BY <2>1 DEF JobKept
  <2>4. \A j \in Invites : Unreported(j) => Unreported(j)'
    BY <2>3, UnreportedKept
  <2>5. ASSUME NEW j \in Invites PROVE LeaseOK(j)' /\ Tells(j)'
    <3>1. LeaseOK(j)'
      BY <2>1 DEF EventInv, LeaseOK, Works, Inv
    <3>2. CASE j = i
      <4>1. Tells(i)
        BY DEF EventInv
      <4>2. Tells(i)'
        BY <2>1, <2>2, <2>4, <4>1 DEF Tells
      <4> QED
        BY <3>1, <3>2, <4>2
    <3>3. CASE j # i
      BY <2>1, <2>2, <2>4, <3>1, <3>3, TellsKept DEF EventInv, RowKept
    <3> QED
      BY <3>2, <3>3
  <2>6. ASSUME NEW v \in Workers PROVE Knows(v)'
    <3>1. CASE work[v].pc = "idle"
      BY <2>3, <3>1, IdleKnows
    <3>2. CASE work[v].pc # "idle" /\ Inv(v) # i
      <4>1. PICK j \in Invites : j = Inv(v)
        BY <3>2, InHand DEF Inv
      <4> QED
        BY <2>1, <2>2, <2>3, <2>4, <3>2, <4>1, KnowsKept DEF EventInv
    <3>3. CASE Inv(v) = i
      <4>1. Knows(v) /\ Inv(v)' = i /\ (Unreported(Inv(v))' <=> Unreported(i)')
        BY <2>3, <3>3 DEF EventInv, Inv, Unreported
      <4> QED
        BY <2>1, <2>2, <2>3, <2>4, <3>3, <4>1 DEF Knows, Stands, Finishing, At
    <3> QED
      BY <3>1, <3>2, <3>3
  <2> QED
    BY <2>5, <2>6 DEF EventInv
<1> QED
  BY <1>1, <1>2 DEF Calendar

LEMMA EventInit == Init => EventInv
<1>. SUFFICES ASSUME Init PROVE EventInv
  OBVIOUS
<1>1. ASSUME NEW v \in Workers PROVE work[v].pc = "idle"
  BY IdleJob DEF Init
<1>2. ASSUME NEW j \in Invites PROVE LeaseOK(j) /\ Tells(j)
  <2>1. row[j].status = "absent" /\ ~row[j].receipt
    BY DEF Init, Absent
  <2> QED
    BY <1>1, <2>1 DEF LeaseOK, Works, Delivering, Tells
<1>3. ASSUME NEW v \in Workers PROVE Knows(v)
  BY <1>1 DEF Knows, Stands, Finishing, At, Delivering
<1> QED
  BY <1>2, <1>3 DEF EventInv

LEMMA EventStep == Core /\ EventInv /\ [Next]_vars => EventInv'
<1>. SUFFICES ASSUME Core, EventInv, [Next]_vars PROVE EventInv'
  OBVIOUS
<1>1. CASE UNCHANGED vars
  BY <1>1, SameEvent DEF vars
<1>2. ASSUME NEW i \in Invites, Asked(i) \/ Lapse(i) \/ Claim(i) \/ Watch(i) PROVE EventInv'
  BY <1>2, AskedEvent, LapseEvent, ClaimEvent, WatchEvent
<1>3. ASSUME NEW w \in Workers, Delivers(w) PROVE EventInv'
  BY <1>3, CallFailsEvent, LookBeforeSaveEvent, LookBeforeDeleteEvent, SaveEvent, DeleteEvent,
     FinishErasedEvent, FinishSupersededEvent, ParkEvent, PostponeEvent, SettleEvent,
     FinishFailsEvent
  DEF Delivers
<1>4. ASSUME NEW w \in Workers, Imports(w) \/ Crash(w) PROVE EventInv'
  BY <1>4, ImportsEvent, CrashEvent
<1>5. CASE Stall \/ Resume \/ Calendar
  BY <1>5, StallEvent, ResumeEvent, CalendarEvent
<1> QED
  BY <1>1, <1>2, <1>3, <1>4, <1>5 DEF Next

\* A confirmed invitation says what the CRM says, and what the calendar says
\* unless the host has touched the event or a lease ran out under a delivery;
\* a withdrawn one has no meeting (settleInvitation, reconcileInvitation).
THEOREM StatusTrue == Spec => []StatusIsTrue
<1>1. Core /\ EventInv => StatusIsTrue
  BY DEF Core, RowOK, EventInv, Tells, StatusIsTrue
<1> QED
  BY <1>1, EventInit, EventStep, InOrder, PTL DEF Spec

\* A canceled invitation has no event unless a worker that saved one has yet to
\* say so, or could not after its lease ran out; a cleaned up one has none
\* unless a lease ran out (finishSupersededInvitation, finishErasedInvitation).
THEOREM Withdrawn == Spec => []WithdrawnMeansGone
<1>1. EventInv => WithdrawnMeansGone
  BY DEF EventInv, Tells, WithdrawnMeansGone
<1> QED
  BY <1>1, EventInit, EventStep, InOrder, PTL DEF Spec

=============================================================================
