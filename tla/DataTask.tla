------------------------------ MODULE DataTask ------------------------------
(***************************************************************************)
(* The release corrections ("data tasks"): one data_task_run row for each  *)
(* step of the catalog, the executors that run bounded batches of the      *)
(* first unfinished step, the operators who pause, resume, retry and       *)
(* activate, and the reconciler that keeps a run job alive.                *)
(*                                                                         *)
(* An executor reads a snapshot of the ledger under an advisory lock,      *)
(* picks a step, locks its row, runs the batch and commits the progress in *)
(* the same transaction; a batch that fails rolls back and is recorded in  *)
(* a later transaction that holds no lock.  Executors of two releases may  *)
(* run side by side.  Workers run as the River job data_task_run; shells   *)
(* are the margince-migrate CLI, which calls the same engine.              *)
(*                                                                         *)
(* A step is its rank in the catalog.  A cursor is the number of rows in   *)
(* front of it, so it is not kept beside `scanned`.  Estimates, changed    *)
(* counts, error classes, audit rows and run identities are left out.      *)
(***************************************************************************)
EXTENDS Naturals, FiniteSets

CONSTANTS
    StepCount,     \* the catalog of every release involved, in its order
    Workers,       \* processes that run the job
    Shells,        \* command lines that run the engine
    Operators,     \* people with the controls
    ReleaseOf,     \* the release each of them runs
    VersionOf,     \* [release -> [step -> task version]], 0 where it has none
    RuleOf,        \* [release -> [step -> ReviewVersion]] of the manual steps
    Manual,        \* the steps that need a reviewed activation
    NeedsSchema,   \* the steps with a migration to wait for
    Rows,          \* the rows a step has to inspect
    Limit,         \* a step's declared batch limit
    MinLimit,      \* and the floor of its halving
    ReviewSizes,   \* row counts a human may review
    FailureCap,    \* failureCap
    MaxFaults,     \* bound: crashes, shutdowns and lost answers
    MaxLooks,      \* bound: times the operators read the ledger
    MaxTurns,      \* bound: batches the shells attempt
    NoOne          \* nobody holds a lock

Steps == 1..StepCount
Executors == Workers \cup Shells
Releases == {ReleaseOf[x] : x \in Executors \cup Operators}

ASSUME DataTaskAssumption ==
    /\ StepCount \in Nat
    /\ NoOne \notin Executors
    /\ Workers \cap Shells = {}
    /\ VersionOf \in [Releases -> [Steps -> Nat]]
    /\ RuleOf \in [Releases -> [Steps -> Nat \ {0}]]
    /\ Manual \subseteq Steps /\ NeedsSchema \subseteq Steps
    /\ Rows \in [Steps -> Nat]
    /\ MinLimit \in [Steps -> Nat \ {0}]
    /\ Limit \in [Steps -> Nat] /\ \A s \in Steps : MinLimit[s] <= Limit[s]
    /\ ReviewSizes \subseteq Nat \ {0}
    /\ FailureCap \in Nat \ {0}
    /\ MaxFaults \in Nat /\ MaxLooks \in Nat /\ MaxTurns \in Nat

VARIABLES
    row,       \* the ledger
    waiting,   \* steps whose next_attempt_at is in the future
    migrated,  \* has the schema migration been applied?
    lock,      \* who holds the executor's advisory lock
    pc,        \* where an executor stands
    pick,      \* the step it picked and the progress it read
    job,       \* the run job: none, queued, running
    runner,    \* the worker that holds the run's session lock
    saw,       \* the reconciler has listed work and not yet inserted a job
    seen,      \* what an operator has on the screen
    looks, faults, turns,
    streak,    \* history: batches of a step that failed since its last commit
    bound      \* history: what a recorded timeout leaves the same task version

vars == <<row, waiting, migrated, lock, pc, pick, job, runner, saw, seen,
          looks, faults, turns, streak, bound>>

Statuses == {"absent", "pending", "running", "paused", "done", "failed"}
Progress == [status : Statuses, version : Nat, task : Nat, scanned : Nat,
             limit : Nat, failures : Nat, rule : Nat, allowed : Nat]

Absent == [status |-> "absent", version |-> 0, task |-> 0, scanned |-> 0,
           limit |-> 0, failures |-> 0, rule |-> 0, allowed |-> 0]

\* No timeout is on record.
Unbounded == [task |-> 0, limit |-> 0]

NoPick == [step |-> 0, row |-> Absent, slow |-> FALSE]

Init ==
    /\ row = [s \in Steps |-> Absent]
    /\ waiting = {}
    /\ migrated \in {NeedsSchema = {}, TRUE}
    /\ lock = NoOne
    /\ pc = [e \in Executors |-> "idle"]
    /\ pick = [e \in Executors |-> NoPick]
    /\ job = "none"
    /\ runner = NoOne
    /\ saw = FALSE
    /\ seen = [o \in Operators |-> NoPick]
    /\ looks = 0 /\ faults = 0 /\ turns = 0
    /\ streak = [s \in Steps |-> 0]
    /\ bound = [s \in Steps |-> Unbounded]

Lesser(a, b) == IF a <= b THEN a ELSE b
Greater(a, b) == IF a <= b THEN b ELSE a

-----------------------------------------------------------------------------
(* The order of the work. *)

\* hasCurrentReview
Reviewed(r, s, p) == p.rule # 0 /\ p.task = VersionOf[r][s] /\ p.rule = RuleOf[r][s]

Complete(r, s, p) == p.task = VersionOf[r][s] /\ p.status = "done"

Dormant(r, s, p) == s \in Manual /\ ~Reviewed(r, s, p)

\* The steps of release r that nextStep does not pass over.
Unfinished(r) == {s \in Steps : /\ VersionOf[r][s] > 0
                                /\ ~Dormant(r, s, row[s])
                                /\ ~Complete(r, s, row[s])}

First(r, s) == s \in Unfinished(r) /\ \A t \in Unfinished(r) : s <= t

\* Mutant: an executor takes up what a newer release has written.
BlockedByStatus(r, s) == row[s].status \in {"absent", "paused", "failed"}

Blocked(r, s) == row[s].status \in {"absent", "paused", "failed"} \/ row[s].task > VersionOf[r][s]

HasSchema(s) == s \in NeedsSchema => migrated

Ready(r, s) == First(r, s) /\ ~Blocked(r, s) /\ s \notin waiting /\ HasSchema(s)

\* Mutant: a finished step of an older version is listed as finished.
ListedAsStored(r, s, p) ==
    VersionOf[r][s] > 0 /\ ~Dormant(r, s, p) /\ p.status \in {"pending", "running"}

\* What List shows as pending or running, whoever holds it up.
Listed(r, s, p) ==
    /\ VersionOf[r][s] > 0 /\ ~Dormant(r, s, p)
    /\ \/ p.status \in {"pending", "running"}
       \/ p.status = "done" /\ s \notin Manual /\ p.task < VersionOf[r][s]

Seeded(r, s, p) ==
    IF p.status = "absent" /\ VersionOf[r][s] > 0
    THEN [Absent EXCEPT !.status = "pending", !.version = 1,
                        !.task = VersionOf[r][s], !.limit = Limit[s]]
    ELSE p

-----------------------------------------------------------------------------
(* A batch. *)

\* Mutant: the reviewed bound is only looked at between batches.
PreparedWhole(r, s, p) ==
    IF p.task # VersionOf[r][s]
    THEN [p EXCEPT !.scanned = 0, !.limit = Limit[s], !.task = VersionOf[r][s]]
    ELSE p

\* runBatch shrinks the limit to what was reviewed, then restarts a step whose
\* task has a new version.
Prepared(r, s, p) ==
    LET q == IF p.rule # 0 THEN [p EXCEPT !.limit = Lesser(@, p.allowed - p.scanned)] ELSE p
    IN IF q.task # VersionOf[r][s]
       THEN [q EXCEPT !.scanned = 0, !.limit = Limit[s], !.task = VersionOf[r][s]]
       ELSE q

RanOut(p) == p.rule # 0 /\ p.allowed <= p.scanned

\* AdvanceUUID: a batch that finds fewer rows than it may take is the last.
Found(s, p) == Lesser(p.limit, Rows[s] - p.scanned)

\* commitProgress
Advanced(r, s, p) ==
    IF RanOut(p)
    THEN [p EXCEPT !.status = "done", !.failures = 0, !.version = @ + 1]
    ELSE LET q == Prepared(r, s, p)
             n == Found(s, q)
             last == n < q.limit \/ (q.rule # 0 /\ q.scanned + n >= q.allowed)
         IN [q EXCEPT !.status = IF last THEN "done" ELSE "running",
                      !.scanned = @ + n, !.failures = 0, !.version = @ + 1]

\* Mutant: the halving has no floor.
FaultedNoFloor(s, p, slow) ==
    [p EXCEPT !.failures = @ + 1,
              !.status = IF p.failures + 1 >= FailureCap THEN "failed" ELSE "running",
              !.limit = IF slow THEN @ \div 2 ELSE @,
              !.version = @ + 1]

\* recordFailure, from the progress the executor read before its batch.
Faulted(s, p, slow) ==
    [p EXCEPT !.failures = @ + 1,
              !.status = IF p.failures + 1 >= FailureCap THEN "failed" ELSE "running",
              !.limit = IF slow THEN Greater(MinLimit[s], @ \div 2) ELSE @,
              !.version = @ + 1]

-----------------------------------------------------------------------------
(* The executor. *)

\* The transaction is over, and so is the attempt.
Rest(e) ==
    /\ pc' = [pc EXCEPT ![e] = "idle"]
    /\ pick' = [pick EXCEPT ![e] = NoPick]
    /\ runner' = IF runner = e THEN NoOne ELSE runner

Unlock(e) == lock' = IF lock = e THEN NoOne ELSE lock

\* What becomes of the job when its worker's attempt ends: snoozed or finished.
JobAfter(e, state) == job' = IF e \in Workers THEN state ELSE job

\* Mutant: nobody takes the advisory lock.
LockIgnored == TRUE

\* pg_try_advisory_xact_lock
LockIsFree == lock = NoOne

\* Mutant: a write does not compare the version it read.
AnyVersion(e) == TRUE

\* version = @version
Unmoved(e) == row[pick[e].step].version = pick[e].row.version

Begin(e, s) ==
    /\ pc[e] = "idle" /\ LockIsFree
    /\ e \in Workers => job = "queued" /\ runner = NoOne
    /\ e \in Shells => turns < MaxTurns
    /\ Ready(ReleaseOf[e], s)
    /\ lock' = e
    /\ turns' = IF e \in Shells THEN turns + 1 ELSE turns
    /\ pc' = [pc EXCEPT ![e] = "picked"]
    /\ pick' = [pick EXCEPT ![e] = [step |-> s, row |-> row[s], slow |-> FALSE]]
    /\ job' = IF e \in Workers THEN "running" ELSE job
    /\ runner' = IF e \in Workers THEN e ELSE runner
    /\ UNCHANGED <<row, waiting, migrated, saw, seen, looks, faults, streak, bound>>

\* Nothing to do but wait for a retry snoozes the job; nothing at all ends it.
StandDown(w) ==
    LET r == ReleaseOf[w]
    IN /\ pc[w] = "idle" /\ LockIsFree /\ job = "queued" /\ runner = NoOne
       /\ \A s \in Steps : First(r, s) =>
             Blocked(r, s) \/ (s \notin waiting /\ ~HasSchema(s))
       /\ job' = "none"
       /\ UNCHANGED <<row, waiting, migrated, lock, pc, pick, runner, saw, seen,
                      looks, faults, turns, streak, bound>>

\* The row is read again under its lock, and left alone if it has moved.
Moved(e) ==
    /\ pc[e] = "picked" /\ ~Unmoved(e)
    /\ Rest(e) /\ Unlock(e) /\ JobAfter(e, "queued")
    /\ UNCHANGED <<row, waiting, migrated, saw, seen, looks, faults, turns, streak, bound>>

Progresses(e) ==
    LET s == pick[e].step
    IN /\ pc[e] = "picked" /\ Unmoved(e)
       /\ row' = [row EXCEPT ![s] = Advanced(ReleaseOf[e], s, pick[e].row)]
       /\ waiting' = waiting \ {s}
       /\ streak' = [streak EXCEPT ![s] = 0]
       /\ bound' = [bound EXCEPT ![s] = Unbounded]

Commit(e) ==
    /\ Progresses(e)
    /\ Rest(e) /\ Unlock(e) /\ JobAfter(e, "queued")
    /\ UNCHANGED <<migrated, saw, seen, looks, faults, turns>>

\* The commit goes through and its answer is lost.
CommitUnheard(e) ==
    /\ faults < MaxFaults
    /\ Progresses(e)
    /\ pc' = [pc EXCEPT ![e] = "failing"]
    /\ Unlock(e)
    /\ faults' = faults + 1
    /\ UNCHANGED <<migrated, pick, job, runner, saw, seen, looks, turns>>

\* The row's lock, the estimate, the batch or the commit fails: all of it is
\* rolled back.  A slow one ran into a deadline.
Fail(e, slow) ==
    LET s == pick[e].step
    IN /\ pc[e] = "picked"
       /\ pc' = [pc EXCEPT ![e] = "failing"]
       /\ pick' = [pick EXCEPT ![e].slow = slow]
       /\ streak' = [streak EXCEPT ![s] = Lesser(@ + 1, FailureCap)]
       /\ Unlock(e)
       /\ UNCHANGED <<row, waiting, migrated, job, runner, saw, seen, looks, faults, turns, bound>>

\* The limit the batch that failed was allowed.
LimitUsed(e) == Prepared(ReleaseOf[e], pick[e].step, pick[e].row).limit

Record(e) ==
    LET s == pick[e].step
        p == pick[e].row
    IN /\ pc[e] = "failing"
       /\ \/ /\ Unmoved(e)
             /\ row' = [row EXCEPT ![s] = Faulted(s, p, pick[e].slow)]
             /\ waiting' = IF row'[s].status = "failed" THEN waiting \ {s} ELSE waiting \cup {s}
             /\ bound' = IF pick[e].slow
                         THEN [bound EXCEPT ![s] =
                                 [task |-> VersionOf[ReleaseOf[e]][s],
                                  limit |-> Greater(MinLimit[s], LimitUsed(e) \div 2)]]
                         ELSE bound
             /\ JobAfter(e, "queued")
          \/ /\ ~Unmoved(e)
             /\ JobAfter(e, "none")
             /\ UNCHANGED <<row, waiting, bound>>
       /\ Rest(e)
       /\ UNCHANGED <<migrated, lock, saw, seen, looks, faults, turns, streak>>

\* A shutdown or a lock cycle: rolled back, and nobody counts it.
GiveUp(e) ==
    /\ pc[e] = "picked" /\ faults < MaxFaults
    /\ Rest(e) /\ Unlock(e) /\ JobAfter(e, "queued")
    /\ faults' = faults + 1
    /\ UNCHANGED <<row, waiting, migrated, saw, seen, looks, turns, streak, bound>>

\* The process dies, or cannot record its failure; River keeps a dead
\* worker's job running.
Crash(e) ==
    /\ pc[e] # "idle" /\ faults < MaxFaults
    /\ Rest(e) /\ Unlock(e)
    /\ job' \in IF e \in Workers /\ pc[e] = "failing" THEN {job, "none"} ELSE {job}
    /\ faults' = faults + 1
    /\ UNCHANGED <<row, waiting, migrated, saw, seen, looks, turns, streak, bound>>

-----------------------------------------------------------------------------
(* The reconciler, every ten minutes, on start and after a control. *)

SeedAs(r) == row' = [s \in Steps |-> Seeded(r, s, row[s])]

\* A shell seeds before it executes.
Seed(e) ==
    /\ SeedAs(ReleaseOf[e])
    /\ UNCHANGED <<waiting, migrated, lock, pc, pick, job, runner, saw, seen,
                   looks, faults, turns, streak, bound>>

Reconcile(w) ==
    /\ SeedAs(ReleaseOf[w])
    /\ job' = IF job = "running" /\ runner = NoOne THEN "none" ELSE job
    /\ saw' = \E s \in Steps : Listed(ReleaseOf[w], s, row'[s])
    /\ UNCHANGED <<waiting, migrated, lock, pc, pick, runner, seen, looks, faults, turns, streak, bound>>

\* The insert is absorbed by a job that is queued or running.
Enqueue ==
    /\ saw
    /\ saw' = FALSE
    /\ job' = IF job = "none" THEN "queued" ELSE job
    /\ UNCHANGED <<row, waiting, migrated, lock, pc, pick, runner, seen, looks, faults, turns, streak, bound>>

-----------------------------------------------------------------------------
(* The operators. *)

Look(o, s) ==
    /\ looks < MaxLooks /\ row[s].status # "absent"
    /\ seen' = [seen EXCEPT ![o] = [step |-> s, row |-> row[s], slow |-> FALSE]]
    /\ looks' = looks + 1
    /\ UNCHANGED <<row, waiting, migrated, lock, pc, pick, job, runner, saw, faults, turns, streak, bound>>

\* The version on the screen must be the row's.
Current(o) ==
    LET s == seen[o].step
    IN /\ s # 0 /\ VersionOf[ReleaseOf[o]][s] > 0
       /\ row[s].version = seen[o].row.version
       /\ row[s].task <= VersionOf[ReleaseOf[o]][s]

\* controlStatus, changeStatus and refreshEstimate
Controlled(p, action) ==
    [p EXCEPT !.status = CASE action = "pause" -> "paused"
                           [] action = "estimate" -> @
                           [] OTHER -> "pending",
              !.failures = IF action = "retry" THEN 0 ELSE @,
              !.version = @ + 1]

Allows(p, action) ==
    \/ action = "pause" /\ p.status \in {"pending", "running"}
    \/ action = "resume" /\ p.status = "paused"
    \/ action = "retry" /\ p.status = "failed"

Control(o, action) ==
    LET s == seen[o].step
    IN /\ Current(o)
       /\ \/ Allows(row[s], action) /\ waiting' = waiting \ {s}
          \/ /\ action = "estimate" /\ HasSchema(s) /\ ~Dormant(ReleaseOf[o], s, row[s])
             /\ waiting' = waiting
       /\ row' = [row EXCEPT ![s] = Controlled(@, action)]
       /\ streak' = IF action = "retry" THEN [streak EXCEPT ![s] = 0] ELSE streak
       /\ seen' = [seen EXCEPT ![o] = NoPick]
       /\ UNCHANGED <<migrated, lock, pc, pick, job, runner, saw, looks, faults, turns, bound>>

Activate(o, size) ==
    LET s == seen[o].step
        r == ReleaseOf[o]
    IN /\ Current(o) /\ s \in Manual /\ LockIsFree /\ HasSchema(s)
       /\ Reviewed(r, s, row[s]) => row[s].status \in {"done", "paused", "failed"}
       /\ row' = [row EXCEPT ![s] =
            [status |-> "pending", version |-> @.version + 1, task |-> VersionOf[r][s],
             scanned |-> 0, limit |-> Limit[s], failures |-> 0,
             rule |-> RuleOf[r][s], allowed |-> size]]
       /\ waiting' = waiting \ {s}
       /\ streak' = [streak EXCEPT ![s] = 0]
       /\ bound' = [bound EXCEPT ![s] = Unbounded]
       /\ seen' = [seen EXCEPT ![o] = NoPick]
       /\ UNCHANGED <<migrated, lock, pc, pick, job, runner, saw, looks, faults, turns>>

\* The environment: a retry falls due; the schema is migrated.
Elapse(s) ==
    /\ s \in waiting
    /\ waiting' = waiting \ {s}
    /\ UNCHANGED <<row, migrated, lock, pc, pick, job, runner, saw, seen, looks, faults, turns, streak, bound>>

Migrate ==
    /\ ~migrated
    /\ migrated' = TRUE
    /\ UNCHANGED <<row, waiting, lock, pc, pick, job, runner, saw, seen, looks, faults, turns, streak, bound>>

-----------------------------------------------------------------------------
Execute(e) ==
    \/ \E s \in Steps : Begin(e, s)
    \/ Moved(e) \/ Commit(e) \/ CommitUnheard(e)
    \/ \E slow \in BOOLEAN : Fail(e, slow)
    \/ Record(e) \/ GiveUp(e) \/ Crash(e)

Operate(o) ==
    \/ \E s \in Steps : Look(o, s)
    \/ \E action \in {"pause", "resume", "retry", "estimate"} : Control(o, action)
    \/ \E size \in ReviewSizes : Activate(o, size)

Next ==
    \/ \E e \in Executors : Execute(e)
    \/ \E e \in Shells : Seed(e)
    \/ \E w \in Workers : StandDown(w) \/ Reconcile(w)
    \/ Enqueue
    \/ \E o \in Operators : Operate(o)
    \/ \E s \in Steps : Elapse(s)
    \/ Migrate

Spec == Init /\ [][Next]_vars

\* A job that is queued is worked, a transaction ends by its deadlines, the
\* reconciler runs every ten minutes, and a wait is over in time.  Nobody owes
\* a command line, a migration or a click.
Fairness ==
    /\ \A w \in Workers : /\ WF_vars(\E s \in Steps : Begin(w, s))
                          /\ WF_vars(StandDown(w))
                          /\ WF_vars(Reconcile(w))
    /\ \A e \in Executors : /\ WF_vars(Moved(e) \/ Commit(e) \/ \E slow \in BOOLEAN : Fail(e, slow))
                            /\ WF_vars(Record(e))
    /\ WF_vars(Enqueue)
    /\ \A s \in Steps : WF_vars(Elapse(s))

FairSpec == Spec /\ Fairness

-----------------------------------------------------------------------------
(* Properties. *)

Picks == [step : 0..StepCount, row : Progress, slow : BOOLEAN]

\* Types of the ledger, the executors, the job and the screens.  The table
\* requires a positive batch limit of every row it holds.
TypeOK ==
    /\ row \in [Steps -> Progress]
    /\ \A s \in Steps : row[s].status # "absent" => row[s].limit > 0
    /\ waiting \subseteq Steps
    /\ migrated \in BOOLEAN
    /\ lock \in Executors \cup {NoOne}
    /\ pc \in [Executors -> {"idle", "picked", "failing"}]
    /\ pick \in [Executors -> Picks]
    /\ job \in {"none", "queued", "running"}
    /\ runner \in Workers \cup {NoOne}
    /\ saw \in BOOLEAN
    /\ seen \in [Operators -> Picks]
    /\ looks \in Nat /\ faults \in Nat /\ turns \in Nat
    /\ streak \in [Steps -> Nat]
    /\ bound \in [Steps -> [task : Nat, limit : Nat]]

\* A step is stopped for good only after failureCap batches of it really failed
\* with no batch committed and no retry between them, whatever answers were lost
\* and whoever else was running (execute.go:62, failure.go:33).
FailedIsEarned == \A s \in Steps : row[s].status = "failed" => streak[s] >= FailureCap

\* A reviewed run never inspects more rows than the human reviewed, and a manual
\* step nobody has reviewed has inspected none (execute.go:82-91, 120).
WithinReview ==
    \A s \in Manual : row[s].scanned <= row[s].allowed

\* What is paused or failed stays put: no batch, no late failure record and no
\* other release moves it or its progress; only a control or a new activation
\* puts it back to pending (data-tasks.md: a paused or failed step is held).
HeldStays ==
    [][\A s \in Steps :
         row[s].status \in {"paused", "failed"} =>
            /\ row'[s].status \in {row[s].status, "pending"}
            /\ row'[s].scanned = row[s].scanned \/ (row'[s].scanned = 0 /\ row'[s].rule # 0)
      ]_vars

\* An executor commits a batch only while every earlier step of its release is
\* complete or dormant (order.go:20-49), although it read the order from a
\* snapshot and late failures are recorded without the executor's lock.  A step
\* that a newer release restarts is no promise to an executor of the older one.
Restarting(r, t) == \E q \in Releases : VersionOf[q][t] > VersionOf[r][t]

InOrder ==
    [][\A e \in Executors : Progresses(e) =>
          \A t \in Unfinished(ReleaseOf[e]) :
             pick[e].step <= t \/ Restarting(ReleaseOf[e], t)]_vars

\* A step that a newer release has restarted is never put back, completed or
\* failed by an older one: the version it runs at only grows, and an executor
\* that commits or records a failure runs at least that version
\* (order.go:35, "newer_release_required").
NewerReleaseStands ==
    [][\A s \in Steps :
         /\ row'[s].task >= row[s].task
         /\ \A e \in Executors :
               /\ row'[s] # row[s] /\ pick[e].step = s
               /\ pc[e] # "idle" /\ pc'[e] # pc[e]
               => VersionOf[ReleaseOf[e]][s] >= row[s].task]_vars

\* A control acts on what its operator was looking at: the status and the
\* progress on the screen (control.go:23).
ActsOnWhatWasSeen ==
    [][\A o \in Operators :
         seen[o].step # 0 /\ seen'[o] = NoPick => row[seen[o].step] = seen[o].row]_vars

\* The order of the work is at rest for release r: nothing is left to do, or
\* the step in front is held by an operator, by its failures, by a newer
\* release or by a migration nobody has applied.
AtRest(r) ==
    \A s \in Steps : First(r, s) =>
        row[s].status \in {"paused", "failed"} \/ row[s].task > VersionOf[r][s] \/ ~HasSchema(s)

\* Every correction of the workers' release is done or visibly held: no crash,
\* dead run, lost answer or upgrade leaves work that nobody will pick up.
CorrectionsSettle == \A w \in Workers : <>[]AtRest(ReleaseOf[w])

\* data-tasks.md:17: a timeout halves the batch limit, with the declared minimum
\* as a floor: the next batch of that task version takes no more than that. Not so
\* for the first batch after an upgrade of the task: README, findings.
TimeoutHalves ==
    [][\A e \in Executors :
         Progresses(e) /\ bound[pick[e].step].task = VersionOf[ReleaseOf[e]][pick[e].step]
         => LimitUsed(e) <= bound[pick[e].step].limit]_vars
=============================================================================
