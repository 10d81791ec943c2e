# Margince verification

TLA+ models of the parts of Margince (`backend/`, Go) in which several processes
work on the same rows, messages leave the building, or something may die half
way, with TLC runs on small instances and TLAPS proofs for every instance.

Paths below are relative to `backend/` unless they start with `docs/`.

| Component | Modules | Checked by TLC | Proved by TLAPS |
|---|---|---|---|
| outbound webhooks (`internal/modules/webhooks`) | `WebhookDelivery`, `WebhookLifecycle` | 7 properties | 11 theorems, with the refinement |
| event backbone (`internal/platform/events`) | `EventBus` | 6 properties | 8 theorems |
| the webhook consumer on the backbone (`cmd/api`, `internal/compose`) | `EventToWebhook` | 2 properties | 4 theorems, with the refinement |
| outbound send (`internal/modules/comms`) | `OutboundSend` | 5 properties | 7 theorems |
| approvals (`internal/modules/approvals`) | `Approvals`, `ApprovalAuthority` | 6 properties | 5 theorems, with the refinement |
| data tasks (`internal/platform/datatask`) | `DataTask` | 7 properties | 7 theorems |
| meeting invitations (`internal/modules/activities`, `capture/gcal`) | `MeetingInvitation` | 7 properties | 6 theorems |

`MCWebhookDelivery`, `MCEventBus`, `MCEventToWebhook`, `MCApprovals`, `MCDataTask` and
`MCMeetingInvitation` give TLC its model values, symmetry, small functions and, for the
last, a state to begin in; `OutboundSend` needs none. The modules ending
in `Proofs` hold the theorems.

## 1. Inventory

Margince is a modular monolith on Postgres and Redis. `cmd/api` serves HTTP and
`cmd/worker` runs jobs, and either may run in several copies. Modules under
`internal/modules` own their tables and meet through three things only: events on
the bus, jobs in River's table, and rows that one transaction writes for another
process to pick up. Those three are where the hard behaviour is, and what is
modelled.

### Event backbone (modelled)

*State.* `event_outbox` in Postgres; one Redis stream per topic with its consumer
groups and pending entries; the dedupe keys.
*Operations.* `storekit.Emit` inserts an event beside the domain write. `Relay.Run`
polls: one transaction locks a batch (`FOR UPDATE SKIP LOCKED`), XADDs each row and
stamps those added. `Subscriber.Run` creates its group, reclaims idle entries
(XAUTOCLAIM), reads new ones, runs the handler behind `Dedupe` (look for the mark, run,
mark), acknowledges; with a `BatchHandler` a whole read is handled at once and falls
back to single entries when it fails. A data reset empties the outbox, unlinks the
streams, restores the groups and deletes the marks, all under running processes.
*Hard.* Relays in two processes; a death between XADD and stamp, or between effect
and mark; an entry taken from a consumer that is slow and not dead; a group created
after its first event; a reset between a relay's SELECT and its XADD.
*Correct means.* What is published is handled or still owed; a mark implies an
effect; every repeated effect has a fault behind it; an entity's events are in
commit order; nothing a reset deleted comes back; every committed event arrives.

### Outbound webhooks (modelled)

*State.* `webhook_subscription`; `webhook_delivery` with status, attempts,
next_attempt_at and the claim lease.
*Operations.* `HandleEvent` (the `cg:webhooks` consumer): match subscriptions, ask for
each owner whether it may see the subject, enqueue, make the first attempts.
`SweepOnce` (a job): claim one due row, load, ask again, POST, record. `Replay` (an API
call): the same with a reset to a fresh budget. Create, update, hand over and archive a
subscription.
*Hard.* Two sweeps and a replay on one row; a sender that stalls past its lease and
records late; an owner that loses sight of the subject, or a subscription handed
over, between check and POST; one owner check that fails in the middle of a
fan-out; a crash between POST and record.
*Correct means.* One first attempt per event and subscription; one sender per claim;
an outcome is written only by the sender the row waits for; the budget holds up to
faults; revoked and delivered stay so; nothing owed is lost; every retry settles.

### Outbound send (modelled)

*State.* `comms_outbound` (status, attempts, in-flight marker), the River job that
names it, the provider's own memory.
*Operations.* `StageTx` writes row and job together. River starts an attempt: pace
settings, `Load` (counts the attempt), the gates, pacing, the ladder, a last look at
consent, the marker, the wire, then receipt or classification. An erasure parks
pending rows.
*Hard.* The message is out and the answer is lost, or the receipt cannot be
written, or the worker dies; two counters (the row's and River's) that must end
together; deferrals that give an attempt back while the same count decides whether
a retry looks for an earlier copy; an erasure beside an attempt.
*Correct means.* One copy wherever the transport lets the code know; a copy leaves a
trace; the count covers the calls; the last rung parks; metering once; no row
outlives its job; every send settles.

### Approvals (modelled)

*State.* One `approval` row per staged card: status, the proposed change, the version
of the record it was staged on, when it was consumed, whether its effect ran
(`effect_ran_at`), a failure mark with its reason; and the record itself.
*Operations.* `Stage` (and the stagers that remember a refusal, join a pending card
or supersede one), `Decide`, `Approve`/`Reject`, a bundle decided as one, the release of the
effect after the decision commits, `Redeem` by an agent that comes back with the
approval, in one transaction or in two, a re-drive of a decided row, and three
sweeps: expiry, lapsed redemptions, withdrawn offers.
*Hard.* Decider against decider and against the sweep; two redemptions; a process
that dies between the decision and its effect; a record that changes between the
decision and the redemption; a failure recorded after another attempt succeeded; a
stager that probes for an earlier refusal and then inserts.
*Correct means.* A yes is spent once, on what was agreed, over the record as it was;
no work without a yes; a failure mark is true; a refusal is remembered; and every
yes comes to something.

### Data tasks (modelled)

*State.* One ledger row per correction (status, task_version, cursor, batch limit,
streak of failures, reviewed bound), the run job, an advisory lock.
*Operations.* A boot seeds rows (or restarts one at a newer version); an executor takes
the lock, picks the next step in order, runs one batch and commits it, or rolls back
and records the failure in a transaction of its own; an operator looks, then pauses,
resumes, reruns or activates; the reconciler enqueues the job.
*Hard.* Two releases side by side during a deploy; a commit whose answer is lost; the
failure recorded without the lock, after another executor went on; a step picked from
a snapshot and paused before it is locked; an operator acting on an old screen.
*Correct means.* A step is failed only by that many failures in a row; a reviewed run
stays within what was reviewed; what is held stays held; the order is kept; an older
release undoes nothing of a newer one; every correction is done or visibly held.

### Meeting invitations (modelled)

*State.* One `meeting_invitation` row per booked meeting (status, command, time, whether
the event's identity is known, attempts, lease, attention episode), the CRM's meeting
itself, the host's `meeting_calendar_episode`, the calendar's event.
*Operations.* A guest or the host books, moves, cancels or retries; an erasure withdraws.
A pass claims a due row under a lease, calls the calendar with no lock held, and
finishes in another transaction, which compares the row's version. Each pass also
sends a parked queue on once the host has connected the calendar again, and the
reconcile takes over what the host did to the event.
*Hard.* A cancellation or an erasure that overtakes a save in flight; a pass that stalls
past its lease and saves later; an answer that is lost; a move that holds two hours
until it is settled; a refusal in flight while the host reconnects; an inspection
that is applied after the row went on.
*Correct means.* A withdrawn invitation leaves no event; two meetings do not share an
hour by Margince's doing; a status says what the meeting and the calendar say; an
outage is announced once and parks the whole queue where the reconnect finds it;
every change is delivered or handed back.

### Planned next

*Leased claims elsewhere.* Agent runs (`internal/modules/agents/runner/claimjobs.go`) and
report executions (`internal/modules/reporting/sweep.go`) have the webhook retry's
shape (claim, work, record) with other rules at the end.

### Not modelled

Contacts, companies, deals and activities (record keeping in one transaction each),
capture and sync (foreign data; its ledger claim is the leased shape again), identity,
consent and privacy (decisions within one request; an erasure's effect on a pending
send *is* modelled), the AI runtime and its surfaces, search, signals, forecasting
and reporting (derived data that is rebuilt), agent quotas and rate limits (one
atomic Redis script each), settings, HTTP, configuration, the frontend, migrations.

### How the parts meet

Domain transaction → `event_outbox` → relay → stream → subscriber → `HandleEvent` →
`webhook_delivery` → sweep → receiver. `WebhookDelivery` abstracts everything left of
`HandleEvent` to a set of published events that come again until acknowledged, by
consumers that may hold the same event at once, and again after an acknowledgement when
the mark lapses. That the relays, the stream, the group and `Dedupe` are such a bus is
not assumed: `EventToWebhook` runs `EventBus` and `WebhookDelivery` side by side, and
`ImplementsWebhooks` says that every behaviour of the two, seen from the webhooks module,
is one of `WebhookDelivery`. `OutboundSend` meets the others
only in River (external), in the erasure, and in an approval whose released effect
stages a message: one of the two-transaction kinds of `Approvals`, where the staging is
`SpendAndWrite` or `Write`. `DataTask` and `MeetingInvitation` share nothing with the others
but the job queue, and an erasure, which `MeetingInvitation` has as an action of its own.

## 2. The modules and the code

### WebhookDelivery

One step per database transaction and per POST.

| Code | Model |
|---|---|
| `HandleEvent` | `HandleEvent` (`Match`: the matching subscriptions), `CheckOwner`/`CheckOwnerFails` per owner, `Enqueue`, `AttemptFirst` per target, `Handled` |
| `SweepOnce` | `ClaimDueRetry`, then the attempt |
| `Replay` | `RequireReplay`, the owner check, `ResetForReplay`, then the attempt |
| `deliverOnce`, `attempt` | `LoadTarget`, `StillOwner`, `StillSees`, `MarkVisibilityRevoked`, `Post`/`FailUnsent`, `RecordOutcome` |
| a check that cannot answer | `CheckFails` (`spendUncheckedAttempt`) |
| a crash, a lost record | `ConsumerDies`, `Abandon` |
| a mark that expired under an entry still to come (`DedupeTTL`) | `MarkLapses` |
| the clock | `BackoffElapses`, `LeaseLapses` |

A claim is a number that grows by one each time a row is claimed (the code's random
lease token, of which only equality matters). `LeaseLapses` under a sender that is
still at work counts as a fault. Three history variables serve properties only:
`firsts`, `sent`, `steady`.

`WebhookLifecycle` is the promise with no claims, leases or processes: one row, one
budget spent one recorded attempt at a time. `ImplementsLifecycle` maps `status` to the
row's status and `used` to its attempts, except in the two states in which the column
still holds the count of a budget that is over.

### EventBus

One stream and one consumer group stand for all: streams share nothing. The log is
a sequence that only grows, `low` marks what was trimmed or unlinked, an entry's id is
its place. A relay's transaction is open from `Take` to `Stamp`, and its rows are locked
so long. `group.batched` is drawn once in `Init`, for a subscriber with or without a
`BatchHandler`. `excused` counts, per event, the reasons the code has for running an
effect again (a death or failure between effect and mark, a mark that went away, two
holders at once, two copies in one batch).

### EventToWebhook

`startInlineWebhookDelivery` gives the subscriber of `cg:webhooks` a handler that is
`Dedupe` around `HandleEvent`. The module extends `EventBus`, instantiates `WebhookDelivery`
with a `Bus` read off stream and marks (an event is *unpublished* while it has no entry and
no mark, *ready* with an entry and no mark, *acked* once marked), and joins their steps.

| Step | On the bus | On the webhooks side |
|---|---|---|
| an entry is added | `Ship`, `ShipFails` | the first one is `PublishEvent` (`Announce`) |
| the look for the mark | `Check` | without a mark `HandleEvent` begins: `Match` (`CheckAndCall`) |
| the handler at work | nothing | `FanOut`: owners, rows, first attempts |
| it returns nil, then the mark | `Handle`, then `Mark` | nothing, then `Handled` (`Return`, `ReturnAndMark`) |
| it returns the error it kept | `DeliverFails` | `Handled` without acknowledgement (`ReturnError`) |
| it fails, or its process dies | `DeliverFails`, `ConsumerDies` | `ConsumerDies` (`HandlerFails`, `ProcessDies`) |
| the mark expires | `MarkExpires` | `MarkLapses` (`Lapse`) |
| anything else | a step of one side (`BusStep`, `HookStep`) | |

A joint step states what each side *does* and never that the other side allows it: the
guards of `WebhookDelivery` on its bus (`HandleEvent` only of a ready event, `Handled` only of
the one in hand, `MarkLapses` only of an acknowledged one) appear nowhere in it, and whether
they hold is the question. The group takes imported events too
(`importedconsumers.go:49`) and has no `BatchHandler`, hence `GroupAssumption`. A data reset is
left out: it deletes the subscriptions as well.

### OutboundSend

`att.pc` walks through `dispatchLoaded`: `ReadPace`, `Load`, `Gates`, `Pacing`, `Recheck`,
`Guard`, `Wire`, then `RecordSent`, `ParkTransmitted`, or `Classify` and what it leads to.
`Update` is the one guarded UPDATE all transitions of the row share: it applies to a
pending row, reports a closed one, and under `"write" \in row.faults` may fail with the
write committed or not. `row.faults` is drawn in `Init`, none or all of `Faults`, so that one
run has both: what holds whatever fails, and what holds only where nothing of ours does. `Finish`, `Crash` and `Rescue` are River. `row.shape` is drawn in `Init` and
says how the transport answers for a message it already took: mail asks the
provider for the message's identity, a channel cannot ask and reports a lost answer
as unknown, the controller's relay cannot ask and reports it like any failure.

### Approvals

One step per transaction; the engine's reads between transactions are steps of their
own, because they are made outside any lock.

| Code | Model |
|---|---|
| `Stage` of an agent's call; `StageUnlessDeclined` and its kin | `Stage`; `Probe`, `Settle` (the identity and the offers it read stay locked between) |
| `decideInTx` for one card and for a bundle | `Approve`, `Reject`, `ApproveBundle`, `Withdraw` |
| a decided row driven again; an agent's second call | `ReDrive`, `Call` |
| `validateRedemption`, `redeemRow`, the work | `Check`, `TooLate`, `SpendAndWrite` (one transaction), `Spend` then `Write` (two), `Release` (a step-up) |
| `recordEffectRan`, `recordEffectFailed` | `RecordRan`, `RecordFailed` (guarded by the outcome the attempt set out from) |
| `ExpireDue`, `MarkLapsedRedemptions`, the clock | `Expire`, `MarkLapsed`, `Elapse` |
| a writer of the record, a failure, a lost reply, a crash | `Move`, `Fault`, `Unheard`, `Crash` |

A card has one of five kinds, which differ in who comes back for the yes and in how
many transactions the work takes: `atomic`, `pinned`, `split` for the server's proposals,
`call` and `stepup` for an agent's. `Kinds[c]` is the set a card may be staged as, drawn when
it is staged. `shaken` (history) holds the cards whose work ended with nobody told.
`ApprovalAuthority` is the promise alone: an open question gets one verdict, a granted
one is spent at most once, on the terms that were settled with the verdict.
`ImplementsAuthority` reads verdict and terms off the row.

### DataTask

A step is its rank in the catalog, and a release is a table of versions and rules. Several
executors (workers, which run under River's job, and command lines, which do not) and
operators each run one release.

| Code | Model |
|---|---|
| `RunOnce`: advisory lock, `nextStep` | `Begin` (`First`, `Blocked`, `Ready`), `StandDown` |
| the batch transaction | `Moved`, `Commit`, `CommitUnheard`, `Fail`, `GiveUp` |
| `recordFailure`, a transaction of its own without the lock | `Record` |
| `control.go` and the reviewed activation | `Look`, then `Control` or `Activate` on what was seen |
| boot seeding, the reconciler, the job | `Seed`, `Reconcile`, `Enqueue` |
| clock, migration, death | `Elapse`, `Migrate`, `Crash` |

The ledger's compare-and-set on `version` is `Unmoved`; `pick` is the snapshot an executor
read, `seen` what an operator has on the screen. `streak` and `bound` are history: the
failures since the last commit, and the limit a recorded timeout leaves.

### MeetingInvitation

One host's invitations, one step per transaction and per call to the calendar.

| Code | Model |
|---|---|
| `reserveAndQueueInvitation`, `transitionInvitation`, the erasure's UPDATE | `CreateInvitation`, `Reschedule`, `Cancel`, `Retry`, `Erase` over `Change` and `Taken` (`localMeetingSlots`) |
| `claimInvitation` | `Claim` |
| `executeInvitation` with `gcal`'s lookup, save and delete | `LookBeforeSave`, `LookBeforeDelete`, `Save`, `Delete`, `CallFails` |
| `finishInvitation` and its races | `FinishErased`, `FinishSuperseded`, `Park`, `Postpone`, `Settle`, `FinishFails` |
| `parkInvitationAndQueue`, `disconnectEpisode` | `Park` over `IsNews`, `Waiting`, `Current` |
| `resumeParkedInvitations` | `Resume` |
| `reconcileInvitation` | `Watch`, then `Import` or `Warn` |
| the job runner, the clock | `Crash`, `Stall`, `Lapse` |
| the status trigger of the migration | `FollowsStatus`, in every write |
| the calendar and its host (external) | `Outage`, `Recover`, `Reconnect`, `HostEdits` |

Worker 0 is the pass the job runner knows (the job is unique); a `Stall` moves its work to
one of the others, which may come back at any time. `work[w].current` says that the row's
version is still the one that was claimed, `late` that the queue was resumed since.
Four history variables serve properties only: `moved` (the host put the meeting there),
`edited` (the host touched the event and nobody has looked), `lapsed` (a lease ran out
under a worker), `lost` (a save under such a lease that its worker could not report).

## 3. The runs

| Run | Instance | What it shows |
|---|---|---|
| `webhook_claims` | 1 subscription, 2 owners, a consumer, 2 sweeps, a replay, 2 attempts, 3 claims, 1 fault, 1 edit | claims fence outcomes; races implement the lifecycle; only faults add POSTs |
| `webhook_live` | 2 subscriptions, 1 owner, 2 consumers on one event, a sweep, 2 attempts, 1 fault | one first attempt, also when a check fails, a consumer dies or a mark lapses; every retry settles, every event is acknowledged |
| `webhook_stranded` | 1 fault | violated: see findings |
| `bus_delivery` | 2 events of one deal, 1 relay, 2 consumers, both modes, a stream of 2, 2 faults, 1 slow entry | nothing lost, every repeat explained, commit order with one relay |
| `bus_live` | 1 event, 2 relays, 2 consumers, 2 faults, 1 slow entry, 1 reset | a reset leaves nothing behind; a committed event is handled |
| `event_to_webhook` | 1 event, a relay, 2 consumers, a stream of 2, a subscription, a sweep, 2 attempts, 1 edit, 1 slow entry, 1 fault of the bus and 1 of the webhooks side | the backbone is the bus that `WebhookDelivery` assumes; from a stamped event with no entry trimmed to the row of every owed subscription |
| `send_any_fault` | the real ladder of ten, every shape, an erasure, with every fault and with none of ours | one copy where the code can tell, and a copy leaves a trace; the runner always stops; where only the provider misbehaves, no row outlives its job and every send settles |
| `send_controller` | a ladder of 3, the relay, no faults | violated: see findings |
| `approvals_decide` | 2 cards about one record, 4 of the 5 kinds and their mixes, 2 requests, 2 changes, 1 write or fault, 1 mark | work once and as agreed; true marks; the refinement; refusals remembered; every yes answered |
| `approvals_stepup` | 1 step-up, 1 request, no faults | violated: see findings |
| `data_task_ledger` | a reviewed and an automatic step, a worker and an operator on the new release, a command line on the old one, 1 fault, 2 looks | failures are earned, the review bounds, holds hold, the order and the newer release stand, corrections settle |
| `invitations` | a booked meeting and a second one to be made, 2 hours, a pass and one that was given up, 2 attempts, 2 changes, 1 death or stall, 1 outage | a withdrawn invitation leaves no event; no hour is given twice; a status is true; an outage has one episode; every change settles, and a parked queue goes on |

### Bounds and why they are enough

* `MaxAttempts` of the webhook budget is 2 where retries matter (first attempt, a retry
  that is the last), against 6 in the code: the comparison at the end of the budget
  and the step before it are both taken. Proofs cover every value.
* `MaxClaims = 3`: a claim, one that takes over from it, and a replay's. Claims matter
  by equality, and the proofs cover every bound.
* `MaxEdits = 1`: one edit between any two steps; edits do not build on one another.
* `MaxFaults` counts crashes, failed calls, stalled senders and expired marks
  together. Two faults allow a fault in the recovery from a fault; both runs of the
  bus have two, those of the webhook one.
* `Limit`, `Count`, `MaxLen`: batches of one and two, and a stream one duplicate too
  short for two events, so prefixes of batches, batches with two copies and
  trimmed pending entries all occur.
* `event_to_webhook` has no replay: a replay never touches the bus, and `webhook_claims`
  has its races. One event is enough for a refinement whose two sides meet one event
  at a time; the proof takes any number. No liveness is asked of the composition: an
  error that `HandleEvent` returns costs a fault of the bus there, so a bound on faults
  would bound the retries that the code does not.
* The send ladder is the code's own ten rungs in the passing run, so nothing is
  bounded there; no counter of that model grows beyond the ladder.
* `MaxUpsets = 1` in `approvals_decide`: one write by somebody else, one failure, one lost
  reply or one death, anywhere; two requests already race without any. `MaxMarks = 1`
  bounds re-drives of a card that failed. The kind `atomic` is a `pinned` that compares
  less, and is left to the proofs, which take any kinds.
* `FailureCap = 2` for the code's 5: a failure that does not stop the step and one that
  does. Two looks let an operator act twice, or on a screen that an earlier action
  made old. One turn of the old command line puts an old batch between any two steps
  of the new release.
* `invitations` begins with one meeting booked, delivered and in the calendar
  (`BookedInit`, a state `Init` reaches), because that is where moves, edits and the
  reconcile begin; the second invitation is made, or not, in the run. Two attempts for
  the code's five, one that is tried again and one that is the last. Two changes are a
  change and one that overtakes it, here or in the calendar. One stalled pass meets
  each step of its successor. The proofs take any number of all of these.
* `CHECK_DEADLOCK FALSE` everywhere: a finished delivery, a drained bus, a closed send,
  an answered card, a finished ledger and a settled calendar may rest.
* Symmetry is used only in runs without liveness, over consumers, relays, sweeps and
  owners, which no definition tells apart.

### Fairness

* Webhooks: a step of a sweep that can be taken is taken (the worker's job runs
  again and again), a row that is due again and again is claimed (strong, since sweeps
  compete for it), time passes, and a consumer goes on with the event in hand.
  Replays, edits, crashes and lapses under a sender are not fair. `RetriesSettle` asks
  only for subscriptions that stay active: a paused one is not swept.
* Bus: relays and subscribers loop until their process ends, and a transaction once
  begun ends. Faults, resets and the staging of events are not fair.
* Send: River starts a job that is due, carries an attempt on until it ends or dies,
  rescues a stuck one; and time passes, so a message that is held back grows old.
* Approvals: a request under way goes on, a stager commits, the clock runs, and the
  periodic sweeps expire and mark. Nobody owes a decision, a re-drive or a second call.
* Data tasks: workers start, stand down and reconcile (the job is periodic), a
  transaction ends one way or the other, a failure is recorded, retries fall due.
  Nobody owes a command line, a migration or a click.
* Invitations: a worker that lives carries on; a lease that nobody works under runs
  out; a row that is due again and again is claimed (strong, since rows compete for one
  pass; the queue is ordered by when rows fell due); and each pass tries to resume a
  parked queue while the calendar accepts (strong, since passes come and go). Nobody
  owes a change, a reconnect, a retry or a look at the calendar.

Faults are bounded, not forbidden, in the liveness runs of all but the sends. In
`send_any_fault` they are unbounded: the runner stops because each lost attempt spends a
rung. The second half of `EverySendSettles` is stated for a message that nothing of ours
befalls, because it is false otherwise (see the second note under the findings).

## 4. The proofs

Every proof module is proved from the named assumptions of its specification
alone: the constants may be any sets of processes, subscriptions, cards, steps and
releases, any bound, any ladder of at least two rungs, any set of transports. The bus
adds one assumption, that the set of events is finite.

### Webhooks

`IInv` is the conjunction of
* `TypeInv`: `TypeOK`, and `PlaceInv` (an idle sender holds nothing, a busy one a delivery,
  a consumer never loads, only a replay resets);
* `FirstInv` and `FirstsInv`: a first attempt belongs to one consumer, its row waits
  pending and unclaimed for it, no sweep or replay holds the row meanwhile, and a
  delivery whose first POST was made is nobody's target any more;
* `ClaimInv`: first attempts carry no claim and all others do, every claim on a row or
  in hand was issued, and two senders with one claim are the same sender;
* `CountInv`: a row at rest carries no claim and counts are within the budget, and what
  a sender loaded as the count is the row's count, in the state it left the row in,
  for as long as the row still waits for that sender.

None of `OneSenderPerClaim`, `FirstAttemptOnce` or the refinement is inductive alone:
an outcome written late is harmless only because its claim was superseded, and the
count in hand may be trusted only together with that. For each of the four parts one
lemma per group of actions shows it preserved. The theorems are `TypeCorrect`,
`ClaimsFence`, `FirstsOnce`, `RestCarriesNoClaim`, `BudgetIsCounted`, `RevokedStays`,
`DeliveredStays` and `SendersImplementLifecycle`; the last maps each step to a step of
`WebhookLifecycle` or a stutter, with the extra invariant `AttemptedInv` (a row that is
not there has no attempts, and a replay holds only rows that were attempted).

`WebhookFaultsProofs` goes on from there for the three invariants that count faults or
remember a history, with a second invariant on top of `IInv`:
* `Paid(d)`: of the senders engaged with a delivery at most one is *held*, by the row's
  standing claim or as a first attempt still to come; every other is paid for by a
  fault of its own, and the POSTs made or to come are at most the recorded attempts,
  the held sender and the faults. `LeaseLapses` under a working sender, the one step that
  takes the row from a held sender, is exactly the one that pays. `OneSenderInFlight`
  and `BudgetIsKept` follow by counting finite sets.
* `OwedInv`: a subscription owed an event since its publication stays among the targets
  of every consumer that handles it, or is remembered as unanswered, until its row is
  there; a row never goes away. An acknowledgement needs both to be empty, which is
  `OwedIsKept`.

### Bus

`IInv` is `TypeOK` with
* `Divided`: no two relays hold one row, and a relay adds rows of its own batch only;
* `group.last <= Len(log)`, and `Tracked`, which is `Accounted` from the XADD on, before
  the row is stamped;
* `Knows(c)`: what a subscriber is about to mark has run, and what it is about to
  acknowledge is done;
* `MarkMeansDone`, `ResetLeavesNothing`, and `DoomedGone` (rows of a DELETE that is over are
  gone);
* `PaidFor`: each entry of an event but the one of its last pass was paid for by a
  fault.

`Accounted` is not inductive: stamping a row would break it if the row's entry had
been lost between XADD and stamp, which `Tracked` excludes, and acknowledging one would
break it without `Knows`.

Two more invariants on top of `IInv` relate a state to how it came about.

*Commit order.* `InLine` numbers the rows in the order of their staging (`Numbered`), has every
shipped row and no uncommitted one on the log (`OnLog`), serializes the
transactions of an entity (`Serialized`), and says of each pass that whatever
comes before a row it has yet to ship is in the pass too, or on the log (`BatchInOrder`). It is kept by every step
after which no two passes hold rows of one entity (`Apart`), so `ApartKeepsOrder` is
`Spec /\ []Apart => []CommitOrder`; with one relay `Apart` always holds
(`OneRelayKeepsOrder`). Without it the statement is false: see findings.

*Repeats.* `Balanced` is the sum behind `EffectRunsExplained`: for each event, the runs made
and the runs some consumer is about to make are at most the excuses counted so far and one
more, and that one only if the event is *claimed*, marked or in the hand of a consumer past
its look. Each step either leaves the balance, or pays for what it adds with an excuse
(`Paid`): a consumer that dies or fails after the effect, a batch with two copies, a look
that finds another consumer at work, a mark that goes.

### Bus and webhooks

`CInv` is the bus's `IInv`, the webhooks side's `TypeInv`, and a tie between the sides: a
handler runs for a subscriber exactly while that stands between its look and its mark
(`InHandler`), for the event of the lowest entry in hand, and is through without an error
at the mark; and an event whose effect ran has an entry. `BusIsAsAssumed` maps each joint
step to a step of `WebhookDelivery` or a stutter (`CallOfHook`, `MarkOfHook`, `ErrorOfHook`,
`LossOfHook`, `LapseOfHook`, `AnnounceOfHook`), and `BackboneKept` to one of `EventBus`. So what
is proved of either module holds of the two together; `WebhookPromisesKept` states the
three that a redelivery might endanger. `OwedIsServed` needs both: `Accounted` from the bus
(a stamped event ran or is still owed to the group), and `RowsInv`, that an event whose
effect ran has a row for each subscription owed it, which is kept because a handler returns
nil only through `OwedInv`, rows stay, and nobody is owed an event anew after its first
entry.

### Sends

`IInv` is `TypeOK`, `ClassifyInv` (an attempt being classified was answered), `CallInv`
(the calls made fall short of the attempt's own number before the wire, and never
exceed what the row counts), `MeterInv`, `TraceInv` for a channel (while the marker is off
an open row there is no copy, and the attempt in hand knows it) and `AtMostOnce`. `CallInv`
is what makes mail safe: a copy implies an earlier call, an earlier call implies a
count above one, and so the retry asks the provider. `TraceInv` is what makes a channel
safe. `NoneStranded` adds `row.faults = {} => LadderInv`: while nothing of ours fails, River's
count stays at or below the row's, so the row is parked on the last rung before the
runner gives up.

### Approvals

`IInv` is `TypeOK` with
* `RowInv` and `WorkInv`: what the columns of a row and its work say of each other (work is
  done once, of an approved card, with its change, over its pin, and of a consumed card
  unless it is a step-up);
* `HoldInv`: what a request knows of the card it is on, by where it stands;
* `OwnInv`: of the requests that may still do the work outside the redemption there is
  one at most, and the work is not done;
* `ToldInv`: a server's work that nobody has recorded is being recorded, or was shaken;
* `StageInv`: a stager past its probe is alone with its kind, and found no refusal.

`Kept` says what no step undoes (an approved card keeps its kind, change and pin, and
stays consumed), and carries a request's knowledge over the steps of all others.
`ActedAsDecided` needs `OwnInv`: two redemptions pass the unlocked check together, and
only the conditional update, which leaves one owner, keeps the second from writing.
`MarksAreTrue` needs `ToldInv` with the guard of `recordEffectFailed`, which refuses an
attempt that set out before the row's last outcome. `RefusalsAreRemembered` needs
`StageInv`. `AuthorityImplemented` maps every action to a step of `ApprovalAuthority` or to
a stutter.

### Data tasks

`IInv` rests on `Copies` (in `PickInv` and `SeenInv`): a snapshot an executor or a screen
holds is no newer than the row, and if its version is still the row's it *is* the
row. With it and `LockInv`, the lock's holder alone between pick and commit,
* `RowInv` keeps the reviewed bound (`ReviewBounds`);
* `EarnedInv` (the streak of failures covers what the row counts, and what a current
  snapshot is about to add) gives `FailureIsEarned`, lost answers and late records
  included;
* `Pickable` (what was picked is not held and not of a newer version) gives `HeldIsKept`
  and `NewerReleaseKept`;
* `OrderInv` (nothing unfinished of the executor's release comes before what it picked)
  gives `OrderKept`, with the one exception the code has: a newer release may restart
  an earlier step under an older executor.

### Meeting invitations

`Core` is `TypeOK` with `RowOK` (what status, command, time, receipt and meeting say of each
other) and `JobOK` (what a worker has in hand, and that it *is* the row while its version
is current). It is inductive by itself, and three arguments stand on it:
* *Hours.* An invitation holds its meeting's hour and, while a move waits or is parked,
  the new one. `HoursInv` says that no two hold the same hour unless the host put one of
  them there; `HostNotDoubleBooked` alone is not inductive, because settling a move
  relies on the hour reserved when it was asked for.
* *Episodes.* `EpisodeInv` has each outage pay for one episode before a refusal can begin
  it: a refusal that was claimed before the resume joins nothing, and one that is
  newer was met in an outage not yet paid out.
* *Events.* `LeaseOK`: unless a lease ran out under a worker, a row has one worker and is
  held by it. `Knows` is what a worker has learned of the event by where it stands,
  `Tells` what the row says of it. Each state that ends a matter (confirmed, canceled,
  cleaned up) is not under lease, so a save that still changes the event then belongs to a worker
  whose lease ran out; `WithdrawnMeansGone` follows from who has yet to report it.

### Only model-checked

Liveness (`RetriesSettle`, `EventsHandled`, `EventsArrive`, `EverySendSettles`,
`EveryYesIsAnswered`, `CorrectionsSettle`, `EveryChangeSettles`, `QueueResumes`) is out of the
prover's reach, and `EventToWebhook` states none. Every safety invariant and action property
that a passing run checks is proved, `CommitOrder` under the condition above. Some facts
are proved that no run checks, because a stronger one beside them is: `MarkMeansDone` and
`NothingOwedIsLost` (both behind `OwedReachesRow`), `RestingUnclaimed`, `CountsInBudget`, `RevokedIsTerminal`,
`DeliveredIsNotReopened`, `OneInFlight`, `PublishedOnce`, `CallsAreCounted`, `LastRungParks`,
`MeteredOnce` and `ActsOnWhatWasSeen`.

## 5. Findings

* `webhook_stranded`: a first attempt whose record is lost leaves a `pending` row that
  nothing sends again. The documentation says a replay does; `checkReplayable` refuses it.
* `send_controller`: the relay that took a message and failed its final answer reports
  a plain failure; the marker is cleared and the message sent again.
* `approvals_stepup`: fifteen minutes after its release ran, an approved volume step-up is
  marked "Nothing changed" (`lapsemark.go:118`): the sweep takes every approved, unconsumed
  row of an agent for a yes nobody came back for, and a step-up is never consumed.

Three more need a run of their own only to be seen, and are described here with the
instance that shows them:

* After a task's version was raised, a batch that times out is tried again with the whole
  limit: `runBatch` resets the limit inside the transaction that is rolled back
  (`execute.go:95`), and `recordFailure` halves what the row still holds (`failure.go:37`), so
  the fifth timeout fails the step. `docs/explanation/data-tasks.md:17` promises a halving,
  and `execute_integration_test.go:130` asserts it of a row of the current version. `DataTask`
  with two releases as in `data_task_ledger`, `Rows <- LongCorrection`, `Limit <- Twos`,
  `FailureCap = 3`, two turns and no faults violates `TimeoutHalves`.
* With two relays an entity's later event can be on the stream before its earlier
  one, with no fault at all: `SKIP LOCKED` steps over the rows the first relay still
  holds (`relay.go:215`), while the comments at `:122-123`, `:128-130` and `:207-208` promise
  commit order and invite concurrent relays, and `bus_integration_test.go:237` asserts
  it of one. Passes that hold rows of one entity at once are the only way to it
  (`ApartKeepsOrder`). `EventBus` with `Relays = {r1, r2}`, `EntityOf <- SameDeal` and no faults
  violates `CommitOrder`.
* A row of the outbound send can outlive its job still pending: the two bounds of the
  ladder are one number so that it does not (`compose/commsjobs.go:71-75`), but a pace
  setting, a load or a gate that fails spends River's rung without spending, or
  parking, the row's (`dispatcher.go:284`). `OutboundSend` with `MaxAttempts = 3`,
  `Shapes = {"mail"}`, `Honours = TRUE`, `Faults = {"read"}` and `Scrubs = FALSE` violates
  `Ended => Closed`, which is `NeverStranded` without its condition on faults.

Smaller behaviours, met on the way and modelled as they are:

* `markVisibilityRevoked` looks at neither claim nor status, so a replay that asks for
  the owner before a sweep delivers can turn `delivered` into `visibility_revoked`;
  `DeliveredIsNotReopened` and `WebhookLifecycle!Revoked` allow exactly that.
* A mail whose answer was lost and whose retry is refused by a gate, or stands on the
  last rung, is parked as given up without asking the provider.
* A redemption that straddles the end of its window consumes a row that the sweep has
  just marked "Nothing changed", and its work then runs (`MarkIsTrue` is stated of the
  server's own cards, `ByServer`, for that reason).
* `decisioneffect.go:42-49` says every effect consumes its approval in the write's own
  transaction; the kinds modelled as `split` do it in two, and a death between leaves a
  consumed card with no work and no mark (`shaken`).
* A server's approved card whose process dies before the effect gets no mark from any
  sweep: only a re-drive, by a person, finishes it.
* A permanently failing expiry hook keeps the same job from ever reaching
  `MarkLapsedRedemptions` (`compose/jobs_approvalexpiry.go:89-92`, against its comment at
  `:98-107`). The model gives the two sweeps separate fairness and so assumes the
  hooks succeed.
* An erasure's cleanup that looked at the calendar before a stalled pass's save landed
  there sets `cleanup_complete` over the receipt the pass then brings
  (`scheduling_erasure.go:17-23`): the event stays. `WithdrawnMeansGone` allows it where a
  lease ran out.
* Canceling a move that is still on its way frees the new hour at once
  (`scheduling_occupancy.go:27-30` looks at the command), while the save of that move may
  be in flight; the cancellation then removes the event from the hour it freed.
* A refusal that is in flight while the host connects the calendar again, before any
  episode is open, parks the queue in a new episode that waits for one more reconnect
  (`scheduling_park.go:119-138`).
* A reconcile that is refused sets `needs_attention` with no reason and in no episode
  (`scheduling_reconcile.go`), so no reconnect sends that row on; the host has to retry it.
* Only an erased row is ever marked `cleanup_complete`. `internal/compose/memberreferences.go:135`
  counts a canceled one as work outstanding, and so keeps its host from being removed.
* A delivery that fails again after a retry is not announced again: the notice is keyed
  by the row.

## 6. What the models leave out

* *Webhooks.* Bodies, headers, signatures, secret rotation and URLs; backoff lengths;
  listings. A subscription handed over between the owner check and the enqueue goes
  unserved for that event by design (its new owner was not asked), and `steady` accounts
  for that.
* *Bus.* An entry that cannot be decoded is acknowledged like one the group leaves out.
  An XADD whose reply timed out takes effect at once or never, not later. The job
  queue, the Postgres sweep and the reseed of a data reset are left out.
* *Send.* One message, one attempt of it at a time: a stalled attempt beside its own
  rescue is excluded by assumption, as the code does. `Honours` assumes that a mail
  provider keeps the identity it is given and has indexed it by the time of the retry
  (`capture/gmail/send.go:77`); with `Honours = FALSE` nothing is claimed of mail. The
  gates' verdicts are free choices. One-time links, bounces and the later
  reconciliation of identities are left out.
* *Approvals.* Who may see, decide or edit a card; payloads, previews and context pins;
  acknowledging a failure (`failureack.go`), automatic application under a policy
  (`underpolicy.go`), rebundling, autonomy counters, and the staging paths of server
  kinds that remember nothing. All cards are about one record, which is the case in
  which they can meet.
* *Data tasks.* The corrections themselves, estimates (a free choice of when they fail),
  review previews (`review.go`), notices and audit rows.
* *Invitations.* Google's calendar only, where an event keeps the identity of its request
  after it was deleted. What one look reads in several requests is read at one instant;
  a request that its caller gave up on takes effect at once or never. Meetings of one
  length in fixed hours, hence no buffers or partial overlaps, and the exclusion constraint
  that stands behind the check in the database. Back-off, policy, consent,
  reminders, links and the notices. `Resume` goes by the stored connection, as the code
  does.

## 7. Plan

1. *Agent runs, report executions*: one module each, the leased claim with its own ends.
2. *Send*: overlapping attempts, to say what `Honours` and one attempt at a time buy.
3. *Approvals and sends*: an approved message from its release to its outbound row, the way
   `EventToWebhook` joins the bus and the webhooks.

Runs are kept few: instances differ only where a question does, and a new component
takes the place of a question that is settled by proof.
