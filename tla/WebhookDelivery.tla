-------------------------- MODULE WebhookDelivery --------------------------
(***************************************************************************)
(* Outbound webhooks: the fan-out of bus events to subscriptions and the   *)
(* delivery state machine (backend/internal/modules/webhooks).             *)
(*                                                                         *)
(* Three kinds of process work on the webhook_delivery rows at once:       *)
(*   - Consumers, cg:webhooks bus consumers that run HandleEvent: match    *)
(*     the subscriptions, check each owner, enqueue, first attempts;       *)
(*   - Sweepers, retry jobs that run SweepOnce: claim one due row, load    *)
(*     it, re-check its owner, POST, record;                               *)
(*   - Replayers, API requests that run Replay.                            *)
(* Every database transaction and every POST is one step, so anything can  *)
(* happen between two of them, a crash included.                           *)
(***************************************************************************)
EXTENDS Naturals, FiniteSets

CONSTANTS
    Subs, Events, Owners,
    Consumers, Sweepers, Replayers,
    None,         \* no delivery, no owner, no event
    MaxAttempts,  \* maxAttempts of delivery.go
    MaxClaims,    \* bound: claims ever taken of one row
    MaxEdits,     \* bound: edits of subscriptions and of what owners may see
    MaxFaults     \* bound: crashes, stalled senders, failed reads or writes

Senders == Consumers \cup Sweepers \cup Replayers
Deliveries == Subs \X Events

ASSUME AttemptsAssumption == MaxAttempts \in Nat \ {0}
ASSUME BoundsAssumption ==
    /\ MaxClaims \in Nat /\ MaxEdits \in Nat /\ MaxFaults \in Nat
ASSUME ProcessAssumption ==
    /\ Consumers \cap (Sweepers \cup Replayers) = {}
    /\ Sweepers \cap Replayers = {}
ASSUME NoneAssumption ==
    None \notin Deliveries /\ None \notin Owners /\ None \notin Events

VARIABLES
    sub,     \* webhook_subscription: state, owner and whether it listens
    sees,    \* <<owner, event>>: the owner may read the event's subject now
    bus,     \* what cg:webhooks knows of each event
    row,     \* webhook_delivery, one row per (subscription, event)
    issued,  \* the last claim token given out for a row
    fan,     \* each consumer's HandleEvent
    at,      \* each sender's current attempt (attemptTarget and its place)
    edits, faults,
    firsts,  \* history: first-attempt POSTs of a delivery
    sent,    \* history: POSTs of a delivery in its current budget
    steady   \* history: deliveries owed without interruption since publication

env == <<sub, sees, edits>>
ghosts == <<firsts, sent, steady>>
vars == <<sub, sees, bus, row, issued, fan, at, edits, faults, firsts, sent, steady>>

States == {"none", "pending", "retrying", "delivered", "dead_lettered",
           "visibility_revoked"}
NewRow(status) == [status |-> status, attempts |-> 0, due |-> FALSE,
                   claim |-> 0, live |-> FALSE]
NoRow == NewRow("none")
IdleFan == [pc |-> "idle", event |-> None, todo |-> {}, visible |-> {},
            targets |-> {}, err |-> FALSE]
NewAttempt(pc, d, claim, owner) ==
    [pc |-> pc, d |-> d, claim |-> claim, prior |-> 0, owner |-> owner, res |-> "none"]
Idle == NewAttempt("idle", None, 0, None)

Subscription == [state : {"absent", "active", "paused", "archived"},
                 owner : Owners, listens : BOOLEAN]
Delivery == [status : States, attempts : Nat, due : BOOLEAN,
             claim : 0 .. MaxClaims, live : BOOLEAN]
Candidates == Subs \X Owners
EventInHand == [pc : {"idle", "check", "attempt"}, event : Events \cup {None},
                todo : SUBSET Candidates, visible : SUBSET Candidates,
                targets : SUBSET Candidates, err : BOOLEAN]
AttemptTarget == [pc : {"idle", "load", "owner", "see", "revoke", "reset", "post", "record"},
                  d : Deliveries \cup {None}, claim : 0 .. MaxClaims, prior : Nat,
                  owner : Owners \cup {None}, res : {"none", "ok", "fail"}]

TypeOK ==
    /\ sub \in [Subs -> Subscription]
    /\ sees \subseteq Owners \X Events
    /\ bus \in [Events -> {"unpublished", "ready", "acked"}]
    /\ row \in [Deliveries -> Delivery]
    /\ issued \in [Deliveries -> 0 .. MaxClaims]
    /\ fan \in [Consumers -> EventInHand]
    /\ at \in [Senders -> AttemptTarget]
    /\ edits \in 0 .. MaxEdits
    /\ faults \in 0 .. MaxFaults
    /\ firsts \in [Deliveries -> Nat]
    /\ sent \in [Deliveries -> Nat]
    /\ steady \subseteq Deliveries

----------------------------------------------------------------------------
(* Who is owed a delivery. *)

Live(s) == sub[s].state \in {"active", "paused"}
Active(s) == sub[s].state = "active"

\* canSee: the owner's live grants let it read the event's subject.
MaySee(o, e) == <<o, e>> \in sees

\* matchingSubscriptions and the owner check, asked at one moment.
Eligible(d) ==
    /\ Active(d[1]) /\ sub[d[1]].listens
    /\ MaySee(sub[d[1]].owner, d[2])

\* Still owed: eligible before and after this step, under the same owner.
StillSteady ==
    {d \in steady : Eligible(d)' /\ sub'[d[1]].owner = sub[d[1]].owner}

----------------------------------------------------------------------------
(* Subscriptions and what their owners may see. *)

CreateSubscription(s, o) ==
    /\ sub[s].state = "absent"
    /\ edits < MaxEdits
    /\ edits' = edits + 1
    /\ sub' = [sub EXCEPT ![s] = [state |-> "active", owner |-> o, listens |-> TRUE]]
    /\ UNCHANGED <<sees, bus, row, issued, fan, at, faults, firsts, sent>>
    /\ steady' = StillSteady

\* One patch: pause or resume, a new owner (also a handover's transfer), or a
\* new set of event types.
UpdateSubscription(s, state, o, listens) ==
    /\ Live(s)
    /\ sub[s] # [state |-> state, owner |-> o, listens |-> listens]
    /\ edits < MaxEdits
    /\ edits' = edits + 1
    /\ sub' = [sub EXCEPT ![s] = [state |-> state, owner |-> o, listens |-> listens]]
    /\ UNCHANGED <<sees, bus, row, issued, fan, at, faults, firsts, sent>>
    /\ steady' = StillSteady

ArchiveSubscription(s) ==
    /\ Live(s)
    /\ edits < MaxEdits
    /\ edits' = edits + 1
    /\ sub' = [sub EXCEPT ![s].state = "archived"]
    /\ UNCHANGED <<sees, bus, row, issued, fan, at, faults, firsts, sent>>
    /\ steady' = StillSteady

\* A grant, a deactivation, or a change of the record's audience.
ChangeSight(o, e) ==
    /\ edits < MaxEdits
    /\ edits' = edits + 1
    /\ sees' = IF MaySee(o, e) THEN sees \ {<<o, e>>} ELSE sees \cup {<<o, e>>}
    /\ UNCHANGED <<sub, bus, row, issued, fan, at, faults, firsts, sent>>
    /\ steady' = StillSteady

\* The relay ships the event to the stream cg:webhooks reads.
PublishEvent(e) ==
    /\ bus[e] = "unpublished"
    /\ bus' = [bus EXCEPT ![e] = "ready"]
    /\ steady' = steady \cup {d \in Deliveries : d[2] = e /\ Eligible(d)}
    /\ UNCHANGED <<sub, sees, row, issued, fan, at, edits, faults, firsts, sent>>

\* The mark of a handled event is gone (DedupeTTL) while an entry of it is still to
\* come: a copy that a relay added, or one whose XACK failed.
MarkLapses(e) ==
    /\ bus[e] = "acked"
    /\ faults < MaxFaults
    /\ faults' = faults + 1
    /\ bus' = [bus EXCEPT ![e] = "ready"]
    /\ UNCHANGED <<env, row, issued, fan, at, ghosts>>

----------------------------------------------------------------------------
(* HandleEvent. Until it is acknowledged the entry may be handed out again, *)
(* also while a slow consumer is still at work on it.                       *)

\* matchingSubscriptions: the candidates, each with its owner.
Match(c, e) ==
    fan' = [fan EXCEPT ![c] =
              [IdleFan EXCEPT !.pc = "check", !.event = e,
                 !.todo = {<<s, sub[s].owner>> :
                             s \in {t \in Subs : Active(t) /\ sub[t].listens}}]]

HandleEvent(c, e) ==
    /\ fan[c] = IdleFan
    /\ bus[e] = "ready"
    /\ Match(c, e)
    /\ UNCHANGED <<env, bus, row, issued, at, faults, ghosts>>

\* ownerCanSee of one candidate.
CheckOwner(c) ==
    /\ fan[c].pc = "check"
    /\ \E x \in fan[c].todo :
         fan' = [fan EXCEPT ![c].todo = @ \ {x},
                            ![c].visible = IF MaySee(x[2], fan[c].event)
                                             THEN @ \cup {x} ELSE @]
    /\ UNCHANGED <<env, bus, row, issued, at, faults, ghosts>>

\* The check of one candidate fails: the others go on, the error is retained.
CheckOwnerFails(c) ==
    /\ fan[c].pc = "check"
    /\ faults < MaxFaults
    /\ faults' = faults + 1
    /\ \E x \in fan[c].todo :
         fan' = [fan EXCEPT ![c].todo = @ \ {x}, ![c].err = TRUE]
    /\ UNCHANGED <<env, bus, row, issued, at, ghosts>>

\* Mutant: the INSERT answers with rows another consumer created (DO UPDATE).
CreatedOrFound(c) ==
    {x \in fan[c].visible : Active(x[1]) /\ sub[x[1]].owner = x[2]}

\* The candidates an INSERT ... ON CONFLICT DO NOTHING creates a row for.
Created(c) ==
    {x \in fan[c].visible :
        /\ Active(x[1]) /\ sub[x[1]].owner = x[2]
        /\ row[<<x[1], fan[c].event>>].status = "none"}

Named(xs, d) == \E x \in xs : x[1] = d[1]

\* Mutant: a row that is there already fails the INSERT instead of skipping it.
EnqueueConflicts(c) ==
    /\ fan[c].pc = "check"
    /\ fan[c].todo = {}
    /\ IF \A x \in fan[c].visible : x \in Created(c)
         THEN /\ row' = [d \in Deliveries |->
                           IF d[2] = fan[c].event /\ Named(Created(c), d)
                             THEN NewRow("pending") ELSE row[d]]
              /\ fan' = [fan EXCEPT ![c].pc = "attempt", ![c].visible = {},
                                    ![c].targets = Created(c)]
         ELSE fan' = [fan EXCEPT ![c] = IdleFan] /\ UNCHANGED row
    /\ UNCHANGED <<env, bus, issued, at, faults, ghosts>>

\* enqueueForSubscriptions; `bad` are the bodies that could not be rendered.
Enqueue(c) ==
    /\ fan[c].pc = "check"
    /\ fan[c].todo = {}
    /\ LET created == Created(c) IN
       \E bad \in SUBSET created :
         /\ row' = [d \in Deliveries |->
                      IF d[2] = fan[c].event /\ Named(created, d)
                        THEN NewRow(IF Named(bad, d) THEN "dead_lettered" ELSE "pending")
                        ELSE row[d]]
         /\ fan' = [fan EXCEPT ![c] = [@ EXCEPT !.pc = "attempt", !.visible = {},
                                               !.targets = created \ bad]]
    /\ UNCHANGED <<env, bus, issued, at, faults, ghosts>>

\* attemptFirst takes the next freshly created row; it holds no claim.
AttemptFirst(c) ==
    /\ fan[c].pc = "attempt"
    /\ at[c] = Idle
    /\ \E x \in fan[c].targets :
         /\ fan' = [fan EXCEPT ![c].targets = @ \ {x}]
         /\ at' = [at EXCEPT ![c] = 
                    NewAttempt("owner", <<x[1], fan[c].event>>, 0, x[2])]
    /\ UNCHANGED <<env, bus, row, issued, faults, ghosts>>

\* HandleEvent returns: nil acknowledges the entry, a retained error does not.
Handled(c) ==
    /\ fan[c].pc = "attempt"
    /\ fan[c].targets = {}
    /\ at[c] = Idle
    /\ bus' = IF fan[c].err THEN bus ELSE [bus EXCEPT ![fan[c].event] = "acked"]
    /\ fan' = [fan EXCEPT ![c] = IdleFan]
    /\ UNCHANGED <<env, row, issued, at, faults, ghosts>>

\* The worker dies, or a transaction before the first attempts fails.
ConsumerDies(c) ==
    /\ fan[c] # IdleFan
    /\ faults < MaxFaults
    /\ faults' = faults + 1
    /\ fan' = [fan EXCEPT ![c] = IdleFan]
    /\ at' = [at EXCEPT ![c] = Idle]
    /\ UNCHANGED <<env, bus, row, issued, ghosts>>

----------------------------------------------------------------------------
(* Taking a row that was attempted before: a due retry, or a replay. *)

\* Mutant: a claim never expires.
UnclaimedNeverExpires(d) == row[d].claim = 0

\* claimed_until IS NULL OR claimed_until < now()
Unclaimed(d) == ~row[d].live

\* Mutant: an old stamp is kept, COALESCE(claimed_until, ...).
TokenKept(d) == IF row[d].claim # 0 THEN row[d].claim ELSE issued[d] + 1

\* The token a claim stamps: claimed_until = now() + claimLease is later than
\* every lease the row carried, since a new claim waits for the old to pass.
Token(d) == issued[d] + 1

TakeClaim(d, r) == [r EXCEPT !.claim = Token(d), !.live = TRUE]

ClaimDueRetry(p, d) ==
    /\ at[p] = Idle
    /\ row[d].status = "retrying" /\ row[d].due
    /\ Unclaimed(d)
    /\ Active(d[1])
    /\ issued[d] < MaxClaims
    /\ row' = [row EXCEPT ![d] = TakeClaim(d, @)]
    /\ issued' = [issued EXCEPT ![d] = @ + 1]
    /\ at' = [at EXCEPT ![p] = NewAttempt("load", d, Token(d), None)]
    /\ UNCHANGED <<env, bus, fan, faults, ghosts>>

RenderFailed(d) == row[d].status = "dead_lettered" /\ row[d].attempts = 0

\* checkReplayable
Replayable(d) ==
    /\ row[d].status \in {"dead_lettered", "retrying", "visibility_revoked"}
    /\ ~RenderFailed(d)
    /\ Unclaimed(d)

RequireReplay(p, d) ==
    /\ at[p] = Idle
    /\ Live(d[1])
    /\ Replayable(d)
    /\ at' = [at EXCEPT ![p] = NewAttempt("load", d, 0, None)]
    /\ UNCHANGED <<env, bus, row, issued, fan, faults, ghosts>>

LoadTarget(p) ==
    /\ at[p].pc = "load"
    /\ at' = [at EXCEPT ![p] = [@ EXCEPT !.pc = "owner",
                                         !.prior = row[at[p].d].attempts,
                                         !.owner = sub[at[p].d[1]].owner]]
    /\ UNCHANGED <<env, bus, row, issued, fan, faults, ghosts>>

----------------------------------------------------------------------------
(* attemptStillAuthorized, one step per read or write it makes. *)

StillOwner(p) ==
    /\ at[p].pc = "owner"
    /\ at' = [at EXCEPT ![p] = [@ EXCEPT !.pc = IF sub[at[p].d[1]].owner = at[p].owner
                                    THEN "see" ELSE "revoke"]]
    /\ UNCHANGED <<env, bus, row, issued, fan, faults, ghosts>>

StillSees(p) ==
    /\ at[p].pc = "see"
    /\ at' = [at EXCEPT ![p] = [@ EXCEPT !.pc =
                CASE ~MaySee(at[p].owner, at[p].d[2]) -> "revoke"
                  [] p \in Replayers -> "reset"
                  [] OTHER -> "post"]]
    /\ UNCHANGED <<env, bus, row, issued, fan, faults, ghosts>>

\* The check itself fails: a replay returns the error, the other senders spend
\* an attempt that sent nothing (spendUncheckedAttempt).
CheckFails(p) ==
    /\ at[p].pc \in {"owner", "see"}
    /\ faults < MaxFaults
    /\ faults' = faults + 1
    /\ at' = [at EXCEPT ![p] = IF p \in Replayers THEN Idle
                                 ELSE [@ EXCEPT !.pc = "record", !.res = "fail"]]
    /\ UNCHANGED <<env, bus, row, issued, fan, ghosts>>

\* Guarded by the status alone: it does not ask who holds the row.
MarkVisibilityRevoked(p) ==
    /\ at[p].pc = "revoke"
    /\ LET d == at[p].d IN
       row' = IF row[d].status = "visibility_revoked" THEN row
              ELSE [row EXCEPT ![d] = [@ EXCEPT !.status = "visibility_revoked",
                                         !.due = FALSE, !.claim = 0, !.live = FALSE]]
    /\ at' = [at EXCEPT ![p] = Idle]
    /\ UNCHANGED <<env, bus, issued, fan, faults, ghosts>>

\* Mutant: the count that was loaded before the reset is kept.
ResetKeepsCount(p) ==
    /\ at[p].pc = "reset"
    /\ LET d == at[p].d IN
       IF row[d].status \in {"dead_lettered", "retrying"} /\ Unclaimed(d)
         THEN /\ issued[d] < MaxClaims
              /\ row' = [row EXCEPT ![d] = TakeClaim(d, [@ EXCEPT
                                             !.status = "pending", !.due = FALSE])]
              /\ issued' = [issued EXCEPT ![d] = @ + 1]
              /\ at' = [at EXCEPT ![p] = [@ EXCEPT !.pc = "post", !.prior = at[p].prior,
                                                   !.claim = Token(d)]]
              /\ sent' = [sent EXCEPT ![d] = 0]
         ELSE /\ at' = [at EXCEPT ![p] = Idle]
              /\ UNCHANGED <<row, issued, sent>>
    /\ UNCHANGED <<env, bus, fan, faults, firsts, steady>>

\* Back to pending under a fresh claim and a fresh budget, or refused.
ResetForReplay(p) ==
    /\ at[p].pc = "reset"
    /\ LET d == at[p].d
           free == row[d].status \in {"dead_lettered", "retrying"} /\ Unclaimed(d) IN
       \/ /\ free
          /\ issued[d] < MaxClaims
          /\ row' = [row EXCEPT ![d] = TakeClaim(d, [@ EXCEPT
                                          !.status = "pending", !.due = FALSE])]
          /\ issued' = [issued EXCEPT ![d] = @ + 1]
          /\ at' = [at EXCEPT ![p] = [@ EXCEPT !.pc = "post", !.prior = 0,
                                               !.claim = Token(d)]]
          /\ sent' = [sent EXCEPT ![d] = 0]
       \/ /\ ~free
          /\ at' = [at EXCEPT ![p] = Idle]
          /\ UNCHANGED <<row, issued, sent>>
    /\ UNCHANGED <<env, bus, fan, faults, firsts, steady>>

----------------------------------------------------------------------------
(* deliverOnce: the POST, then the record of what came of it. *)

Post(p) ==
    /\ at[p].pc = "post"
    /\ \E res \in {"ok", "fail"} :
         at' = [at EXCEPT ![p] = [@ EXCEPT !.pc = "record", !.res = res]]
    /\ sent' = [sent EXCEPT ![at[p].d] = @ + 1]
    /\ firsts' = IF p \in Consumers THEN [firsts EXCEPT ![at[p].d] = @ + 1] ELSE firsts
    /\ UNCHANGED <<env, bus, row, issued, fan, faults, steady>>

\* No signing key, an unsealable secret, a header that cannot be opened.
FailUnsent(p) ==
    /\ at[p].pc = "post"
    /\ at' = [at EXCEPT ![p] = [@ EXCEPT !.pc = "record", !.res = "fail"]]
    /\ UNCHANGED <<env, bus, row, issued, fan, faults, ghosts>>

\* status <> 'visibility_revoked' AND claimed_until IS NOT DISTINCT FROM claim
StillHolds(p) ==
    /\ row[at[p].d].status # "visibility_revoked"
    /\ row[at[p].d].claim = at[p].claim

\* Mutant: the row takes a status the table does not know.
OutcomeUnknownStatus(res, used) ==
    [status |-> IF res = "ok" THEN "delivered" ELSE "failed",
     attempts |-> used, due |-> FALSE, claim |-> 0, live |-> FALSE]

\* Mutant: the budget is checked one attempt late.
OutcomeOneTooMany(res, used) ==
    [status |-> CASE res = "ok" -> "delivered"
                  [] used > MaxAttempts -> "dead_lettered"
                  [] OTHER -> "retrying",
     attempts |-> used, due |-> FALSE, claim |-> 0, live |-> FALSE]

\* The row after an attempt with this result, `used` attempts in.
Outcome(res, used) ==
    [status |-> CASE res = "ok" -> "delivered"
                  [] used >= MaxAttempts -> "dead_lettered"
                  [] OTHER -> "retrying",
     attempts |-> used, due |-> FALSE, claim |-> 0, live |-> FALSE]

RecordOutcome(p) ==
    /\ at[p].pc = "record"
    /\ row' = IF StillHolds(p)
                THEN [row EXCEPT ![at[p].d] = Outcome(at[p].res, at[p].prior + 1)]
                ELSE row
    /\ at' = [at EXCEPT ![p] = Idle]
    /\ UNCHANGED <<env, bus, issued, fan, faults, ghosts>>

\* A step of the attempt fails and is only logged, or a sweep or a request dies.
Abandon(p) ==
    /\ at[p] # Idle
    /\ faults < MaxFaults
    /\ faults' = faults + 1
    /\ at' = [at EXCEPT ![p] = Idle]
    /\ UNCHANGED <<env, bus, row, issued, fan, ghosts>>

----------------------------------------------------------------------------
(* Time. *)

\* next_retry_at passes.
BackoffElapses(d) ==
    /\ row[d].status = "retrying" /\ ~row[d].due
    /\ row' = [row EXCEPT ![d].due = TRUE]
    /\ UNCHANGED <<env, bus, issued, fan, at, faults, ghosts>>

AtWorkOn(p, d) == at[p].pc # "idle" /\ at[p].d = d

\* claimed_until passes. The lease is twice an attempt's time limit, so a sender
\* still at work by then has stalled, which counts as a fault.
LeaseLapses(d) ==
    /\ row[d].live
    /\ row' = [row EXCEPT ![d].live = FALSE]
    /\ \/ /\ \A p \in Senders : AtWorkOn(p, d) => at[p].claim # row[d].claim
          /\ faults' = faults
       \/ /\ \E p \in Senders : AtWorkOn(p, d) /\ at[p].claim = row[d].claim
          /\ faults < MaxFaults
          /\ faults' = faults + 1
    /\ UNCHANGED <<env, bus, issued, fan, at, ghosts>>

----------------------------------------------------------------------------
Init ==
    /\ sub \in [Subs -> [state : {"absent", "active"}, owner : Owners, listens : {TRUE}]]
    /\ sees = Owners \X Events
    /\ bus = [e \in Events |-> "unpublished"]
    /\ row = [d \in Deliveries |-> NoRow]
    /\ issued = [d \in Deliveries |-> 0]
    /\ fan = [c \in Consumers |-> IdleFan]
    /\ at = [p \in Senders |-> Idle]
    /\ edits = 0 /\ faults = 0
    /\ firsts = [d \in Deliveries |-> 0]
    /\ sent = [d \in Deliveries |-> 0]
    /\ steady = {}

Admin ==
    \/ \E s \in Subs, o \in Owners :
         \/ CreateSubscription(s, o)
         \/ \E state \in {"active", "paused"}, listens \in BOOLEAN :
              UpdateSubscription(s, state, o, listens)
    \/ \E s \in Subs : ArchiveSubscription(s)
    \/ \E o \in Owners, e \in Events : ChangeSight(o, e)

FanOut(c) ==
    \/ \E e \in Events : HandleEvent(c, e)
    \/ CheckOwner(c) \/ CheckOwnerFails(c)
    \/ Enqueue(c) \/ AttemptFirst(c) \/ Handled(c)
    \/ ConsumerDies(c)

\* The steps of one attempt that a sender takes when nothing fails.
Attempt(p) ==
    \/ LoadTarget(p) \/ StillOwner(p) \/ StillSees(p)
    \/ MarkVisibilityRevoked(p) \/ ResetForReplay(p)
    \/ Post(p) \/ FailUnsent(p) \/ RecordOutcome(p)

Time == \E d \in Deliveries : BackoffElapses(d) \/ LeaseLapses(d)

Next ==
    \/ Admin
    \/ \E e \in Events : PublishEvent(e) \/ MarkLapses(e)
    \/ \E c \in Consumers : FanOut(c)
    \/ \E p \in Sweepers, d \in Deliveries : ClaimDueRetry(p, d)
    \/ \E p \in Replayers, d \in Deliveries : RequireReplay(p, d)
    \/ \E p \in Senders : Attempt(p) \/ CheckFails(p) \/ Abandon(p)
    \/ Time

Spec == Init /\ [][Next]_vars

----------------------------------------------------------------------------
(* Safety. *)

Sending(p, d) == at[p].d = d /\ at[p].pc \in {"post", "record"}

\* A claim fences: no two senders at work on one delivery carry the same claim,
\* the absent claim of a first attempt included, past the point where they may
\* POST. So an outcome is only ever written by the one sender the row waits for
\* (recordOutcome, claimDueRetry, resetForReplay).
OneSenderPerClaim ==
    \A d \in Deliveries : \A p, q \in Senders :
        Sending(p, d) /\ Sending(q, d) /\ at[p].claim = at[q].claim => p = q

\* "A redelivered bus event never double-POSTs": of all consumers that handle
\* an event, however often it comes, one makes the first attempt, once
\* (enqueueForSubscriptions returns only rows it created).
FirstAttemptOnce == \A d \in Deliveries : firsts[d] <= 1

\* A row that is at rest carries no claim, and a claim is only on a row some
\* sender took: no reader mistakes an old lease for a send in progress.
RestingUnclaimed ==
    \A d \in Deliveries :
        row[d].status \in {"none", "delivered", "dead_lettered", "visibility_revoked"}
            => row[d].claim = 0 /\ ~row[d].live

\* The attempts column stays within the budget: a row is retried only while
\* there is budget left and parked as dead_lettered only when it is spent, or
\* when its body was never rendered (recordOutcome, checkReplayable).
CountsInBudget ==
    \A d \in Deliveries :
        /\ row[d].attempts <= MaxAttempts
        /\ row[d].status = "retrying" => row[d].attempts \in 1 .. MaxAttempts - 1
        /\ row[d].status = "dead_lettered" => row[d].attempts \in {0, MaxAttempts}

\* One sender at a time is between its POST and its record: only one that
\* stalled past its lease can be joined by another, so a receiver gets two
\* copies at once for no other reason (claimLease, claimDueRetry, resetForReplay).
OneInFlight ==
    \A d \in Deliveries :
        Cardinality({p \in Senders : Sending(p, d)}) <= 1 + faults

\* A budget is MaxAttempts POSTs. Only a fault can add to it, one POST each:
\* an attempt whose record was lost is made again, a stalled one made beside.
BudgetHolds == \A d \in Deliveries : sent[d] <= MaxAttempts + faults

\* An acknowledged event left a row for every subscription that was owed it from
\* its publication on: an owner check that fails transiently keeps the entry
\* on the bus (the retained visErr of HandleEvent).
NothingOwedIsLost ==
    \A d \in steady : bus[d[2]] = "acked" => row[d].status # "none"

\* A revoked delivery is revoked for good (markVisibilityRevoked: terminal).
RevokedIsTerminal ==
    [][\A d \in Deliveries :
         row[d].status = "visibility_revoked" => row'[d].status = "visibility_revoked"]_vars

\* What was delivered is never scheduled to be sent again: neither a late
\* outcome nor a replay reopens it.
DeliveredIsNotReopened ==
    [][\A d \in Deliveries :
         row[d].status = "delivered"
            => row'[d].status \in {"delivered", "visibility_revoked"}]_vars

\* docs/explanation/outbound-webhooks.md: a first attempt whose result write
\* fails leaves the row pending and "needs a replay by hand". The attempt was
\* made, no sender is at work on the row any more, and checkReplayable refuses it.
NoWorkOn(d) ==
    /\ \A p \in Senders : ~AtWorkOn(p, d)
    /\ \A c \in Consumers : ~(fan[c].event = d[2] /\ Named(fan[c].targets, d))
StrandedIsReplayable ==
    \A d \in Deliveries : row[d].status = "pending" /\ firsts[d] > 0 /\ NoWorkOn(d) => Replayable(d)

----------------------------------------------------------------------------
(* Refinement. *)

\* A replay's reset to pending starts a fresh budget although the attempts
\* column keeps the old count until the next outcome; a revoked row keeps a
\* count nobody reads again.
Used(d) == IF row[d].status \in {"pending", "visibility_revoked"} THEN 0
           ELSE row[d].attempts

Lifecycle == INSTANCE WebhookLifecycle WITH
    status <- [d \in Deliveries |-> row[d].status],
    used <- [d \in Deliveries |-> Used(d)]

\* Senders that race for leases, stall and die still spend a delivery's budget
\* one recorded attempt at a time: no outcome is written from a count that went
\* stale, over a row that is closed, or twice for one attempt.
ImplementsLifecycle == Lifecycle!Spec

----------------------------------------------------------------------------
(* Liveness. The retry job runs again and again and its steps end; time goes *)
(* on. Pausing and resuming may starve a row, so the property asks for a     *)
(* subscription that stays active.                                           *)

Progress ==
    /\ \A p \in Sweepers :
         /\ WF_vars(Attempt(p))
         /\ \A d \in Deliveries : SF_vars(ClaimDueRetry(p, d))
    /\ \A d \in Deliveries : WF_vars(BackoffElapses(d)) /\ WF_vars(LeaseLapses(d))
    /\ \A c \in Consumers : WF_vars(FanOut(c)) /\ WF_vars(Attempt(c))

FairSpec == Spec /\ Progress

\* A retry that may be sent is settled in the end, one way or another, whatever
\* sweeps died on the way.
RetriesSettle ==
    \A d \in Deliveries :
        []<>(row[d].status # "retrying" \/ ~Active(d[1]))

\* An event on the bus is acknowledged in the end.
EventsHandled ==
    \A e \in Events : bus[e] = "ready" ~> bus[e] = "acked"
=============================================================================
