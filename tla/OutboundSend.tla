---------------------------- MODULE OutboundSend ----------------------------
(***************************************************************************)
(* The life of one outbound message: the comms_outbound row it is staged   *)
(* as, the River job that is enqueued in the same transaction, the         *)
(* dispatcher's attempt, and the provider at the far end of the wire.      *)
(*                                                                         *)
(* River runs one attempt of a job at a time; an attempt is a sequence of  *)
(* steps, each at most one database write or one call to somebody else,    *)
(* and a worker may die between any two of them.  Messages differ in how   *)
(* their transport answers for a message it already took:                  *)
(*   "mail"        a retry first asks the provider for the message's       *)
(*                 identity (Honours says whether the provider keeps it);  *)
(*   "channel"     cannot ask, and reports a lost answer as unknown;       *)
(*   "controller"  the installation's own relay: cannot ask, and reports a *)
(*                 lost answer like any other failure.                     *)
(* Recipients, bodies, files, the reason of a park and the length of a     *)
(* wait are left out; every gate is one choice of pass, refuse, fault.     *)
(***************************************************************************)
EXTENDS Naturals

CONSTANTS
    MaxAttempts,   \* River's ladder and the dispatcher's bound, one number
    Shapes,        \* the kinds of transport that may carry a message
    Honours,       \* does a mail provider keep the identity it is given?
    Faults,        \* what may go wrong on this side of the wire, if anything does
    Scrubs         \* may an erasure scrub the row?

ASSUME SendAssumption ==
    /\ MaxAttempts \in Nat /\ MaxAttempts >= 2
    /\ Shapes \subseteq {"mail", "channel", "controller"}
    /\ Honours \in BOOLEAN
    /\ Faults \subseteq {"read", "write", "crash"}
    /\ Scrubs \in BOOLEAN

VARIABLES
    row,       \* the comms_outbound row
    job,       \* the River job that names it
    att,       \* the attempt in hand, if any
    provider,  \* calls made to the provider, and copies of the message it took
    metered,   \* how often a policy was told of this send
    old        \* has the message waited past the maximum age?

vars == <<row, job, att, provider, metered, old>>

\* Where an attempt can stand.  The last three are what it reports to River.
Steps == {"pace", "load", "gates", "pacing", "recheck", "guard", "wire",
          "record", "parksent", "classify", "throttle", "park", "note", "defer"}
Verdicts == {"done", "retry", "snooze"}

\* What the provider said when it did not take the message.
Answers == {"none", "unknown", "final", "throttled", "transient"}

\* faults is no column: it says what befalls the message on this side.
Rows == [shape : Shapes, status : {"none", "pending", "sent", "parked"},
         attempts : Nat, inflight : BOOLEAN, faults : {{}, Faults}]
Jobs == [state : {"none", "available", "running", "done", "discarded"}, attempt : Nat]
Attempts == [pc : {"idle"} \cup Steps \cup Verdicts, n : Nat, marked : BOOLEAN,
             err : Answers]

NoAttempt == [pc |-> "idle", n |-> 0, marked |-> FALSE, err |-> "none"]

Init ==
    /\ row \in [shape : Shapes, status : {"none"}, attempts : {0}, inflight : {FALSE},
                faults : {{}, Faults}]
    /\ job = [state |-> "none", attempt |-> 0]
    /\ att = NoAttempt
    /\ provider = [calls |-> 0, copies |-> 0]
    /\ metered = 0
    /\ old = FALSE

Pending == row.status = "pending"
At(pc) == att.pc = pc
Goto(pc) == att' = [att EXCEPT !.pc = pc]
GivesUp == Goto("park")

\* A transition of the row: guarded on pending, and one that finds the row
\* closed reports ErrTerminal, which ends the attempt.  A fault leaves the
\* attempt at "lost" without knowing whether the write was committed.
Update(new, next, lost) ==
    \/ Pending /\ row' = new /\ Goto(next)
    \/ ~Pending /\ row' = row /\ Goto("done")
    \/ /\ "write" \in row.faults
       /\ row' \in (IF Pending THEN {row, new} ELSE {row})
       /\ Goto(lost)
-----------------------------------------------------------------------------
(***************************************************************************)
(* Staging, and the runner.                                                *)
(***************************************************************************)
\* The row and its job commit together.
Stage ==
    /\ row.status = "none"
    /\ row' = [row EXCEPT !.status = "pending"]
    /\ job' = [job EXCEPT !.state = "available"]
    /\ UNCHANGED <<att, provider, metered, old>>

\* The runner hands the job to a worker, which spends one of its attempts.
Start ==
    /\ job.state = "available"
    /\ job' = [state |-> "running", attempt |-> job.attempt + 1]
    /\ att' = [NoAttempt EXCEPT !.pc = "pace"]
    /\ UNCHANGED <<row, provider, metered, old>>

\* What becomes of a job whose attempt failed or was lost.
NextRung == IF job.attempt >= MaxAttempts THEN "discarded" ELSE "available"

\* The attempt's verdict: an error spends the rung, a snooze gives it back.
Finish ==
    /\ att.pc \in Verdicts
    /\ job' = CASE att.pc = "done"   -> [job EXCEPT !.state = "done"]
                [] att.pc = "retry"  -> [job EXCEPT !.state = NextRung]
                [] att.pc = "snooze" -> [state |-> "available", attempt |-> job.attempt - 1]
    /\ att' = NoAttempt
    /\ UNCHANGED <<row, provider, metered, old>>

\* The worker dies with the job running; the runner rescues the job later.
Crash ==
    /\ "crash" \in row.faults
    /\ att.pc # "idle"
    /\ att' = NoAttempt
    /\ UNCHANGED <<row, job, provider, metered, old>>

Rescue ==
    /\ job.state = "running" /\ At("idle")
    /\ job' = [job EXCEPT !.state = NextRung]
    /\ UNCHANGED <<row, att, provider, metered, old>>
-----------------------------------------------------------------------------
(***************************************************************************)
(* Before the wire: the pace settings, the row, the gates, the ladder.     *)
(***************************************************************************)
\* The worker reads the pace it must keep before the dispatcher sees the row.
ReadPace ==
    /\ At("pace")
    /\ \/ Goto("load")
       \/ "read" \in row.faults /\ Goto("retry")
    /\ UNCHANGED <<row, job, provider, metered, old>>

\* The row after Load: the attempt is counted before anything else happens.
Counted == [row EXCEPT !.attempts = row.attempts + 1]

\* One statement counts the attempt and reads the row, if it is still pending.
Load ==
    /\ At("load")
    /\ \/ /\ Pending
          /\ row' = Counted
          /\ att' = [att EXCEPT !.pc = "gates", !.n = Counted.attempts, !.marked = row.inflight]
       \/ /\ ~Pending
          /\ Goto("done")
          /\ row' = row
       \/ /\ "write" \in row.faults
          /\ row' \in (IF Pending THEN {row, Counted} ELSE {row})
          /\ Goto("retry")
    /\ UNCHANGED <<job, provider, metered, old>>

\* The seam, scope, seat, authority, consent, files and requirement gates: each
\* refuses, or cannot answer, or lets the message on.
Gates ==
    /\ At("gates")
    /\ \/ Goto("pacing")
       \/ GivesUp
       \/ "read" \in row.faults /\ Goto("note")
    /\ UNCHANGED <<row, job, provider, metered, old>>

\* Mutant: the ladder is checked one rung too late.
ExhaustedLate == att.n > MaxAttempts

\* The rung this attempt stands on is the last: it parks instead of sending.
Exhausted == att.n >= MaxAttempts

\* Mutant: nobody asks how long a message has been held back.
NeverTooOld == FALSE

\* A message held back past the maximum age is given up.
TooOld == old

\* A policy may hold a user's message back; if none does, the ladder decides
\* whether this attempt may still transmit.
Pacing ==
    /\ At("pacing")
    /\ \/ row.shape # "controller" /\ TooOld /\ GivesUp
       \/ row.shape # "controller" /\ ~TooOld /\ Goto("defer")
       \/ Exhausted /\ GivesUp
       \/ ~Exhausted /\ Goto("recheck")
    /\ UNCHANGED <<row, job, provider, metered, old>>

\* The files are read and consent is asked once more, right before the wire.
Recheck ==
    /\ At("recheck")
    /\ \/ Goto("guard")
       \/ GivesUp
       \/ "read" \in row.faults /\ Goto("note")
    /\ UNCHANGED <<row, job, provider, metered, old>>

\* Mutant: a marker left by an earlier attempt is not looked at.
MarkerIgnored == FALSE

\* An earlier attempt reached the provider and its outcome was never recorded.
MarkerStands == att.marked

\* A transport that cannot look back commits a marker before the call.
Guard ==
    /\ At("guard")
    /\ CASE row.shape = "mail" -> Goto("wire") /\ UNCHANGED row
         [] row.shape # "mail" /\ MarkerStands -> GivesUp /\ UNCHANGED row
         [] OTHER -> Update([row EXCEPT !.inflight = TRUE], "wire", "note")
    /\ UNCHANGED <<job, provider, metered, old>>
-----------------------------------------------------------------------------
(***************************************************************************)
(* The wire, and what came back.                                           *)
(***************************************************************************)
\* Did an earlier attempt of this message count itself?
IsRetry == att.n > 1

\* A mail retry asks for the message's identity before it sends.
LooksBack == row.shape = "mail" /\ IsRetry
Found == LooksBack /\ Honours /\ provider.copies > 0

Calls(copies) == provider' = [calls |-> provider.calls + 1, copies |-> copies]
Answered(err) == att' = [att EXCEPT !.pc = "classify", !.err = err]

\* Mutant: a channel reports a lost answer like an outage.
OutageClass == "transient"

\* Mutant: the transport's own word for it reaches the dispatcher.
OwnClass == "lost"

\* How a transport reports a message it wrote out and got no answer for.
LostClass == IF row.shape = "channel" THEN "unknown" ELSE "transient"

\* How it reports one it did not take: the relay has no word but failure.
Refusals == IF row.shape = "controller" THEN {"transient"} ELSE {"final", "throttled", "transient"}

\* The provider takes the message, finds it already taken, refuses it, or
\* does not answer, having taken it or not.
Wire ==
    /\ At("wire")
    /\ \/ Found /\ Goto("record") /\ Calls(provider.copies)
       \/ ~Found /\ Goto("record") /\ Calls(provider.copies + 1)
       \/ /\ \E err \in Refusals : Answered(err)
          /\ Calls(provider.copies)
       \/ /\ ~Found
          /\ Answered(LostClass)
          /\ Calls(provider.copies) \/ Calls(provider.copies + 1)
    /\ UNCHANGED <<row, job, metered, old>>

\* A policy hears of a send only once its receipt is on the row.
Metered == metered' = IF att'.pc = "done" /\ row'.status # row.status THEN metered + 1 ELSE metered

Sent == [row EXCEPT !.status = "sent", !.inflight = FALSE]

\* The receipt, in a transaction of its own that outlives the job's context.
RecordSent ==
    /\ At("record")
    /\ Update(Sent, "done", IF row.shape = "mail" THEN "retry" ELSE "parksent")
    /\ IF row.shape = "controller" THEN UNCHANGED metered ELSE Metered
    /\ UNCHANGED <<job, provider, old>>

\* Its receipt could not be written: the row is closed against it instead.
ParkTransmitted ==
    /\ At("parksent")
    /\ Update([row EXCEPT !.status = "parked"], "done", "retry")
    /\ UNCHANGED <<job, provider, metered, old>>

\* The marker comes off a row that is still pending.
Retracted == IF Pending THEN [row EXCEPT !.inflight = FALSE] ELSE row

\* Every class but "unknown" is read as proof that nothing went out.
NotTaken ==
    CASE att.err = "final"     -> GivesUp
      [] att.err = "throttled" -> Goto("throttle")
      [] att.err = "transient" -> Goto("note")

\* A lost answer parks with the marker standing; any other class retracts it.
Classify ==
    /\ At("classify")
    /\ IF att.err = "unknown"
         THEN GivesUp /\ UNCHANGED row
         ELSE \/ /\ row' = Retracted
                 /\ NotTaken
              \/ /\ "write" \in row.faults
                 /\ row' \in {row, Retracted}
                 /\ Goto("note")
    /\ UNCHANGED <<job, provider, metered, old>>

\* The provider named a wait: honoured without giving the row's attempt back,
\* until the next attempt could only park.
Throttled ==
    /\ At("throttle")
    /\ IF att.n >= MaxAttempts - 1
         THEN GivesUp /\ UNCHANGED row
         ELSE Update(row, "snooze", "retry")
    /\ UNCHANGED <<job, provider, metered, old>>

\* No retry repairs this message.
Park ==
    /\ At("park")
    /\ Update([row EXCEPT !.status = "parked"], "done", "retry")
    /\ UNCHANGED <<job, provider, metered, old>>

\* A fault: the row keeps its attempt, and so does the runner.
RecordFailure ==
    /\ At("note")
    /\ Update(row, "retry", "retry")
    /\ UNCHANGED <<job, provider, metered, old>>

\* The attempt Load counted, given back: nothing was handed to a provider.
GivenBack == IF row.attempts = 0 THEN 0 ELSE row.attempts - 1

RecordDeferral ==
    /\ At("defer")
    /\ Update([row EXCEPT !.attempts = GivenBack], "snooze", "retry")
    /\ UNCHANGED <<job, provider, metered, old>>
-----------------------------------------------------------------------------
(***************************************************************************)
(* Around the attempt.                                                     *)
(***************************************************************************)
\* An erasure closes the pending row of the message it scrubs.
Scrub ==
    /\ Scrubs /\ Pending
    /\ row' = [row EXCEPT !.status = "parked"]
    /\ UNCHANGED <<job, att, provider, metered, old>>

GrowOld ==
    /\ ~old /\ Pending
    /\ old' = TRUE
    /\ UNCHANGED <<row, job, att, provider, metered>>

\* What one attempt does next.
Attempt ==
    \/ ReadPace \/ Load \/ Gates \/ Pacing \/ Recheck \/ Guard
    \/ Wire \/ RecordSent \/ ParkTransmitted \/ Classify
    \/ Throttled \/ Park \/ RecordFailure \/ RecordDeferral

Next == Stage \/ Start \/ Attempt \/ Finish \/ Crash \/ Rescue \/ Scrub \/ GrowOld

Spec == Init /\ [][Next]_vars

\* The runner works its jobs and rescues lost ones, a worker carries an attempt
\* on until it ends or dies, and time passes.
FairSpec ==
    /\ Spec
    /\ WF_vars(Start) /\ WF_vars(Attempt) /\ WF_vars(Finish)
    /\ WF_vars(Rescue) /\ WF_vars(GrowOld)
-----------------------------------------------------------------------------
(***************************************************************************)
(* Properties.                                                             *)
(***************************************************************************)
Closed == row.status \in {"sent", "parked"}
Ended == job.state \in {"done", "discarded"}

\* Types, and: the row and its job come together, an attempt has a running job,
\* and a running job has spent an attempt.
TypeOK ==
    /\ row \in Rows
    /\ job \in Jobs
    /\ att \in Attempts
    /\ provider \in [calls : Nat, copies : Nat]
    /\ metered \in Nat
    /\ old \in BOOLEAN
    /\ row.status = "none" <=> job.state = "none"
    /\ att.pc # "idle" => job.state = "running"
    /\ job.state = "running" => job.attempt > 0

\* The recipient gets the message once, whatever is lost between the wire and
\* the row: by a channel, which owns up to a lost answer, and by mail, where the
\* provider can be asked (guardAtMostOnce, FindByMessageID).
CanTell == row.shape = "channel" \/ (row.shape = "mail" /\ Honours)
AtMostOnce == CanTell => provider.copies <= 1

\* "The in-flight marker is what bounds this lane to at most one transmission,
\* exactly as it does for a messaging channel" (controllerSeam).
RelayAtMostOnce == row.shape = "controller" => provider.copies <= 1

\* A copy that left by a channel is on its row: it is sent, or the marker still
\* stands (MarkInFlight, ClearInFlight).
CopyLeavesTrace ==
    row.shape = "channel" /\ provider.copies > 0 => row.status = "sent" \/ row.inflight

\* The row's count never falls behind the calls already made, so no retry
\* takes itself for a first attempt (RecordDeferral gives back, Load counts).
CallsAreCounted == provider.calls <= row.attempts

\* The ladder has one rung more than it has transmissions: the last one parks
\* (sendMaxAttempts).
LastRungParks == provider.calls < MaxAttempts

\* A policy is told of a send at most once, and only of a message that is
\* recorded as sent (the metering after RecordSent).
MeteredOnce == metered <= 1 /\ (metered = 1 => row.status = "sent")

\* When only the provider misbehaves, a job that ended leaves no row behind that
\* says the message is still on its way: the row's own count must park it before
\* the runner gives up (the exhaustion guard in dispatchLoaded, sendMaxAttempts).
NeverStranded == row.faults = {} /\ Ended => Closed

\* Whatever fails, the runner stops trying; and when only the provider misbehaves,
\* every staged message is sent or parked (Finish, the two bounds, the age).
EverySendSettles ==
    /\ row.status = "pending" ~> Ended
    /\ row.status = "pending" /\ row.faults = {} ~> Closed
=============================================================================
