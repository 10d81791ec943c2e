--------------------------- MODULE DataTaskProofs ---------------------------
(***************************************************************************)
(* What holds of the ledger for any catalog, any number of executors,      *)
(* releases and operators.  The argument: an executor or an operator whose *)
(* version still matches holds the row as it is now, so a write that       *)
(* compares the version is a write to what was read; and whoever holds the *)
(* advisory lock is the only one between its pick and its commit.          *)
(***************************************************************************)
EXTENDS DataTask, TLAPS

\* A row of the ledger, or a copy of one.
RowOK(s, p) ==
    /\ p.scanned <= Rows[s]
    /\ p.rule # 0 => s \in Manual /\ p.scanned <= p.allowed
    /\ s \in Manual /\ p.rule = 0 => p.scanned = 0
    /\ p.status # "absent" => p.limit > 0
    /\ p.status = "absent" => p.version = 0 /\ p.failures = 0 /\ p.task = 0

RowInv == \A s \in Steps : RowOK(s, row[s])

\* A copy is as old as its version says, and no different while it is current.
Copies(k) ==
    /\ k.step \in Steps
    /\ k.row.version <= row[k.step].version
    /\ k.row.version = row[k.step].version => k.row = row[k.step]

\* What an executor may have picked.
Pickable(r, s, p) ==
    /\ p.status \in {"pending", "running", "done"}
    /\ p.task <= VersionOf[r][s]
    /\ ~Complete(r, s, p)
    /\ ~Dormant(r, s, p)

PickInv == \A e \in Executors : pc[e] # "idle" =>
    /\ Copies(pick[e])
    /\ Pickable(ReleaseOf[e], pick[e].step, pick[e].row)

SeenInv == \A o \in Operators : seen[o].step # 0 =>
    Copies(seen[o]) /\ seen[o].row.status # "absent"

LockInv == \A e \in Executors : pc[e] = "picked" => lock = e

\* The history of failures covers what is recorded, and what is about to be.
Covers(n, k) == n >= k \/ n >= FailureCap

EarnedInv ==
    /\ \A s \in Steps : Covers(streak[s], row[s].failures)
    /\ \A e \in Executors : pc[e] = "failing" /\ Unmoved(e) =>
           Covers(streak[pick[e].step], row[pick[e].step].failures + 1)
    /\ FailedIsEarned

InTurn(e) == \A t \in Unfinished(ReleaseOf[e]) :
                pick[e].step <= t \/ Restarting(ReleaseOf[e], t)

OrderInv == \A e \in Executors : pc[e] = "picked" => InTurn(e)

IInv == TypeOK /\ RowInv /\ PickInv /\ SeenInv /\ LockInv /\ EarnedInv /\ OrderInv

-----------------------------------------------------------------------------
LEMMA StepsAreNat == Steps \subseteq Nat /\ 0 \notin Steps
  BY DataTaskAssumption DEF Steps

LEMMA ReleaseTypes ==
  ASSUME NEW x \in Executors \cup Operators, NEW s \in Steps
  PROVE  /\ ReleaseOf[x] \in Releases
         /\ VersionOf[ReleaseOf[x]][s] \in Nat
         /\ RuleOf[ReleaseOf[x]][s] \in Nat \ {0}
<1>1. ReleaseOf[x] \in Releases
  BY DEF Releases
<1> QED
  BY <1>1, DataTaskAssumption

\* A field of a row is replaced by a value of its type.
LEMMA Fields ==
  ASSUME NEW p \in Progress
  PROVE  /\ \A x \in Statuses : [p EXCEPT !.status = x] \in Progress
         /\ \A x \in Nat : /\ [p EXCEPT !.version = x] \in Progress
                           /\ [p EXCEPT !.task = x] \in Progress
                           /\ [p EXCEPT !.scanned = x] \in Progress
                           /\ [p EXCEPT !.limit = x] \in Progress
                           /\ [p EXCEPT !.failures = x] \in Progress
  BY DEF Progress

\* A batch keeps a row well formed, counts its version on, and leaves it
\* running or done with no failures, at the release's version of the task.
LEMMA AdvancedOK ==
  ASSUME NEW r \in Releases, NEW s \in Steps, NEW p \in Progress,
         RowOK(s, p), Pickable(r, s, p)
  PROVE  LET q == Advanced(r, s, p)
         IN /\ q \in Progress /\ RowOK(s, q)
            /\ q.version = p.version + 1 /\ q.failures = 0
            /\ q.status \in {"running", "done"}
            /\ q.task >= p.task
<1>1. VersionOf[r][s] \in Nat /\ Rows[s] \in Nat /\ Limit[s] \in Nat /\ Limit[s] > 0
  BY DataTaskAssumption
<1>2. CASE RanOut(p)
  <2>1. Advanced(r, s, p) = [p EXCEPT !.status = "done", !.failures = 0, !.version = p.version + 1]
    BY <1>2 DEF Advanced
  <2>2. Advanced(r, s, p) \in Progress
    <3>1. p.version + 1 \in Nat /\ "done" \in Statuses
      BY DEF Progress, Statuses
    <3>2. [p EXCEPT !.status = "done"] \in Progress
      BY <3>1, Fields
    <3>3. [p EXCEPT !.status = "done", !.failures = 0] \in Progress
      BY <3>2, Fields
    <3> QED
      BY <2>1, <3>1, <3>3, Fields
  <2> QED
    BY <2>1, <2>2 DEF Progress, RowOK, Pickable
<1>3. CASE ~RanOut(p)
  <2> DEFINE q == Prepared(r, s, p)
             n == Found(s, q)
  <2>1. /\ q \in Progress /\ q.limit > 0 /\ q.scanned <= Rows[s]
        /\ q.rule = p.rule /\ q.allowed = p.allowed /\ q.version = p.version
        /\ q.rule # 0 => q.scanned + q.limit <= q.allowed
        /\ q.task >= p.task
    <3>1. CASE p.rule # 0
      <4>1. s \in Manual /\ p.task = VersionOf[r][s] /\ p.scanned < p.allowed
        BY <3>1, <1>3 DEF RowOK, Pickable, Dormant, Reviewed, RanOut, Progress
      <4>2. q = [p EXCEPT !.limit = Lesser(p.limit, p.allowed - p.scanned)]
        BY <3>1, <4>1 DEF Prepared, Progress
      <4>3. Lesser(p.limit, p.allowed - p.scanned) \in Nat
            /\ Lesser(p.limit, p.allowed - p.scanned) > 0
            /\ Lesser(p.limit, p.allowed - p.scanned) + p.scanned <= p.allowed
        BY <4>1 DEF Lesser, Progress, RowOK, Pickable
      <4> HIDE DEF q
      <4> QED
        BY <3>1, <4>1, <4>2, <4>3, <1>1 DEF Progress, RowOK
    <3>2. CASE p.rule = 0
      <4>1. q = IF p.task # VersionOf[r][s]
                THEN [p EXCEPT !.scanned = 0, !.limit = Limit[s], !.task = VersionOf[r][s]]
                ELSE p
        BY <3>2 DEF Prepared
      <4> HIDE DEF q
      <4> QED
        <5>1. q \in Progress
          BY <4>1, <1>1, Fields
        <5> QED
          BY <3>2, <4>1, <5>1, <1>1 DEF Progress, RowOK, Pickable
    <3> QED
      BY <3>1, <3>2
  <2> DEFINE last == n < q.limit \/ (q.rule # 0 /\ q.scanned + n >= q.allowed)
  <2>2. n \in Nat /\ n <= q.limit /\ q.scanned + n <= Rows[s]
    <3> HIDE DEF q
    <3> QED
      BY <2>1, <1>1 DEF Found, Lesser, Progress
  <2>3. Advanced(r, s, p) =
          [q EXCEPT !.status = IF last THEN "done" ELSE "running",
                    !.scanned = q.scanned + n, !.failures = 0, !.version = q.version + 1]
    BY <1>3 DEF Advanced
  <2>4. s \in Manual => q.rule # 0
    BY <2>1 DEF Pickable, Dormant, Reviewed
  <2>5. q.rule # 0 => s \in Manual
    BY <2>1 DEF RowOK
  <2> DEFINE st == IF last THEN "done" ELSE "running"
  <2>6. st \in Statuses /\ st \in {"running", "done"}
    BY DEF Statuses
  <2> HIDE DEF q, n, last, st
  <2>7. Advanced(r, s, p) =
          [q EXCEPT !.status = st, !.scanned = q.scanned + n, !.failures = 0, !.version = q.version + 1]
    BY <2>3 DEF st
  <2>8. Advanced(r, s, p) \in Progress
    <3>1. q.version + 1 \in Nat /\ q.scanned + n \in Nat
      BY <2>1, <2>2 DEF Progress
    <3>2. [q EXCEPT !.status = st] \in Progress
      BY <2>1, <2>6, Fields
    <3>3. [q EXCEPT !.status = st, !.scanned = q.scanned + n] \in Progress
      BY <3>1, <3>2, Fields
    <3>4. [q EXCEPT !.status = st, !.scanned = q.scanned + n, !.failures = 0] \in Progress
      BY <3>3, Fields
    <3> QED
      BY <2>7, <3>1, <3>4, Fields
  <2> QED
    BY <2>1, <2>2, <2>4, <2>5, <2>6, <2>7, <2>8 DEF Progress, RowOK
<1> QED
  BY <1>2, <1>3

\* A recorded failure changes the status, the limit and the counts only.
LEMMA FaultedOK ==
  ASSUME NEW s \in Steps, NEW p \in Progress, NEW slow \in BOOLEAN,
         RowOK(s, p), p.status # "absent"
  PROVE  LET q == Faulted(s, p, slow)
         IN /\ q \in Progress /\ RowOK(s, q)
            /\ q.version = p.version + 1 /\ q.failures = p.failures + 1
            /\ q.status \in {"running", "failed"}
            /\ q.status = "failed" => p.failures + 1 >= FailureCap
            /\ q.task = p.task /\ q.rule = p.rule /\ q.scanned = p.scanned
<1>1. MinLimit[s] \in Nat /\ MinLimit[s] > 0
  BY DataTaskAssumption
<1>2. Greater(MinLimit[s], p.limit \div 2) \in Nat /\ Greater(MinLimit[s], p.limit \div 2) > 0
  BY <1>1 DEF Greater, Progress
<1> DEFINE st == IF p.failures + 1 >= FailureCap THEN "failed" ELSE "running"
           lim == IF slow THEN Greater(MinLimit[s], p.limit \div 2) ELSE p.limit
<1>3. /\ st \in Statuses /\ st \in {"running", "failed"}
      /\ st = "failed" => p.failures + 1 >= FailureCap
      /\ lim \in Nat /\ lim > 0
  BY <1>2 DEF Statuses, Progress, RowOK
<1>4. Faulted(s, p, slow) =
        [p EXCEPT !.failures = p.failures + 1, !.status = st, !.limit = lim, !.version = p.version + 1]
  BY DEF Faulted
<1> HIDE DEF st, lim
<1>5. Faulted(s, p, slow) \in Progress
  <2>1. p.failures + 1 \in Nat /\ p.version + 1 \in Nat
    BY DEF Progress
  <2>2. [p EXCEPT !.failures = p.failures + 1] \in Progress
    BY <2>1, Fields
  <2>3. [p EXCEPT !.failures = p.failures + 1, !.status = st] \in Progress
    BY <1>3, <2>2, Fields
  <2>4. [p EXCEPT !.failures = p.failures + 1, !.status = st, !.limit = lim] \in Progress
    BY <1>3, <2>3, Fields
  <2> QED
    BY <1>4, <2>1, <2>4, Fields
<1> QED
  BY <1>3, <1>4, <1>5 DEF Progress, RowOK

-----------------------------------------------------------------------------
(* What every step leaves of a copy. *)

RowMoves == \A s \in Steps : row'[s] = row[s] \/ row'[s].version > row[s].version

LEMMA CopiesKept ==
  ASSUME TypeOK, TypeOK', RowMoves, NEW k \in Picks, Copies(k)
  PROVE  Copies(k)'
<1>1. k.step \in Steps /\ row[k.step] \in Progress /\ row'[k.step] \in Progress /\ k.row \in Progress
  BY DEF TypeOK, Copies, Picks
<1>2. /\ k.row.version \in Nat /\ row[k.step].version \in Nat /\ row'[k.step].version \in Nat
      /\ k.row.version <= row[k.step].version
  BY <1>1 DEF Progress, Copies
<1>3. row'[k.step] = row[k.step] \/ row'[k.step].version > row[k.step].version
  BY <1>1 DEF RowMoves
<1> QED
  BY <1>1, <1>2, <1>3 DEF Copies

\* The invariant is about these variables only.
ledger == <<row, lock, pc, pick, seen, streak>>

LEMMA LedgerKept ==
  ASSUME IInv, TypeOK', UNCHANGED ledger
  PROVE  IInv'
  BY DEF IInv, ledger, RowInv, RowOK, PickInv, Copies, Pickable, Complete, Dormant, Reviewed,
         SeenInv, LockInv, EarnedInv, Covers, Unmoved, FailedIsEarned, OrderInv, InTurn, Unfinished

LEMMA PassiveInv ==
  ASSUME IInv, \/ \E w \in Workers : StandDown(w)
               \/ Enqueue
               \/ \E s \in Steps : Elapse(s)
               \/ Migrate
  PROVE  IInv'
<1>1. TypeOK' /\ UNCHANGED ledger
  BY DEF IInv, TypeOK, StandDown, Enqueue, Elapse, Migrate, ledger
<1> QED
  BY <1>1, LedgerKept

LEMMA StutterInv ==
  ASSUME IInv, UNCHANGED vars
  PROVE  IInv'
<1>1. TypeOK' /\ UNCHANGED ledger
  BY DEF IInv, TypeOK, vars, ledger
<1> QED
  BY <1>1, LedgerKept

-----------------------------------------------------------------------------
(* The executor. *)

LEMMA NoPickType == NoPick \in Picks
<1>1. Absent \in Progress
  BY DEF Absent, Progress, Statuses
<1> QED
  BY <1>1, StepsAreNat, DataTaskAssumption DEF NoPick, Picks

LEMMA StepRange == Steps \subseteq 0..StepCount
  BY DataTaskAssumption DEF Steps

LEMMA BeginInv ==
  ASSUME IInv, NEW e \in Executors, NEW s \in Steps, Begin(e, s)
  PROVE  IInv'
<1> DEFINE k == [step |-> s, row |-> row[s], slow |-> FALSE]
           r == ReleaseOf[e]
<1> USE DEF IInv
<1>1. k \in Picks /\ row[s] \in Progress
  BY StepRange DEF TypeOK, Picks
<1>2. /\ pick' = [pick EXCEPT ![e] = k] /\ pc' = [pc EXCEPT ![e] = "picked"]
      /\ lock = NoOne /\ lock' = e /\ UNCHANGED <<row, seen, streak>>
      /\ Ready(r, s)
  BY DEF Begin, LockIsFree
<1>3. TypeOK'
  <2>1. pick' \in [Executors -> Picks] /\ pc' \in [Executors -> {"idle", "picked", "failing"}]
    BY <1>1, <1>2 DEF TypeOK
  <2>2. /\ job' \in {"none", "queued", "running"} /\ runner' \in Workers \cup {NoOne}
        /\ turns' \in Nat /\ lock' \in Executors \cup {NoOne}
    BY DEF TypeOK, Begin
  <2> QED
    BY <2>1, <2>2 DEF TypeOK, Begin
<1>4. \A f \in Executors : f # e => pick'[f] = pick[f] /\ pc'[f] = pc[f]
  BY <1>2 DEF TypeOK
<1>5. pick'[e] = k /\ pc'[e] = "picked"
  BY <1>2 DEF TypeOK
<1>6. RowInv' /\ SeenInv'
  BY <1>2 DEF RowInv, RowOK, SeenInv, Copies
<1>7. PickInv'
  <2>1. Pickable(r, s, row[s])
    <3>1. /\ row[s].status \in Statuses \ {"absent", "paused", "failed"}
          /\ row[s].task \in Nat
          /\ ~(row[s].task > VersionOf[r][s])
          /\ ~Complete(r, s, row[s]) /\ ~Dormant(r, s, row[s])
      BY <1>1, <1>2 DEF Ready, First, Blocked, Unfinished, Progress
    <3> QED
      BY <3>1, ReleaseTypes DEF Pickable, Statuses
  <2>2. pick'[e].step = s /\ pick'[e].row = row[s]
    BY <1>5
  <2>3. Copies(pick[e])' /\ Pickable(ReleaseOf[e], pick'[e].step, pick'[e].row)
    <3>1. row[s].version \in Nat
      BY <1>1 DEF Progress
    <3> QED
      BY <1>2, <2>1, <2>2, <3>1 DEF Copies
  <2>4. \A f \in Executors : f # e /\ pc'[f] # "idle" =>
           Copies(pick[f])' /\ Pickable(ReleaseOf[f], pick[f].step, pick[f].row)
    BY <1>2, <1>4 DEF PickInv, Copies
  <2>5. ASSUME NEW f \in Executors, pc'[f] # "idle"
        PROVE  Copies(pick[f])' /\ Pickable(ReleaseOf[f], pick[f].step, pick[f].row)'
    <3>1. CASE f = e
      BY <2>3, <3>1 DEF Pickable, Complete, Dormant, Reviewed
    <3>2. CASE f # e
      BY <2>4, <2>5, <1>4, <3>2 DEF Pickable, Complete, Dormant, Reviewed
    <3> QED
      BY <3>1, <3>2
  <2> QED
    BY <2>5 DEF PickInv
<1>8. LockInv'
  <2>1. NoOne \notin Executors
    BY DataTaskAssumption
  <2> QED
    BY <1>2, <1>4, <1>5, <2>1 DEF LockInv
<1>9. EarnedInv'
  BY <1>2, <1>4, <1>5 DEF EarnedInv, Covers, Unmoved, FailedIsEarned
<1>10. OrderInv'
  <2>1. Unfinished(r)' = Unfinished(r)
    BY <1>2 DEF Unfinished, Dormant, Reviewed, Complete
  <2>2. \A t \in Unfinished(r) : s <= t
    BY <1>2 DEF Ready, First
  <2>3. InTurn(e)'
    BY <1>5, <2>1, <2>2 DEF InTurn
  <2>4. \A f \in Executors : f # e => pc'[f] # "picked"
    BY <1>2, <1>4, DataTaskAssumption DEF LockInv
  <2> QED
    BY <2>3, <2>4 DEF OrderInv
<1> QED
  BY <1>3, <1>6, <1>7, <1>8, <1>9, <1>10

\* An executor that comes to rest without touching the ledger.
LEMMA RestInv ==
  ASSUME IInv, TypeOK', NEW e \in Executors, UNCHANGED <<row, seen, streak>>, Rest(e),
         \A f \in Executors : f # e /\ lock = f => lock' = f
  PROVE  IInv'
<1> USE DEF IInv
<1>1. /\ pc'[e] = "idle"
      /\ \A f \in Executors : f # e => pick'[f] = pick[f] /\ pc'[f] = pc[f]
  BY DEF TypeOK, Rest
<1>3. RowInv' /\ SeenInv' /\ LockInv'
  BY <1>1 DEF RowInv, RowOK, SeenInv, Copies, LockInv
<1>4. PickInv'
  BY <1>1 DEF PickInv, Copies
<1>5. EarnedInv'
  BY <1>1 DEF EarnedInv, Covers, Unmoved, FailedIsEarned
<1>6. OrderInv'
  BY <1>1 DEF OrderInv, InTurn, Unfinished, Dormant, Reviewed, Complete
<1> QED
  BY <1>3, <1>4, <1>5, <1>6

LEMMA RestTypes ==
  ASSUME TypeOK, NEW e \in Executors, Rest(e)
  PROVE  /\ pc' \in [Executors -> {"idle", "picked", "failing"}]
         /\ pick' \in [Executors -> Picks]
         /\ runner' \in Workers \cup {NoOne}
  BY NoPickType DEF TypeOK, Rest

LEMMA MovedInv ==
  ASSUME IInv, NEW e \in Executors, Moved(e) \/ GiveUp(e) \/ Crash(e)
  PROVE  IInv'
<1>1. Rest(e) /\ Unlock(e) /\ UNCHANGED <<row, seen, streak>>
  BY DEF Moved, GiveUp, Crash
<1>2. TypeOK'
  <2>1. /\ lock' \in Executors \cup {NoOne} /\ job' \in {"none", "queued", "running"}
        /\ faults' \in Nat
    BY <1>1 DEF IInv, TypeOK, Moved, GiveUp, Crash, Unlock, JobAfter
  <2>2. UNCHANGED <<waiting, migrated, saw, looks, turns, bound>>
    BY DEF Moved, GiveUp, Crash
  <2> QED
    BY <1>1, <2>1, <2>2, RestTypes DEF IInv, TypeOK
<1>3. \A f \in Executors : f # e /\ lock = f => lock' = f
  BY <1>1 DEF Unlock
<1> QED
  BY <1>1, <1>2, <1>3, RestInv

LEMMA FailInv ==
  ASSUME IInv, NEW e \in Executors, NEW slow \in BOOLEAN, Fail(e, slow)
  PROVE  IInv'
<1> USE DEF IInv
<1> DEFINE s == pick[e].step
<1>1. /\ pc[e] = "picked" /\ pc' = [pc EXCEPT ![e] = "failing"]
      /\ pick' = [pick EXCEPT ![e].slow = slow]
      /\ streak' = [streak EXCEPT ![s] = Lesser(streak[s] + 1, FailureCap)]
      /\ Unlock(e) /\ UNCHANGED <<row, seen>>
  BY DEF Fail
<1>2. s \in Steps /\ pick[e] \in Picks
  BY <1>1 DEF PickInv, Copies, TypeOK
<1>3. /\ pc'[e] = "failing" /\ pick'[e].step = s /\ pick'[e].row = pick[e].row
      /\ \A f \in Executors : f # e => pick'[f] = pick[f] /\ pc'[f] = pc[f]
  BY <1>1, <1>2 DEF TypeOK, Picks
<1>4. /\ streak'[s] = Lesser(streak[s] + 1, FailureCap)
      /\ \A t \in Steps : t # s => streak'[t] = streak[t]
  BY <1>1, <1>2 DEF TypeOK
<1>5. FailureCap \in Nat /\ FailureCap > 0 /\ streak[s] \in Nat
      /\ streak \in [Steps -> Nat] /\ row \in [Steps -> Progress]
  BY <1>2, DataTaskAssumption DEF TypeOK
<1>6. TypeOK'
  <2>1. pick' \in [Executors -> Picks]
    <3>1. [pick[e] EXCEPT !.slow = slow] \in Picks
      BY <1>2 DEF Picks
    <3> QED
      BY <1>1, <3>1 DEF TypeOK
  <2>2. streak' \in [Steps -> Nat]
    <3>1. Lesser(streak[s] + 1, FailureCap) \in Nat
      BY <1>5 DEF Lesser
    <3> HIDE DEF s
    <3> QED
      BY <1>1, <1>5, <3>1
  <2>3. lock' \in Executors \cup {NoOne}
    BY <1>1 DEF TypeOK, Unlock
  <2> QED
    BY <1>1, <2>1, <2>2, <2>3 DEF TypeOK, Fail
<1>7. RowInv' /\ SeenInv' /\ LockInv'
  BY <1>1, <1>3 DEF RowInv, RowOK, SeenInv, Copies, LockInv, Unlock
<1>8. PickInv'
  <2>1. \A f \in Executors : pick'[f].step = pick[f].step /\ pick'[f].row = pick[f].row
    BY <1>3
  <2>2. \A f \in Executors : pc'[f] # "idle" => pc[f] # "idle"
    BY <1>1, <1>3
  <2> QED
    BY <1>1, <2>1, <2>2 DEF PickInv, Copies
<1>9. EarnedInv'
  <2> HIDE DEF s
  <2>1. \A t \in Steps : \A k \in Nat : Covers(streak[t], k) => Covers(streak'[t], k)
    BY <1>4, <1>5 DEF Covers, Lesser
  <2>2. row[s].failures \in Nat /\ Covers(streak[s], row[s].failures)
    BY <1>2, <1>5 DEF EarnedInv, Progress
  <2>3. Covers(streak'[s], row[s].failures + 1)
    BY <1>4, <1>5, <2>2 DEF Covers, Lesser
  <2>4. \A t \in Steps : row[t].failures \in Nat /\ row[t].failures + 1 \in Nat
    BY <1>5 DEF Progress
  <2>5. \A f \in Executors : f # e /\ pc'[f] = "failing" /\ Unmoved(f)' =>
           Covers(streak[pick[f].step], row[pick[f].step].failures + 1) /\ pick[f].step \in Steps
    BY <1>1, <1>3 DEF EarnedInv, Unmoved, PickInv, Copies
  <2>6. FailedIsEarned'
    <3>1. \A t \in Steps : streak[t] >= FailureCap => streak'[t] >= FailureCap
      BY <1>4, <1>5 DEF Lesser
    <3> QED
      BY <1>1, <3>1 DEF EarnedInv, FailedIsEarned
  <2>7. \A t \in Steps : Covers(streak'[t], row'[t].failures)
    BY <1>1, <2>1, <2>4 DEF EarnedInv
  <2>8. \A f \in Executors : pc'[f] = "failing" /\ Unmoved(f)' =>
           Covers(streak'[pick'[f].step], row'[pick'[f].step].failures + 1)
    <3> SUFFICES ASSUME NEW f \in Executors, pc'[f] = "failing", Unmoved(f)'
                 PROVE  Covers(streak'[pick'[f].step], row'[pick'[f].step].failures + 1)
      OBVIOUS
    <3>1. CASE f = e
      BY <1>1, <1>3, <2>3, <3>1
    <3>2. CASE f # e
      BY <1>1, <1>3, <2>1, <2>4, <2>5, <3>2
    <3> QED
      BY <3>1, <3>2
  <2>9. (\A t \in Steps : Covers(streak[t], row[t].failures))'
    BY <2>7 DEF Covers
  <2>10. (\A f \in Executors : pc[f] = "failing" /\ Unmoved(f) =>
            Covers(streak[pick[f].step], row[pick[f].step].failures + 1))'
    BY <2>8 DEF Covers
  <2> QED
    BY <2>6, <2>9, <2>10 DEF EarnedInv
<1>10. OrderInv'
  BY <1>1, <1>3 DEF OrderInv, InTurn, Unfinished, Dormant, Reviewed, Complete
<1> QED
  BY <1>6, <1>7, <1>8, <1>9, <1>10

-----------------------------------------------------------------------------
(* Writes to one row of the ledger. *)

LEMMA TurnKept ==
  ASSUME NEW f \in Executors, InTurn(f), pick'[f] = pick[f],
         \A t \in Unfinished(ReleaseOf[f])' :
            t \in Unfinished(ReleaseOf[f]) \/ Restarting(ReleaseOf[f], t)
  PROVE  InTurn(f)'
  BY DEF InTurn

LEMMA WriteInv ==
  ASSUME IInv, TypeOK', NEW s \in Steps, NEW q \in Progress,
         row' = [row EXCEPT ![s] = q], q.version = row[s].version + 1, RowOK(s, q),
         \A t \in Steps : t # s => streak'[t] = streak[t],
         Covers(streak'[s], q.failures),
         q.status = "failed" => streak'[s] >= FailureCap,
         \A f \in Executors : pc'[f] # "idle" => pc[f] # "idle" /\ pick'[f] = pick[f],
         \A f \in Executors : pc'[f] = "failing" /\ pick[f].step # s => pc[f] = "failing",
         \A f \in Executors : pc'[f] = "picked" => pc[f] = "picked" /\ lock' = f /\ InTurn(f)',
         \A o \in Operators : seen'[o].step # 0 => seen'[o] = seen[o]
  PROVE  IInv'
<1> USE DEF IInv
<1>1. /\ row'[s] = q /\ row[s] \in Progress /\ q.version > row[s].version
      /\ \A t \in Steps : t # s => row'[t] = row[t]
  BY DEF TypeOK, Progress
<1>2. RowMoves
  BY <1>1 DEF RowMoves
<1>3. RowInv'
  <2>1. \A t \in Steps : RowOK(t, row'[t])
    BY <1>1 DEF RowInv
  <2> QED
    BY <2>1 DEF RowInv, RowOK
<1>4. PickInv'
  <2> SUFFICES ASSUME NEW f \in Executors, pc'[f] # "idle"
               PROVE  Copies(pick[f])' /\ Pickable(ReleaseOf[f], pick[f].step, pick[f].row)'
    BY DEF PickInv
  <2>1. pick[f] \in Picks /\ pick'[f] = pick[f] /\ Copies(pick[f])
        /\ Pickable(ReleaseOf[f], pick[f].step, pick[f].row)
    BY DEF PickInv, TypeOK
  <2> DEFINE k == pick[f]
  <2>2. ASSUME NEW c \in Picks, Copies(c), c = pick'[f]
        PROVE  Copies(pick[f])'
    <3>1. Copies(c)'
      BY <1>2, <2>2, CopiesKept
    <3> QED
      BY <2>2, <3>1 DEF Copies
  <2> QED
    BY <2>1, <2>2 DEF Pickable, Complete, Dormant, Reviewed
<1>5. SeenInv'
  <2> SUFFICES ASSUME NEW o \in Operators, seen'[o].step # 0
               PROVE  Copies(seen[o])' /\ seen'[o].row.status # "absent"
    BY DEF SeenInv
  <2>1. /\ seen[o] \in Picks /\ seen'[o] = seen[o] /\ Copies(seen[o])
        /\ seen[o].row.status # "absent"
    BY DEF SeenInv, TypeOK
  <2>2. ASSUME NEW c \in Picks, Copies(c), c = seen'[o]
        PROVE  Copies(seen[o])'
    <3>1. Copies(c)'
      BY <1>2, <2>2, CopiesKept
    <3> QED
      BY <2>2, <3>1 DEF Copies
  <2> QED
    BY <2>1, <2>2
<1>6. LockInv' /\ OrderInv'
  BY DEF LockInv, OrderInv
<1>7. EarnedInv'
  <2>1. (\A t \in Steps : Covers(streak[t], row[t].failures))'
    <3>1. \A t \in Steps : Covers(streak'[t], row'[t].failures)
      BY <1>1 DEF EarnedInv
    <3> QED
      BY <3>1 DEF Covers
  <2>2. (\A f \in Executors : pc[f] = "failing" /\ Unmoved(f) =>
            Covers(streak[pick[f].step], row[pick[f].step].failures + 1))'
    <3> SUFFICES ASSUME NEW f \in Executors, pc'[f] = "failing", Unmoved(f)'
                 PROVE  Covers(streak'[pick'[f].step], row'[pick'[f].step].failures + 1)
      BY DEF Covers
    <3>1. pick'[f] = pick[f] /\ Copies(pick[f]) /\ pick[f] \in Picks
      BY DEF PickInv, TypeOK
    <3>2. pick[f].step # s
      <4>1. pick[f].row.version \in Nat /\ row[s].version \in Nat
        BY <1>1, <3>1 DEF Picks, Progress
      <4> QED
        BY <1>1, <3>1, <4>1 DEF Copies, Unmoved
    <3>3. pc[f] = "failing" /\ pick[f].step \in Steps /\ row'[pick[f].step] = row[pick[f].step]
          /\ streak'[pick[f].step] = streak[pick[f].step]
      BY <1>1, <3>1, <3>2 DEF Copies
    <3> QED
      BY <3>1, <3>3 DEF EarnedInv, Unmoved
  <2>3. FailedIsEarned'
    BY <1>1 DEF EarnedInv, FailedIsEarned
  <2> QED
    BY <2>1, <2>2, <2>3 DEF EarnedInv
<1> QED
  BY <1>3, <1>4, <1>5, <1>6, <1>7

LEMMA CommitInv ==
  ASSUME IInv, NEW e \in Executors, Commit(e) \/ CommitUnheard(e)
  PROVE  IInv'
<1> USE DEF IInv
<1> DEFINE s == pick[e].step
           r == ReleaseOf[e]
           q == Advanced(r, s, pick[e].row)
<1>1. /\ pc[e] = "picked" /\ Unmoved(e) /\ row' = [row EXCEPT ![s] = q]
      /\ waiting' = waiting \ {s} /\ streak' = [streak EXCEPT ![s] = 0]
      /\ bound' = [bound EXCEPT ![s] = Unbounded]
      /\ Unlock(e) /\ seen' = seen /\ UNCHANGED <<migrated, saw, looks, turns>>
  BY DEF Commit, CommitUnheard, Progresses
<1>2. /\ s \in Steps /\ pick[e].row = row[s] /\ row[s] \in Progress /\ RowOK(s, row[s])
      /\ Pickable(r, s, row[s]) /\ r \in Releases
  BY <1>1, ReleaseTypes DEF PickInv, Copies, Unmoved, TypeOK, RowInv
<1>3. /\ q \in Progress /\ RowOK(s, q) /\ q.version = row[s].version + 1
      /\ q.failures = 0 /\ q.status \in {"running", "done"}
  BY <1>2, AdvancedOK
<1>4. /\ \A f \in Executors : f # e => pc'[f] = pc[f] /\ pick'[f] = pick[f]
      /\ pc'[e] # "picked"
      /\ pc'[e] # "idle" => pick'[e] = pick[e]
      /\ pick' \in [Executors -> Picks]
      /\ pc' \in [Executors -> {"idle", "picked", "failing"}]
      /\ runner' \in Workers \cup {NoOne}
  <2>1. CASE Commit(e)
    BY <2>1, RestTypes DEF Commit, Rest, TypeOK
  <2>2. CASE CommitUnheard(e)
    BY <2>2 DEF CommitUnheard, TypeOK
  <2> QED
    BY <2>1, <2>2
<1>5. \A f \in Executors : pc'[f] # "picked"
  BY <1>1, <1>4 DEF LockInv
<1> HIDE DEF q, s
<1>6. streak' \in [Steps -> Nat] /\ streak'[s] = 0
      /\ \A t \in Steps : t # s => streak'[t] = streak[t]
  BY <1>1, <1>2 DEF TypeOK
<1>7. TypeOK'
  <2>1. row' \in [Steps -> Progress]
        /\ (\A t \in Steps : row[t].status # "absent" => row[t].limit > 0)'
    BY <1>1, <1>2, <1>3 DEF TypeOK, RowOK
  <2>2. bound' \in [Steps -> [task : Nat, limit : Nat]]
    BY <1>1 DEF TypeOK, Unbounded
  <2>3. lock' \in Executors \cup {NoOne} /\ waiting' \subseteq Steps
    BY <1>1 DEF TypeOK, Unlock
  <2>4. job' \in {"none", "queued", "running"} /\ faults' \in Nat
    BY DEF TypeOK, Commit, CommitUnheard, JobAfter
  <2> QED
    BY <1>1, <1>4, <1>6, <2>1, <2>2, <2>3, <2>4 DEF TypeOK
<1>8. FailureCap \in Nat /\ Covers(streak'[s], q.failures)
  BY <1>3, <1>6, DataTaskAssumption DEF Covers
<1>9. q.status # "failed"
  BY <1>3
<1>10. \A f \in Executors : pc'[f] = "failing" /\ pick[f].step # s => pc[f] = "failing"
  BY <1>4 DEF s
<1>11. \A f \in Executors : pc'[f] # "idle" => pc[f] # "idle" /\ pick'[f] = pick[f]
  BY <1>1, <1>4
<1> QED
  BY <1>1, <1>2, <1>3, <1>5, <1>6, <1>7, <1>8, <1>9, <1>10, <1>11, WriteInv

LEMMA RecordInv ==
  ASSUME IInv, NEW e \in Executors, Record(e)
  PROVE  IInv'
<1> USE DEF IInv
<1> DEFINE s == pick[e].step
           q == Faulted(s, pick[e].row, pick[e].slow)
<1>1. /\ pc[e] = "failing" /\ Rest(e) /\ UNCHANGED <<lock, seen, streak>>
      /\ UNCHANGED <<migrated, saw, looks, faults, turns>>
      /\ job' \in {"none", "queued", "running"}
  BY DEF Record, JobAfter, TypeOK
<1>2. /\ pc' \in [Executors -> {"idle", "picked", "failing"}] /\ pick' \in [Executors -> Picks]
      /\ runner' \in Workers \cup {NoOne}
  BY <1>1, RestTypes
<1>3. CASE ~Unmoved(e)
  <2>1. UNCHANGED <<row, waiting, bound>>
    BY <1>3 DEF Record
  <2>2. TypeOK'
    BY <1>1, <1>2, <2>1 DEF TypeOK
  <2> QED
    BY <1>1, <2>1, <2>2, RestInv
<1>4. CASE Unmoved(e)
  <2>1. /\ row' = [row EXCEPT ![s] = q]
        /\ waiting' = IF row'[s].status = "failed" THEN waiting \ {s} ELSE waiting \cup {s}
        /\ bound' = IF pick[e].slow
                    THEN [bound EXCEPT ![s] =
                            [task |-> VersionOf[ReleaseOf[e]][s],
                             limit |-> Greater(MinLimit[s], LimitUsed(e) \div 2)]]
                    ELSE bound
    BY <1>4 DEF Record
  <2>2. /\ s \in Steps /\ pick[e].row = row[s] /\ row[s] \in Progress /\ RowOK(s, row[s])
        /\ Pickable(ReleaseOf[e], s, row[s]) /\ pick[e].slow \in BOOLEAN
    BY <1>1, <1>4 DEF PickInv, Copies, Unmoved, TypeOK, RowInv, Picks
  <2>3. /\ q \in Progress /\ RowOK(s, q) /\ q.version = row[s].version + 1
        /\ q.failures = row[s].failures + 1
        /\ q.status = "failed" => row[s].failures + 1 >= FailureCap
        /\ q.status \in {"running", "failed"}
        /\ q.task = row[s].task /\ q.rule = row[s].rule
    <3>1. row[s].status # "absent"
      BY <2>2 DEF Pickable
    <3> QED
      BY <2>2, <3>1, FaultedOK
  <2>4. /\ Covers(streak[s], q.failures)
        /\ q.status = "failed" => streak[s] >= FailureCap
    <3>1. Covers(streak[s], row[s].failures + 1)
      BY <1>1, <1>4 DEF EarnedInv
    <3>2. streak[s] \in Nat /\ FailureCap \in Nat /\ row[s].failures \in Nat
      BY <2>2, DataTaskAssumption DEF TypeOK, Progress
    <3> HIDE DEF q
    <3> QED
      BY <2>3, <3>1, <3>2 DEF Covers
  <2>5. /\ pc'[e] = "idle"
        /\ \A f \in Executors : f # e => pc'[f] = pc[f] /\ pick'[f] = pick[f]
    BY <1>1 DEF Rest, TypeOK
  <2>6. LimitUsed(e) \in Nat
    <3>1. VersionOf[ReleaseOf[e]][s] \in Nat /\ Limit[s] \in Nat
      BY <2>2, ReleaseTypes, DataTaskAssumption
    <3>2. CASE row[s].rule = 0
      <4>1. LimitUsed(e) = (IF row[s].task # VersionOf[ReleaseOf[e]][s]
                           THEN [row[s] EXCEPT !.scanned = 0, !.limit = Limit[s],
                                               !.task = VersionOf[ReleaseOf[e]][s]]
                           ELSE row[s]).limit
        BY <2>2, <3>2 DEF LimitUsed, Prepared
      <4> QED
        BY <2>2, <3>1, <4>1 DEF Progress
    <3>3. CASE row[s].rule # 0
      <4>1. row[s].task = VersionOf[ReleaseOf[e]][s] /\ row[s].scanned <= row[s].allowed
        BY <2>2, <3>3 DEF RowOK, Pickable, Dormant, Reviewed
      <4>2. LimitUsed(e) =
              [row[s] EXCEPT !.limit = Lesser(row[s].limit, row[s].allowed - row[s].scanned)].limit
        BY <2>2, <3>3, <4>1 DEF LimitUsed, Prepared, Progress
      <4>3. Lesser(row[s].limit, row[s].allowed - row[s].scanned) \in Nat
        BY <2>2, <4>1 DEF Lesser, Progress
      <4> QED
        BY <2>2, <4>2, <4>3 DEF Progress
    <3> QED
      BY <3>2, <3>3
  <2> HIDE DEF q, s
  <2>7. TypeOK'
    <3>1. row' \in [Steps -> Progress]
          /\ (\A t \in Steps : row[t].status # "absent" => row[t].limit > 0)'
      BY <2>1, <2>2, <2>3 DEF TypeOK, RowOK
    <3>2. bound' \in [Steps -> [task : Nat, limit : Nat]]
      <4>1. Greater(MinLimit[s], LimitUsed(e) \div 2) \in Nat /\ VersionOf[ReleaseOf[e]][s] \in Nat
        BY <2>2, <2>6, ReleaseTypes, DataTaskAssumption DEF Greater
      <4> QED
        BY <2>1, <2>2, <4>1 DEF TypeOK
    <3>3. waiting' \subseteq Steps
      BY <2>1, <2>2 DEF TypeOK
    <3> QED
      BY <1>1, <1>2, <3>1, <3>2, <3>3 DEF TypeOK
  <2>8. ASSUME NEW f \in Executors, pc'[f] = "picked"
        PROVE  pc[f] = "picked" /\ lock' = f /\ InTurn(f)'
    <3>1. f # e /\ pc[f] = "picked" /\ pick'[f] = pick[f] /\ lock' = f /\ InTurn(f)
      BY <1>1, <2>5, <2>8 DEF LockInv, OrderInv
    <3>2. ASSUME NEW t \in Unfinished(ReleaseOf[f])'
          PROVE  t \in Unfinished(ReleaseOf[f]) \/ Restarting(ReleaseOf[f], t)
      <4>1. CASE t # s
        BY <2>1, <2>2, <3>2, <4>1 DEF Unfinished, Dormant, Reviewed, Complete, TypeOK
      <4>2. CASE t = s
        <5>1. row'[s] = q
          BY <2>1, <2>2 DEF TypeOK
        <5>2. VersionOf[ReleaseOf[f]][s] > 0 /\ ~Dormant(ReleaseOf[f], s, row[s])
          BY <2>3, <3>2, <4>2, <5>1 DEF Unfinished, Dormant, Reviewed
        <5>3. CASE ~Complete(ReleaseOf[f], s, row[s])
          BY <2>2, <4>2, <5>2, <5>3 DEF Unfinished
        <5>4. CASE Complete(ReleaseOf[f], s, row[s])
          <6>1. /\ VersionOf[ReleaseOf[e]][s] \in Nat /\ VersionOf[ReleaseOf[f]][s] \in Nat
                /\ ReleaseOf[e] \in Releases
            BY <2>2, ReleaseTypes
          <6>2. VersionOf[ReleaseOf[e]][s] > VersionOf[ReleaseOf[f]][s]
            BY <2>2, <5>4, <6>1 DEF Pickable, Complete
          <6> QED
            BY <4>2, <6>1, <6>2 DEF Restarting
        <5> QED
          BY <5>3, <5>4
      <4> QED
        BY <4>1, <4>2
    <3> QED
      BY <3>1, <3>2, TurnKept
  <2>9. \A f \in Executors : pc'[f] # "idle" => pc[f] # "idle" /\ pick'[f] = pick[f]
    BY <2>5
  <2>10. \A f \in Executors : pc'[f] = "failing" /\ pick[f].step # s => pc[f] = "failing"
    BY <2>5
  <2> QED
    BY <1>1, <2>1, <2>2, <2>3, <2>4, <2>7, <2>8, <2>9, <2>10, WriteInv
<1> QED
  BY <1>3, <1>4

-----------------------------------------------------------------------------
(* The operators. *)

LEMMA LookInv ==
  ASSUME IInv, NEW o \in Operators, NEW s \in Steps, Look(o, s)
  PROVE  IInv'
<1> USE DEF IInv
<1> DEFINE k == [step |-> s, row |-> row[s], slow |-> FALSE]
<1>1. /\ row[s].status # "absent" /\ seen' = [seen EXCEPT ![o] = k]
      /\ UNCHANGED <<row, lock, pc, pick, streak>>
  BY DEF Look
<1>2. k \in Picks /\ row[s].version \in Nat
  BY StepRange DEF TypeOK, Picks, Progress
<1>3. TypeOK'
  <2>1. seen' \in [Operators -> Picks] /\ looks' \in Nat
    BY <1>1, <1>2 DEF TypeOK, Look
  <2> QED
    BY <2>1 DEF TypeOK, Look
<1>4. \A x \in Operators : seen'[x] = IF x = o THEN k ELSE seen[x]
  BY <1>1 DEF TypeOK
<1>5. SeenInv'
  <2> SUFFICES ASSUME NEW x \in Operators, seen'[x].step # 0
               PROVE  Copies(seen[x])' /\ seen'[x].row.status # "absent"
    BY DEF SeenInv
  <2>1. CASE x = o
    <3>1. seen'[x] = k
      BY <1>4, <2>1
    <3> QED
      BY <1>1, <1>2, <3>1 DEF Copies
  <2>2. CASE x # o
    BY <1>1, <1>4, <2>2 DEF SeenInv, Copies
  <2> QED
    BY <2>1, <2>2
<1>6. RowInv' /\ PickInv' /\ LockInv'
  BY <1>1 DEF RowInv, RowOK, PickInv, Copies, Pickable, Complete, Dormant, Reviewed, LockInv
<1>7. EarnedInv' /\ OrderInv'
  BY <1>1 DEF EarnedInv, Covers, Unmoved, FailedIsEarned, OrderInv, InTurn, Unfinished,
              Dormant, Reviewed, Complete
<1> QED
  BY <1>3, <1>5, <1>6, <1>7

\* A screen that is current shows the row.
LEMMA CurrentRow ==
  ASSUME IInv, NEW o \in Operators, Current(o)
  PROVE  /\ seen[o].step \in Steps /\ seen[o].row = row[seen[o].step]
         /\ row[seen[o].step] \in Progress /\ RowOK(seen[o].step, row[seen[o].step])
         /\ row[seen[o].step].status # "absent"
  BY DEF IInv, SeenInv, Copies, Current, TypeOK, RowInv

LEMMA ControlInv ==
  ASSUME IInv, NEW o \in Operators, NEW action \in {"pause", "resume", "retry", "estimate"},
         Control(o, action)
  PROVE  IInv'
<1> USE DEF IInv
<1> DEFINE s == seen[o].step
           q == Controlled(row[s], action)
<1>1. /\ s \in Steps /\ row[s] \in Progress /\ RowOK(s, row[s]) /\ row[s].status # "absent"
  BY CurrentRow DEF Control
<1>2. /\ row' = [row EXCEPT ![s] = q]
      /\ streak' = IF action = "retry" THEN [streak EXCEPT ![s] = 0] ELSE streak
      /\ seen' = [seen EXCEPT ![o] = NoPick] /\ waiting' \subseteq Steps
      /\ UNCHANGED <<migrated, lock, pc, pick, job, runner, saw, looks, faults, turns, bound>>
      /\ Allows(row[s], action) \/ action = "estimate"
  BY DEF Control, TypeOK
<1> DEFINE st == CASE action = "pause" -> "paused" [] action = "estimate" -> row[s].status
                   [] OTHER -> "pending"
           fl == IF action = "retry" THEN 0 ELSE row[s].failures
<1>3. /\ q = [row[s] EXCEPT !.status = st, !.failures = fl, !.version = row[s].version + 1]
      /\ st \in {"paused", "pending", row[s].status} /\ st \in Statuses
      /\ fl \in Nat /\ row[s].version + 1 \in Nat
      /\ st = "failed" => action = "estimate" /\ row[s].status = "failed"
      /\ row[s].status = "done" => st = "done"
  BY <1>1, <1>2 DEF Controlled, Progress, Statuses, Allows
<1> HIDE DEF st, fl
<1>4. q \in Progress
  <2>1. [row[s] EXCEPT !.status = st] \in Progress
    BY <1>1, <1>3, Fields
  <2>2. [row[s] EXCEPT !.status = st, !.failures = fl] \in Progress
    BY <1>3, <2>1, Fields
  <2> QED
    BY <1>3, <2>2, Fields
<1>5. /\ q.version = row[s].version + 1 /\ q.status = st /\ q.failures = fl
      /\ q.task = row[s].task /\ q.rule = row[s].rule /\ q.scanned = row[s].scanned
      /\ q.allowed = row[s].allowed /\ q.limit = row[s].limit
  BY <1>1, <1>3 DEF Progress
<1>6. RowOK(s, q)
  BY <1>1, <1>3, <1>5 DEF RowOK
<1>7. /\ streak' \in [Steps -> Nat] /\ \A t \in Steps : t # s => streak'[t] = streak[t]
      /\ Covers(streak'[s], q.failures)
      /\ q.status = "failed" => streak'[s] >= FailureCap
  <2>1. CASE action = "retry"
    <3>1. streak' = [streak EXCEPT ![s] = 0] /\ fl = 0
      BY <1>2, <2>1 DEF fl
    <3>2. st # "failed"
      BY <1>3, <2>1
    <3> HIDE DEF s
    <3> QED
      BY <1>1, <1>5, <3>1, <3>2 DEF TypeOK, Covers
  <2>2. CASE action # "retry"
    <3>1. streak' = streak /\ fl = row[s].failures
      BY <1>2, <2>2 DEF fl
    <3> QED
      BY <1>1, <1>3, <1>5, <3>1 DEF TypeOK, Covers, EarnedInv, FailedIsEarned
  <2> QED
    BY <2>1, <2>2
<1>8. \A x \in Operators : seen'[x] = IF x = o THEN NoPick ELSE seen[x]
  BY <1>2 DEF TypeOK
<1> HIDE DEF s, q
<1>9. TypeOK'
  <2>1. row' \in [Steps -> Progress]
        /\ (\A t \in Steps : row[t].status # "absent" => row[t].limit > 0)'
    BY <1>1, <1>2, <1>4, <1>6 DEF TypeOK, RowOK
  <2>2. seen' \in [Operators -> Picks]
    BY <1>2, NoPickType DEF TypeOK
  <2> QED
    BY <1>2, <1>7, <2>1, <2>2 DEF TypeOK
<1>10. ASSUME NEW f \in Executors, pc'[f] = "picked"
       PROVE  pc[f] = "picked" /\ lock' = f /\ InTurn(f)'
  <2>1. pc[f] = "picked" /\ pick'[f] = pick[f] /\ lock' = f /\ InTurn(f)
    BY <1>2, <1>10 DEF LockInv, OrderInv
  <2>2. ASSUME NEW t \in Unfinished(ReleaseOf[f])'
        PROVE  t \in Unfinished(ReleaseOf[f])
    <3>1. CASE t # s
      BY <1>1, <1>2, <2>2, <3>1 DEF Unfinished, Dormant, Reviewed, Complete, TypeOK
    <3>2. CASE t = s
      <4>1. row'[s] = q
        BY <1>1, <1>2 DEF TypeOK
      <4> QED
        BY <1>1, <1>3, <1>5, <2>2, <3>2, <4>1 DEF Unfinished, Dormant, Reviewed, Complete
    <3> QED
      BY <3>1, <3>2
  <2> QED
    BY <2>1, <2>2, TurnKept
<1>11. /\ \A f \in Executors : pc'[f] # "idle" => pc[f] # "idle" /\ pick'[f] = pick[f]
       /\ \A f \in Executors : pc'[f] = "failing" /\ pick[f].step # s => pc[f] = "failing"
       /\ \A x \in Operators : seen'[x].step # 0 => seen'[x] = seen[x]
  BY <1>2, <1>8 DEF NoPick
<1> QED
  BY <1>1, <1>2, <1>4, <1>5, <1>6, <1>7, <1>9, <1>10, <1>11, WriteInv

LEMMA ActivateInv ==
  ASSUME IInv, NEW o \in Operators, NEW size \in ReviewSizes, Activate(o, size)
  PROVE  IInv'
<1> USE DEF IInv
<1> DEFINE s == seen[o].step
           r == ReleaseOf[o]
           q == [status |-> "pending", version |-> row[s].version + 1, task |-> VersionOf[r][s],
                 scanned |-> 0, limit |-> Limit[s], failures |-> 0,
                 rule |-> RuleOf[r][s], allowed |-> size]
<1>1. s \in Steps /\ row[s] \in Progress
  BY CurrentRow DEF Activate
<1>2. /\ row' = [row EXCEPT ![s] = q] /\ streak' = [streak EXCEPT ![s] = 0]
      /\ bound' = [bound EXCEPT ![s] = Unbounded] /\ waiting' = waiting \ {s}
      /\ seen' = [seen EXCEPT ![o] = NoPick] /\ s \in Manual /\ lock = NoOne
      /\ UNCHANGED <<migrated, lock, pc, pick, job, runner, saw, looks, faults, turns>>
  BY DEF Activate, LockIsFree
<1>3. q \in Progress /\ RowOK(s, q)
  <2>1. /\ VersionOf[r][s] \in Nat /\ RuleOf[r][s] \in Nat /\ RuleOf[r][s] # 0
        /\ size \in Nat /\ Rows[s] \in Nat /\ Limit[s] \in Nat /\ Limit[s] > 0
    BY <1>1, ReleaseTypes, DataTaskAssumption
  <2>2. row[s].version + 1 \in Nat
    BY <1>1 DEF Progress
  <2> HIDE DEF s, r
  <2>3. q \in Progress
    BY <2>1, <2>2 DEF Progress, Statuses
  <2> QED
    BY <1>2, <2>1, <2>3 DEF RowOK
<1>4. q.version = row[s].version + 1 /\ q.failures = 0 /\ q.status = "pending"
  OBVIOUS
<1>5. \A x \in Operators : seen'[x] = IF x = o THEN NoPick ELSE seen[x]
  BY <1>2 DEF TypeOK
<1> HIDE DEF s, q
<1>6. /\ streak' \in [Steps -> Nat] /\ streak'[s] = 0
      /\ \A t \in Steps : t # s => streak'[t] = streak[t]
  BY <1>1, <1>2 DEF TypeOK
<1>7. TypeOK'
  <2>1. row' \in [Steps -> Progress]
        /\ (\A t \in Steps : row[t].status # "absent" => row[t].limit > 0)'
    BY <1>1, <1>2, <1>3 DEF TypeOK, RowOK
  <2>2. seen' \in [Operators -> Picks] /\ bound' \in [Steps -> [task : Nat, limit : Nat]]
    BY <1>2, NoPickType DEF TypeOK, Unbounded
  <2> QED
    BY <1>2, <1>6, <2>1, <2>2 DEF TypeOK
<1>8. \A f \in Executors : pc'[f] # "picked"
  BY <1>2, DataTaskAssumption DEF LockInv
<1>9. Covers(streak'[s], q.failures) /\ q.status # "failed"
  BY <1>4, <1>6 DEF Covers
<1>10. /\ \A f \in Executors : pc'[f] # "idle" => pc[f] # "idle" /\ pick'[f] = pick[f]
       /\ \A f \in Executors : pc'[f] = "failing" /\ pick[f].step # s => pc[f] = "failing"
       /\ \A x \in Operators : seen'[x].step # 0 => seen'[x] = seen[x]
  BY <1>2, <1>5 DEF NoPick
<1> QED
  BY <1>1, <1>2, <1>3, <1>4, <1>6, <1>7, <1>8, <1>9, <1>10, WriteInv

-----------------------------------------------------------------------------
(* The reconciler. *)

LEMMA SeedInv ==
  ASSUME IInv, NEW e \in Executors, SeedAs(ReleaseOf[e]), saw' \in BOOLEAN,
         job' \in {"none", "queued", "running"},
         UNCHANGED <<waiting, migrated, lock, pc, pick, runner, seen, looks, faults, turns,
                     streak, bound>>
  PROVE  IInv'
<1> USE DEF IInv
<1> DEFINE r == ReleaseOf[e]
           new(s) == [Absent EXCEPT !.status = "pending", !.version = 1,
                                    !.task = VersionOf[r][s], !.limit = Limit[s]]
<1>1. \A s \in Steps :
          \/ row'[s] = row[s]
          \/ row[s].status = "absent" /\ row'[s] = new(s)
  <2>1. \A s \in Steps : row'[s] = Seeded(r, s, row[s])
    BY DEF SeedAs
  <2>2. \A s \in Steps :
          \/ Seeded(r, s, row[s]) = row[s]
          \/ row[s].status = "absent" /\ Seeded(r, s, row[s]) = new(s)
    BY DEF Seeded
  <2> HIDE DEF new
  <2> QED
    BY <2>1, <2>2
<1>2. ASSUME NEW s \in Steps
      PROVE  /\ new(s) \in Progress /\ new(s).version = 1 /\ new(s).failures = 0
             /\ new(s).status = "pending" /\ new(s).limit > 0 /\ new(s).rule = 0
             /\ new(s).scanned = 0
  <2>1. VersionOf[r][s] \in Nat /\ Limit[s] \in Nat /\ Limit[s] > 0
    BY ReleaseTypes, DataTaskAssumption
  <2> QED
    BY <2>1 DEF Absent, Progress, Statuses
<1> HIDE DEF new
<1>3. row \in [Steps -> Progress] /\ \A s \in Steps : RowOK(s, row[s]) /\ Rows[s] \in Nat
  BY DataTaskAssumption DEF TypeOK, RowInv
<1>4. row' \in [Steps -> Progress]
  <2>1. \A s \in Steps : row'[s] \in Progress
    BY <1>1, <1>2, <1>3
  <2> QED
    BY <2>1 DEF SeedAs
<1>5. \A s \in Steps : RowOK(s, row'[s])
  BY <1>1, <1>2, <1>3 DEF RowOK
<1>6. TypeOK'
  BY <1>4, <1>5 DEF TypeOK, RowOK
<1>7. RowMoves
  BY <1>1, <1>2, <1>3 DEF RowMoves, RowOK
<1>8. RowInv'
  BY <1>5 DEF RowInv, RowOK
<1>9. \A k \in Picks : Copies(k) => Copies(k)'
  BY <1>6, <1>7, CopiesKept
<1>10. PickInv'
  <2>1. \A f \in Executors : pc[f] # "idle" => pick[f] \in Picks /\ Copies(pick[f])
          /\ Pickable(ReleaseOf[f], pick[f].step, pick[f].row)
    BY DEF PickInv, TypeOK
  <2>2. \A f \in Executors : pc[f] # "idle" => Copies(pick[f])'
    BY <1>9, <2>1 DEF Copies
  <2> QED
    BY <2>1, <2>2 DEF PickInv, Pickable, Complete, Dormant, Reviewed, Copies
<1>11. SeenInv'
  <2>1. \A o \in Operators : seen[o].step # 0 => seen[o] \in Picks /\ Copies(seen[o])
          /\ seen[o].row.status # "absent"
    BY DEF SeenInv, TypeOK
  <2>2. \A o \in Operators : seen[o].step # 0 => Copies(seen[o])'
    BY <1>9, <2>1 DEF Copies
  <2> QED
    BY <2>1, <2>2 DEF SeenInv, Copies
<1>12. LockInv'
  BY DEF LockInv
<1>13. EarnedInv'
  <2>1. \A s \in Steps : Covers(streak[s], row'[s].failures)
    BY <1>1, <1>2 DEF EarnedInv, Covers, TypeOK
  <2>2. ASSUME NEW f \in Executors, pc[f] = "failing", Unmoved(f)'
        PROVE  Covers(streak[pick[f].step], row'[pick[f].step].failures + 1)
    <3>1. Copies(pick[f]) /\ Pickable(ReleaseOf[f], pick[f].step, pick[f].row)
      BY <2>2 DEF PickInv
    <3>2. /\ pick[f].step \in Steps /\ pick[f].row.status # "absent"
          /\ row[pick[f].step].version \in Nat /\ pick[f].row.version \in Nat
      BY <1>3, <3>1 DEF Copies, Pickable, TypeOK, Picks, Progress
    <3>3. row[pick[f].step].status # "absent"
      BY <1>3, <3>1, <3>2 DEF Copies, RowOK
    <3>4. row'[pick[f].step] = row[pick[f].step]
      BY <1>1, <3>2, <3>3
    <3> QED
      BY <2>2, <3>4 DEF EarnedInv, Unmoved
  <2>3. FailedIsEarned'
    BY <1>1, <1>2 DEF EarnedInv, FailedIsEarned
  <2>4. (\A s \in Steps : Covers(streak[s], row[s].failures))'
    BY <2>1 DEF Covers
  <2>5. (\A f \in Executors : pc[f] = "failing" /\ Unmoved(f) =>
            Covers(streak[pick[f].step], row[pick[f].step].failures + 1))'
    BY <2>2 DEF Covers
  <2> QED
    BY <2>3, <2>4, <2>5 DEF EarnedInv
<1>14. OrderInv'
  <2> SUFFICES ASSUME NEW f \in Executors, pc[f] = "picked"
               PROVE  InTurn(f)'
    BY DEF OrderInv
  <2>1. ASSUME NEW t \in Unfinished(ReleaseOf[f])'
        PROVE  t \in Unfinished(ReleaseOf[f])
    BY <1>1, <1>2, <2>1 DEF Unfinished, Dormant, Reviewed, Complete
  <2> QED
    BY <2>1, TurnKept DEF OrderInv
<1> QED
  BY <1>6, <1>8, <1>10, <1>11, <1>12, <1>13, <1>14

-----------------------------------------------------------------------------
LEMMA InitInv ==
  ASSUME Init
  PROVE  IInv
<1>1. Absent \in Progress /\ NoPick \in Picks /\ NoPick.step = 0
  BY NoPickType DEF Absent, Progress, Statuses, NoPick
<1>2. TypeOK
  BY <1>1 DEF Init, TypeOK, Absent, Unbounded
<1>3. \A s \in Steps : RowOK(s, Absent)
  BY DataTaskAssumption DEF RowOK, Absent
<1>4. RowInv /\ PickInv /\ SeenInv /\ LockInv
  BY <1>1, <1>3 DEF Init, RowInv, PickInv, SeenInv, LockInv
<1>5. EarnedInv /\ OrderInv
  BY DEF Init, EarnedInv, Covers, FailedIsEarned, OrderInv, Absent
<1> QED
  BY <1>2, <1>4, <1>5 DEF IInv

LEMMA Inductive ==
  ASSUME IInv, [Next]_vars
  PROVE  IInv'
<1>1. CASE UNCHANGED vars
  BY <1>1, StutterInv
<1>2. ASSUME NEW e \in Executors, Execute(e)
      PROVE  IInv'
  <2>1. CASE \E s \in Steps : Begin(e, s)
    BY <2>1, BeginInv
  <2>2. CASE \E slow \in BOOLEAN : Fail(e, slow)
    BY <2>2, FailInv
  <2>3. CASE Moved(e) \/ GiveUp(e) \/ Crash(e)
    BY <2>3, MovedInv
  <2>4. CASE Commit(e) \/ CommitUnheard(e)
    BY <2>4, CommitInv
  <2>5. CASE Record(e)
    BY <2>5, RecordInv
  <2> QED
    BY <1>2, <2>1, <2>2, <2>3, <2>4, <2>5 DEF Execute
<1>3. ASSUME NEW e \in Shells, Seed(e)
      PROVE  IInv'
  BY <1>3, SeedInv DEF Seed, Executors, IInv, TypeOK
<1>4. ASSUME NEW w \in Workers, Reconcile(w)
      PROVE  IInv'
  BY <1>4, SeedInv DEF Reconcile, Executors, IInv, TypeOK
<1>5. ASSUME NEW o \in Operators, Operate(o)
      PROVE  IInv'
  BY <1>5, LookInv, ControlInv, ActivateInv DEF Operate
<1> QED
  BY <1>1, <1>2, <1>3, <1>4, <1>5, PassiveInv DEF Next

\* The inductive invariant holds throughout: what the ledger, the executors and
\* the screens know of one another survives every step of either.
THEOREM Invariance == Spec => []IInv
<1>1. Init => IInv
  BY InitInv
<1>2. IInv /\ [Next]_vars => IInv'
  BY Inductive
<1> QED
  BY <1>1, <1>2, PTL DEF Spec

\* The ledger, the executors, the job and the screens keep their types, and no
\* row is ever stored with a batch limit its table would refuse (ledger.go:20).
THEOREM TypeCorrect == Spec => []TypeOK
  BY Invariance, PTL DEF IInv

\* A step is failed only by failureCap failures in a row, whatever failure was
\* recorded late or after a commit whose answer was lost (failure.go:20).
THEOREM FailureIsEarned == Spec => []FailedIsEarned
  BY Invariance, PTL DEF IInv, EarnedInv

\* A reviewed run stays within its review, and an unreviewed step is not begun
\* (execute.go:80).
THEOREM ReviewBounds == Spec => []WithinReview
<1>1. IInv => WithinReview
  <2> SUFFICES ASSUME IInv, NEW s \in Manual
               PROVE  row[s].scanned <= row[s].allowed
    BY DEF WithinReview
  <2>1. s \in Steps /\ row[s] \in Progress /\ RowOK(s, row[s])
    BY DataTaskAssumption DEF IInv, TypeOK, RowInv
  <2> QED
    BY <2>1 DEF RowOK, Progress
<1> QED
  BY <1>1, Invariance, PTL

\* A batch is committed only in the catalog's order (order.go:21).
THEOREM OrderKept == Spec => InOrder
<1>1. IInv => \A e \in Executors : Progresses(e) =>
                 \A t \in Unfinished(ReleaseOf[e]) :
                    pick[e].step <= t \/ Restarting(ReleaseOf[e], t)
  BY DEF IInv, OrderInv, InTurn, Progresses
<1> QED
  BY <1>1, Invariance, PTL DEF InOrder

\* An executor that writes had picked the row as it is.
LEMMA WritersPick ==
  ASSUME IInv, NEW e \in Executors, pc[e] # "idle", Unmoved(e)
  PROVE  /\ pick[e].step \in Steps /\ pick[e].row = row[pick[e].step]
         /\ row[pick[e].step] \in Progress /\ RowOK(pick[e].step, row[pick[e].step])
         /\ Pickable(ReleaseOf[e], pick[e].step, row[pick[e].step])
         /\ pick[e].slow \in BOOLEAN
  BY DEF IInv, PickInv, Copies, Unmoved, TypeOK, RowInv, Picks

\* Who writes a row, and what it does to a row that is held.
Taken(s) == row[s].status \in {"absent", "pending", "running", "done"} /\ row'[s].task >= row[s].task

Steered(s) == /\ row'[s].status \in {row[s].status, "pending", "paused"}
              /\ row'[s].status = "paused" => row[s].status # "failed"
              /\ row'[s].scanned = row[s].scanned /\ row'[s].task >= row[s].task

Restarted(s) == /\ row'[s].status = "pending" /\ row'[s].task >= row[s].task
                /\ row'[s].scanned = 0 /\ row'[s].rule # 0

LEMMA Writes ==
  ASSUME IInv, [Next]_vars, NEW s \in Steps
  PROVE  row'[s] = row[s] \/ Taken(s) \/ Steered(s) \/ Restarted(s)
<1> USE DEF IInv
<1>0. row \in [Steps -> Progress] /\ row[s] \in Progress /\ row[s].task \in Nat
  BY DEF TypeOK, Progress
<1>1. ASSUME NEW e \in Executors, Progresses(e)
      PROVE  row'[s] = row[s] \/ Taken(s)
  <2> DEFINE t == pick[e].step
  <2>1. /\ t \in Steps /\ pick[e].row = row[t] /\ row[t] \in Progress /\ RowOK(t, row[t])
        /\ Pickable(ReleaseOf[e], t, row[t]) /\ ReleaseOf[e] \in Releases
    BY <1>1, WritersPick, ReleaseTypes DEF Progresses
  <2>2. row' = [row EXCEPT ![t] = Advanced(ReleaseOf[e], t, row[t])]
    BY <1>1, <2>1 DEF Progresses
  <2>3. Advanced(ReleaseOf[e], t, row[t]).task >= row[t].task
    BY <2>1, AdvancedOK
  <2> HIDE DEF t
  <2> QED
    BY <1>0, <2>1, <2>2, <2>3 DEF Taken, Pickable
<1>2. ASSUME NEW e \in Executors, Record(e)
      PROVE  row'[s] = row[s] \/ Taken(s)
  <2> DEFINE t == pick[e].step
  <2>1. CASE ~Unmoved(e)
    BY <1>2, <2>1 DEF Record
  <2>2. CASE Unmoved(e)
    <3>1. /\ t \in Steps /\ pick[e].row = row[t] /\ row[t] \in Progress /\ RowOK(t, row[t])
          /\ Pickable(ReleaseOf[e], t, row[t]) /\ pick[e].slow \in BOOLEAN
      BY <1>2, <2>2, WritersPick DEF Record
    <3>2. row' = [row EXCEPT ![t] = Faulted(t, row[t], pick[e].slow)]
      BY <1>2, <2>2, <3>1 DEF Record
    <3>3. row[t].status # "absent"
      BY <3>1 DEF Pickable
    <3>4. Faulted(t, row[t], pick[e].slow).task = row[t].task
      BY <3>1, <3>3, FaultedOK
    <3> HIDE DEF t
    <3> QED
      BY <1>0, <3>1, <3>2, <3>4 DEF Taken, Pickable
  <2> QED
    BY <2>1, <2>2
<1>3. ASSUME NEW e \in Executors, SeedAs(ReleaseOf[e])
      PROVE  row'[s] = row[s] \/ Taken(s)
  <2>1. row'[s] = Seeded(ReleaseOf[e], s, row[s])
    BY <1>3 DEF SeedAs
  <2>2. CASE row[s].status = "absent" /\ VersionOf[ReleaseOf[e]][s] > 0
    <3>1. row'[s] = [Absent EXCEPT !.status = "pending", !.version = 1,
                                   !.task = VersionOf[ReleaseOf[e]][s], !.limit = Limit[s]]
      BY <2>1, <2>2 DEF Seeded
    <3>2. row'[s].task = VersionOf[ReleaseOf[e]][s]
      BY <3>1 DEF Absent
    <3>3. CASE row[s].task <= VersionOf[ReleaseOf[e]][s]
      BY <1>0, <2>2, <3>2, <3>3, ReleaseTypes DEF Taken
    <3>4. CASE row[s].task > VersionOf[ReleaseOf[e]][s]
      <4>1. row[s].task = 0
        BY <2>2 DEF RowInv, RowOK
      <4> QED
        BY <1>0, <2>2, <3>4, <4>1, ReleaseTypes
    <3> QED
      BY <1>0, <3>3, <3>4, ReleaseTypes
  <2>3. CASE ~(row[s].status = "absent" /\ VersionOf[ReleaseOf[e]][s] > 0)
    BY <2>1, <2>3 DEF Seeded
  <2> QED
    BY <2>2, <2>3
<1>4. ASSUME NEW o \in Operators, NEW action \in {"pause", "resume", "retry", "estimate"},
             Control(o, action)
      PROVE  row'[s] = row[s] \/ Steered(s)
  <2>1. row' = [row EXCEPT ![seen[o].step] = Controlled(row[seen[o].step], action)]
    BY <1>4 DEF Control
  <2>2. CASE s # seen[o].step
    BY <1>0, <2>1, <2>2
  <2>3. CASE s = seen[o].step
    <3>1. /\ row'[s] = Controlled(row[s], action)
          /\ Allows(row[s], action) \/ action = "estimate"
      BY <1>0, <1>4, <2>1, <2>3 DEF Control
    <3>2. /\ row'[s].task = row[s].task /\ row'[s].scanned = row[s].scanned
          /\ row'[s].status = CASE action = "pause" -> "paused"
                                [] action = "estimate" -> row[s].status
                                [] OTHER -> "pending"
      BY <1>0, <3>1 DEF Controlled, Progress
    <3>3. action = "pause" => row[s].status # "failed"
      BY <3>1 DEF Allows
    <3> QED
      BY <1>0, <3>2, <3>3 DEF Steered
  <2> QED
    BY <2>2, <2>3
<1>5. ASSUME NEW o \in Operators, NEW size \in ReviewSizes, Activate(o, size)
      PROVE  row'[s] = row[s] \/ Restarted(s)
  <2> DEFINE t == seen[o].step
  <2>1. row' = [row EXCEPT ![t] =
            [status |-> "pending", version |-> row[t].version + 1, task |-> VersionOf[ReleaseOf[o]][t],
             scanned |-> 0, limit |-> Limit[t], failures |-> 0,
             rule |-> RuleOf[ReleaseOf[o]][t], allowed |-> size]]
        /\ row[t].task <= VersionOf[ReleaseOf[o]][t]
    BY <1>5 DEF Activate, Current
  <2>2. CASE s # t
    BY <1>0, <2>1, <2>2
  <2>3. CASE s = t
    <3>1. RuleOf[ReleaseOf[o]][s] # 0 /\ VersionOf[ReleaseOf[o]][s] \in Nat
      BY ReleaseTypes
    <3> HIDE DEF t
    <3> QED
      BY <1>0, <2>1, <2>3, <3>1 DEF Restarted
  <2> QED
    BY <2>2, <2>3
<1>6. CASE UNCHANGED row
  BY <1>6
<1>7. ASSUME NEW e \in Executors, Execute(e)
      PROVE  row'[s] = row[s] \/ Taken(s)
  BY <1>1, <1>2, <1>7 DEF Execute, Begin, Moved, Commit, CommitUnheard, Fail, GiveUp, Crash
<1>8. ASSUME NEW o \in Operators, Operate(o)
      PROVE  row'[s] = row[s] \/ Steered(s) \/ Restarted(s)
  BY <1>4, <1>5, <1>8 DEF Operate, Look
<1> QED
  BY <1>3, <1>6, <1>7, <1>8
     DEF Next, vars, Seed, StandDown, Reconcile, Enqueue, Elapse, Migrate, Executors

\* A held step is moved by an operator and by nobody else (control.go:67,
\* failure.go:46).
THEOREM HeldIsKept == Spec => HeldStays
<1>1. IInv /\ [Next]_vars =>
        [\A s \in Steps :
           row[s].status \in {"paused", "failed"} =>
              /\ row'[s].status \in {row[s].status, "pending"}
              /\ row'[s].scanned = row[s].scanned \/ (row'[s].scanned = 0 /\ row'[s].rule # 0)]_vars
  <2> SUFFICES ASSUME IInv, [Next]_vars, NEW s \in Steps,
                      row[s].status \in {"paused", "failed"}
               PROVE  /\ row'[s].status \in {row[s].status, "pending"}
                      /\ row'[s].scanned = row[s].scanned \/ (row'[s].scanned = 0 /\ row'[s].rule # 0)
    OBVIOUS
  <2> QED
    BY Writes DEF Taken, Steered, Restarted
<1> QED
  BY <1>1, Invariance, PTL DEF Spec, HeldStays

\* No release undoes what a newer one has begun (order.go:35).
THEOREM NewerReleaseKept == Spec => NewerReleaseStands
<1> DEFINE Act == \A s \in Steps :
         /\ row'[s].task >= row[s].task
         /\ \A e \in Executors :
               /\ row'[s] # row[s] /\ pick[e].step = s
               /\ pc[e] # "idle" /\ pc'[e] # pc[e]
               => VersionOf[ReleaseOf[e]][s] >= row[s].task
<1>1. ASSUME IInv, [Next]_vars
      PROVE  Act
  <2> SUFFICES ASSUME NEW s \in Steps
               PROVE  /\ row'[s].task >= row[s].task
                      /\ \A e \in Executors :
                            /\ row'[s] # row[s] /\ pick[e].step = s
                            /\ pc[e] # "idle" /\ pc'[e] # pc[e]
                            => VersionOf[ReleaseOf[e]][s] >= row[s].task
    OBVIOUS
  <2>1. row[s].task \in Nat
    BY <1>1 DEF IInv, TypeOK, Progress
  <2>2. row'[s].task >= row[s].task
    BY <1>1, <2>1, Writes DEF Taken, Steered, Restarted
  <2>3. ASSUME NEW e \in Executors, row'[s] # row[s], pick[e].step = s,
               pc[e] # "idle", pc'[e] # pc[e]
        PROVE  VersionOf[ReleaseOf[e]][s] >= row[s].task
    <3>1. PICK f \in Executors : Execute(f)
      BY <1>1, <2>3 DEF Next, vars, Seed, StandDown, Reconcile, Enqueue, Operate, Look, Control,
                        Activate, Elapse, Migrate
    <3>2. f = e
      BY <1>1, <2>3, <3>1 DEF IInv, TypeOK, Execute, Begin, Moved, Commit, CommitUnheard, Fail,
                              Record, GiveUp, Crash, Rest
    <3>3. Unmoved(e)
      BY <2>3, <3>1, <3>2 DEF Execute, Begin, Moved, Commit, CommitUnheard, Progresses, Fail,
                              Record, GiveUp, Crash
    <3> QED
      BY <1>1, <2>1, <2>3, <3>3, WritersPick, ReleaseTypes DEF Pickable
  <2> QED
    BY <2>2, <2>3
<1>2. IInv /\ [Next]_vars => [Act]_vars
  BY <1>1
<1> QED
  BY <1>2, Invariance, PTL DEF Spec, NewerReleaseStands

\* A control and an activation act on the row that was on the screen
\* (control.go:53).
THEOREM ControlsAreCurrent == Spec => ActsOnWhatWasSeen
<1> DEFINE Act == \A o \in Operators :
                    seen[o].step # 0 /\ seen'[o] = NoPick => row[seen[o].step] = seen[o].row
<1>1. ASSUME IInv, [Next]_vars
      PROVE  Act
  <2> SUFFICES ASSUME NEW o \in Operators, seen[o].step # 0, seen'[o] = NoPick
               PROVE  row[seen[o].step] = seen[o].row
    OBVIOUS
  <2>1. NoPick.step = 0 /\ seen'[o] # seen[o]
    BY DEF NoPick
  <2>2. PICK x \in Operators : Operate(x)
    BY <1>1, <2>1 DEF Next, vars, Execute, Begin, Moved, Commit, CommitUnheard, Fail, Record,
                      GiveUp, Crash, Seed, StandDown, Reconcile, Enqueue, Elapse, Migrate
  <2>3. seen \in [Operators -> Picks]
    BY <1>1 DEF IInv, TypeOK
  <2>4. ASSUME NEW s \in Steps, Look(x, s)
        PROVE  FALSE
    <3>1. seen' = [seen EXCEPT ![x] = [step |-> s, row |-> row[s], slow |-> FALSE]] /\ s # 0
      BY <2>4, StepsAreNat DEF Look
    <3> QED
      BY <2>1, <2>3, <3>1
  <2>5. x = o /\ Current(x)
    BY <2>1, <2>2, <2>3, <2>4 DEF Operate, Control, Activate
  <2> QED
    BY <1>1, <2>5, CurrentRow
<1>2. IInv /\ [Next]_vars => [Act]_vars
  BY <1>1
<1> QED
  BY <1>2, Invariance, PTL DEF Spec, ActsOnWhatWasSeen
=============================================================================
