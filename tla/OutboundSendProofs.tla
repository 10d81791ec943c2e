------------------------- MODULE OutboundSendProofs -------------------------
(***************************************************************************)
(* What holds of a send for every ladder length, every set of faults on    *)
(* this side of the wire and every answer of the provider.  The argument   *)
(* is one inductive invariant: types, the count of calls against the       *)
(* count on the row, the trace a copy leaves, and the metering.            *)
(***************************************************************************)
EXTENDS OutboundSend, TLAPS

\* The attempt is loaded and has not been to the wire.
PreWire == {"gates", "pacing", "recheck", "guard", "wire", "defer"}

\* The calls made so far, this attempt's own not among them, fall short of what
\* the row counts; and the last rung is turned away before the wire.
CallInv ==
    /\ provider.copies <= provider.calls
    /\ provider.calls <= row.attempts
    /\ provider.calls < MaxAttempts
    /\ att.pc \in PreWire => provider.calls < att.n /\ att.n = row.attempts
    /\ att.pc \in {"recheck", "guard", "wire"} => att.n < MaxAttempts

\* A transport that cannot look back and admits to a lost answer: while the
\* marker is off an open row there is no copy, and the attempt knows it.
TraceInv ==
    /\ provider.copies > 0 => row.status = "sent" \/ row.inflight
    /\ att.pc \in {"gates", "pacing", "recheck", "guard"} /\ Pending => att.marked = row.inflight
    /\ att.pc = "wire" => row.inflight /\ provider.copies = 0
    /\ att.pc = "record" => row.inflight
    /\ att.pc = "parksent" => row.inflight \/ row.status = "sent"
    /\ att.pc = "classify" /\ att.err # "unknown" => provider.copies = 0

MeterInv == metered <= 1 /\ (metered = 1 => row.status = "sent")

\* An attempt that is being classified has been answered.
ClassifyInv == att.pc = "classify" => att.err # "none"

IInv ==
    /\ TypeOK
    /\ ClassifyInv
    /\ CallInv
    /\ MeterInv
    /\ row.shape = "channel" => TraceInv
    /\ AtMostOnce

-----------------------------------------------------------------------------
LEMMA InitInv == Init => IInv
<1> SUFFICES ASSUME Init PROVE IInv
  OBVIOUS
<1> USE SendAssumption DEF Init, NoAttempt, Pending
<1>1. TypeOK
  <2>1. row \in Rows
    <3>1. PICK s \in Shapes, f \in {{}, Faults} :
             row = [shape |-> s, status |-> "none", attempts |-> 0, inflight |-> FALSE,
                    faults |-> f]
      OBVIOUS
    <3> QED
      BY <3>1 DEF Rows
  <2>2. job \in Jobs /\ att \in Attempts
    BY DEF Jobs, Attempts, Answers
  <2>3. row.status = "none"
    OBVIOUS
  <2> QED
    BY <2>1, <2>2, <2>3 DEF TypeOK
<1>2. CallInv
  BY DEF CallInv, PreWire
<1>3. MeterInv /\ TraceInv /\ AtMostOnce /\ ClassifyInv
  BY DEF ClassifyInv, MeterInv, TraceInv, AtMostOnce
<1> QED
  BY <1>1, <1>2, <1>3 DEF IInv

\* Where an attempt can go, and what it carries there.
LEMMA AttemptMoves ==
  ASSUME TypeOK
  PROVE  /\ \A pc \in Steps \cup Verdicts : [att EXCEPT !.pc = pc] \in Attempts
         /\ \A err \in Answers : [att EXCEPT !.pc = "classify", !.err = err] \in Attempts
         /\ \A n \in Nat, b \in BOOLEAN :
               [att EXCEPT !.pc = "gates", !.n = n, !.marked = b] \in Attempts
  BY DEF TypeOK, Attempts, Steps

LEMMA StageStep ==
  ASSUME IInv, Stage
  PROVE  IInv'
<1> USE SendAssumption DEF IInv, Stage, Pending, At, Goto, GivesUp
<1>1. TypeOK'
  <2>1. row' \in Rows
    BY DEF TypeOK, Rows
  <2>2. job' \in Jobs
    BY DEF TypeOK, Jobs
  <2>3. att' \in Attempts
    BY DEF TypeOK, Attempts, Rows, Steps, Verdicts, Answers
  <2>4. /\ provider' \in [calls : Nat, copies : Nat] /\ metered' \in Nat /\ old' \in BOOLEAN
    BY DEF TypeOK
  <2>5. row'.status = "none" <=> job'.state = "none"
    BY DEF TypeOK, Rows, Jobs
  <2>6. att'.pc # "idle" => job'.state = "running"
    BY DEF TypeOK, Jobs, Attempts, Verdicts
  <2>7. job'.state = "running" => job'.attempt > 0
    BY DEF TypeOK, Jobs
  <2> QED
    BY <2>1, <2>2, <2>3, <2>4, <2>5, <2>6, <2>7 DEF TypeOK
<1>2. CallInv'
  BY DEF TypeOK, Rows, Jobs, Attempts, CallInv, PreWire, Steps, Verdicts
<1>3. MeterInv'
  BY DEF TypeOK, Rows, Attempts, MeterInv
<1>7. row'.shape = row.shape
  BY DEF TypeOK, Rows
<1>4. row.shape = "channel" => TraceInv'
  BY DEF TypeOK, Rows, Attempts, TraceInv, CallInv, Verdicts
<1>5. AtMostOnce'
  BY <1>7 DEF TypeOK, Rows, Attempts, CanTell, AtMostOnce, TraceInv, CallInv, PreWire
<1>6. ClassifyInv'
  BY DEF TypeOK, Attempts, ClassifyInv, Verdicts
<1> QED
  BY <1>1, <1>2, <1>3, <1>4, <1>5, <1>6, <1>7

LEMMA StartStep ==
  ASSUME IInv, Start
  PROVE  IInv'
<1> USE SendAssumption DEF IInv, Start, NoAttempt, Pending, At, Goto, GivesUp
<1>1. TypeOK'
  <2>1. row' \in Rows
    BY DEF TypeOK, Rows
  <2>2. job' \in Jobs
    BY DEF TypeOK, Jobs
  <2>3. att' \in Attempts
    BY DEF TypeOK, Attempts, Rows, Steps, Verdicts, Answers
  <2>4. /\ provider' \in [calls : Nat, copies : Nat] /\ metered' \in Nat /\ old' \in BOOLEAN
    BY DEF TypeOK
  <2>5. row'.status = "none" <=> job'.state = "none"
    BY DEF TypeOK, Rows, Jobs
  <2>6. att'.pc # "idle" => job'.state = "running"
    BY DEF TypeOK, Jobs, Attempts, Verdicts
  <2>7. job'.state = "running" => job'.attempt > 0
    BY DEF TypeOK, Jobs
  <2> QED
    BY <2>1, <2>2, <2>3, <2>4, <2>5, <2>6, <2>7 DEF TypeOK
<1>2. CallInv'
  BY DEF TypeOK, Rows, Jobs, Attempts, CallInv, PreWire, Steps, Verdicts
<1>3. MeterInv'
  BY DEF TypeOK, Rows, Attempts, MeterInv
<1>7. row'.shape = row.shape
  BY DEF TypeOK, Rows
<1>4. row.shape = "channel" => TraceInv'
  BY DEF TypeOK, Rows, Attempts, TraceInv, CallInv, Verdicts
<1>5. AtMostOnce'
  BY <1>7 DEF TypeOK, Rows, Attempts, CanTell, AtMostOnce, TraceInv, CallInv, PreWire
<1>6. ClassifyInv'
  BY DEF TypeOK, Attempts, ClassifyInv, Verdicts
<1> QED
  BY <1>1, <1>2, <1>3, <1>4, <1>5, <1>6, <1>7

LEMMA FinishStep ==
  ASSUME IInv, Finish
  PROVE  IInv'
<1> USE SendAssumption DEF IInv, Finish, NextRung, NoAttempt, Verdicts, Pending, At, Goto, GivesUp
<1>1. TypeOK'
  <2>1. row' \in Rows
    BY DEF TypeOK, Rows
  <2>2. job' \in Jobs
    <3>1. CASE att.pc = "done"
      BY <3>1 DEF TypeOK, Jobs, Attempts
    <3>2. CASE att.pc = "retry"
      BY <3>2 DEF TypeOK, Jobs, Attempts
    <3>3. CASE att.pc = "snooze"
      BY <3>3 DEF TypeOK, Jobs, Attempts
    <3> QED
      BY <3>1, <3>2, <3>3
  <2>3. att' \in Attempts
    BY DEF TypeOK, Attempts, Rows, Steps, Verdicts, Answers
  <2>4. /\ provider' \in [calls : Nat, copies : Nat] /\ metered' \in Nat /\ old' \in BOOLEAN
    BY DEF TypeOK
  <2>5. row'.status = "none" <=> job'.state = "none"
    BY DEF TypeOK, Rows, Jobs
  <2>6. att'.pc # "idle" => job'.state = "running"
    BY DEF TypeOK, Jobs, Attempts, Verdicts
  <2>7. job'.state = "running" => job'.attempt > 0
    BY DEF TypeOK, Jobs
  <2> QED
    BY <2>1, <2>2, <2>3, <2>4, <2>5, <2>6, <2>7 DEF TypeOK
<1>2. CallInv'
  BY DEF TypeOK, Rows, Jobs, Attempts, CallInv, PreWire, Steps, Verdicts
<1>3. MeterInv'
  BY DEF TypeOK, Rows, Attempts, MeterInv
<1>7. row'.shape = row.shape
  BY DEF TypeOK, Rows
<1>4. row.shape = "channel" => TraceInv'
  BY DEF TypeOK, Rows, Attempts, TraceInv, CallInv, Verdicts
<1>5. AtMostOnce'
  BY <1>7 DEF TypeOK, Rows, Attempts, CanTell, AtMostOnce, TraceInv, CallInv, PreWire
<1>6. ClassifyInv'
  BY DEF TypeOK, Attempts, ClassifyInv, Verdicts
<1> QED
  BY <1>1, <1>2, <1>3, <1>4, <1>5, <1>6, <1>7

LEMMA CrashStep ==
  ASSUME IInv, Crash
  PROVE  IInv'
<1> USE SendAssumption DEF IInv, Crash, NoAttempt, Pending, At, Goto, GivesUp
<1>1. TypeOK'
  <2>1. row' \in Rows
    BY DEF TypeOK, Rows
  <2>2. job' \in Jobs
    BY DEF TypeOK, Jobs
  <2>3. att' \in Attempts
    BY DEF TypeOK, Attempts, Rows, Steps, Verdicts, Answers
  <2>4. /\ provider' \in [calls : Nat, copies : Nat] /\ metered' \in Nat /\ old' \in BOOLEAN
    BY DEF TypeOK
  <2>5. row'.status = "none" <=> job'.state = "none"
    BY DEF TypeOK, Rows, Jobs
  <2>6. att'.pc # "idle" => job'.state = "running"
    BY DEF TypeOK, Jobs, Attempts, Verdicts
  <2>7. job'.state = "running" => job'.attempt > 0
    BY DEF TypeOK, Jobs
  <2> QED
    BY <2>1, <2>2, <2>3, <2>4, <2>5, <2>6, <2>7 DEF TypeOK
<1>2. CallInv'
  BY DEF TypeOK, Rows, Jobs, Attempts, CallInv, PreWire, Steps, Verdicts
<1>3. MeterInv'
  BY DEF TypeOK, Rows, Attempts, MeterInv
<1>7. row'.shape = row.shape
  BY DEF TypeOK, Rows
<1>4. row.shape = "channel" => TraceInv'
  BY DEF TypeOK, Rows, Attempts, TraceInv, CallInv, Verdicts
<1>5. AtMostOnce'
  BY <1>7 DEF TypeOK, Rows, Attempts, CanTell, AtMostOnce, TraceInv, CallInv, PreWire
<1>6. ClassifyInv'
  BY DEF TypeOK, Attempts, ClassifyInv, Verdicts
<1> QED
  BY <1>1, <1>2, <1>3, <1>4, <1>5, <1>6, <1>7

LEMMA RescueStep ==
  ASSUME IInv, Rescue
  PROVE  IInv'
<1> USE SendAssumption DEF IInv, Rescue, NextRung, Pending, At, Goto, GivesUp
<1>1. TypeOK'
  <2>1. row' \in Rows
    BY DEF TypeOK, Rows
  <2>2. job' \in Jobs
    BY DEF TypeOK, Jobs
  <2>3. att' \in Attempts
    BY DEF TypeOK, Attempts, Rows, Steps, Verdicts, Answers
  <2>4. /\ provider' \in [calls : Nat, copies : Nat] /\ metered' \in Nat /\ old' \in BOOLEAN
    BY DEF TypeOK
  <2>5. row'.status = "none" <=> job'.state = "none"
    BY DEF TypeOK, Rows, Jobs
  <2>6. att'.pc # "idle" => job'.state = "running"
    BY DEF TypeOK, Jobs, Attempts, Verdicts
  <2>7. job'.state = "running" => job'.attempt > 0
    BY DEF TypeOK, Jobs
  <2> QED
    BY <2>1, <2>2, <2>3, <2>4, <2>5, <2>6, <2>7 DEF TypeOK
<1>2. CallInv'
  BY DEF TypeOK, Rows, Jobs, Attempts, CallInv, PreWire, Steps, Verdicts
<1>3. MeterInv'
  BY DEF TypeOK, Rows, Attempts, MeterInv
<1>7. row'.shape = row.shape
  BY DEF TypeOK, Rows
<1>4. row.shape = "channel" => TraceInv'
  BY DEF TypeOK, Rows, Attempts, TraceInv, CallInv, Verdicts
<1>5. AtMostOnce'
  BY <1>7 DEF TypeOK, Rows, Attempts, CanTell, AtMostOnce, TraceInv, CallInv, PreWire
<1>6. ClassifyInv'
  BY DEF TypeOK, Attempts, ClassifyInv, Verdicts
<1> QED
  BY <1>1, <1>2, <1>3, <1>4, <1>5, <1>6, <1>7

LEMMA ScrubStep ==
  ASSUME IInv, Scrub
  PROVE  IInv'
<1> USE SendAssumption DEF IInv, Scrub, Pending, At, Goto, GivesUp
<1>1. TypeOK'
  <2>1. row' \in Rows
    BY DEF TypeOK, Rows
  <2>2. job' \in Jobs
    BY DEF TypeOK, Jobs
  <2>3. att' \in Attempts
    BY DEF TypeOK, Attempts, Rows, Steps, Verdicts, Answers
  <2>4. /\ provider' \in [calls : Nat, copies : Nat] /\ metered' \in Nat /\ old' \in BOOLEAN
    BY DEF TypeOK
  <2>5. row'.status = "none" <=> job'.state = "none"
    BY DEF TypeOK, Rows, Jobs
  <2>6. att'.pc # "idle" => job'.state = "running"
    BY DEF TypeOK, Jobs, Attempts, Verdicts
  <2>7. job'.state = "running" => job'.attempt > 0
    BY DEF TypeOK, Jobs
  <2> QED
    BY <2>1, <2>2, <2>3, <2>4, <2>5, <2>6, <2>7 DEF TypeOK
<1>2. CallInv'
  BY DEF TypeOK, Rows, Jobs, Attempts, CallInv, PreWire, Steps, Verdicts
<1>3. MeterInv'
  BY DEF TypeOK, Rows, Attempts, MeterInv
<1>7. row'.shape = row.shape
  BY DEF TypeOK, Rows
<1>4. row.shape = "channel" => TraceInv'
  BY DEF TypeOK, Rows, Attempts, TraceInv, CallInv, Verdicts
<1>5. AtMostOnce'
  BY <1>7 DEF TypeOK, Rows, Attempts, CanTell, AtMostOnce, TraceInv, CallInv, PreWire
<1>6. ClassifyInv'
  BY DEF TypeOK, Attempts, ClassifyInv, Verdicts
<1> QED
  BY <1>1, <1>2, <1>3, <1>4, <1>5, <1>6, <1>7

LEMMA GrowOldStep ==
  ASSUME IInv, GrowOld
  PROVE  IInv'
<1> USE SendAssumption DEF IInv, GrowOld, Pending, At, Goto, GivesUp
<1>1. TypeOK'
  <2>1. row' \in Rows
    BY DEF TypeOK, Rows
  <2>2. job' \in Jobs
    BY DEF TypeOK, Jobs
  <2>3. att' \in Attempts
    BY DEF TypeOK, Attempts, Rows, Steps, Verdicts, Answers
  <2>4. /\ provider' \in [calls : Nat, copies : Nat] /\ metered' \in Nat /\ old' \in BOOLEAN
    BY DEF TypeOK
  <2>5. row'.status = "none" <=> job'.state = "none"
    BY DEF TypeOK, Rows, Jobs
  <2>6. att'.pc # "idle" => job'.state = "running"
    BY DEF TypeOK, Jobs, Attempts, Verdicts
  <2>7. job'.state = "running" => job'.attempt > 0
    BY DEF TypeOK, Jobs
  <2> QED
    BY <2>1, <2>2, <2>3, <2>4, <2>5, <2>6, <2>7 DEF TypeOK
<1>2. CallInv'
  BY DEF TypeOK, Rows, Jobs, Attempts, CallInv, PreWire, Steps, Verdicts
<1>3. MeterInv'
  BY DEF TypeOK, Rows, Attempts, MeterInv
<1>7. row'.shape = row.shape
  BY DEF TypeOK, Rows
<1>4. row.shape = "channel" => TraceInv'
  BY DEF TypeOK, Rows, Attempts, TraceInv, CallInv, Verdicts
<1>5. AtMostOnce'
  BY <1>7 DEF TypeOK, Rows, Attempts, CanTell, AtMostOnce, TraceInv, CallInv, PreWire
<1>6. ClassifyInv'
  BY DEF TypeOK, Attempts, ClassifyInv, Verdicts
<1> QED
  BY <1>1, <1>2, <1>3, <1>4, <1>5, <1>6, <1>7

LEMMA ReadPaceStep ==
  ASSUME IInv, ReadPace
  PROVE  IInv'
<1> USE SendAssumption DEF IInv, ReadPace, Pending, At, Goto, GivesUp
<1>1. TypeOK'
  <2>1. row' \in Rows
    BY DEF TypeOK, Rows
  <2>2. job' \in Jobs
    BY DEF TypeOK, Jobs
  <2>3. att' \in Attempts
    BY DEF TypeOK, Attempts, Rows, Steps, Verdicts, Answers
  <2>4. /\ provider' \in [calls : Nat, copies : Nat] /\ metered' \in Nat /\ old' \in BOOLEAN
    BY DEF TypeOK
  <2>5. row'.status = "none" <=> job'.state = "none"
    BY DEF TypeOK, Rows, Jobs
  <2>6. att'.pc # "idle" => job'.state = "running"
    BY DEF TypeOK, Jobs, Attempts, Verdicts
  <2>7. job'.state = "running" => job'.attempt > 0
    BY DEF TypeOK, Jobs
  <2> QED
    BY <2>1, <2>2, <2>3, <2>4, <2>5, <2>6, <2>7 DEF TypeOK
<1>2. CallInv'
  BY DEF TypeOK, Rows, Jobs, Attempts, CallInv, PreWire, Steps, Verdicts
<1>3. MeterInv'
  BY DEF TypeOK, Rows, Attempts, MeterInv
<1>7. row'.shape = row.shape
  BY DEF TypeOK, Rows
<1>4. row.shape = "channel" => TraceInv'
  BY DEF TypeOK, Rows, Attempts, TraceInv, CallInv, Verdicts
<1>5. AtMostOnce'
  BY <1>7 DEF TypeOK, Rows, Attempts, CanTell, AtMostOnce, TraceInv, CallInv, PreWire
<1>6. ClassifyInv'
  BY DEF TypeOK, Attempts, ClassifyInv, Verdicts
<1> QED
  BY <1>1, <1>2, <1>3, <1>4, <1>5, <1>6, <1>7

LEMMA LoadStep ==
  ASSUME IInv, Load
  PROVE  IInv'
<1> USE SendAssumption DEF IInv, Load, Counted, Pending, At, Goto, GivesUp
<1>0. TypeOK
  OBVIOUS
<1>1. TypeOK'
  <2>1. row' \in Rows
    BY DEF TypeOK, Rows
  <2>2. job' \in Jobs
    BY DEF TypeOK, Jobs
  <2>3. att' \in Attempts
    <3>1. \/ \E n \in Nat, b \in BOOLEAN : att' = [att EXCEPT !.pc = "gates", !.n = n, !.marked = b]
          \/ att' = [att EXCEPT !.pc = "done"]
          \/ att' = [att EXCEPT !.pc = "retry"]
      <4>1. Counted.attempts \in Nat /\ row.inflight \in BOOLEAN
        BY DEF TypeOK, Rows
      <4> HIDE DEF Counted
      <4> QED
        BY <4>1
    <3>2. \A n \in Nat, b \in BOOLEAN :
             [att EXCEPT !.pc = "gates", !.n = n, !.marked = b] \in Attempts
      BY <1>0, AttemptMoves
    <3>3. /\ [att EXCEPT !.pc = "done"] \in Attempts
          /\ [att EXCEPT !.pc = "retry"] \in Attempts
      BY <1>0, AttemptMoves DEF Verdicts
    <3> HIDE DEF Load, Counted, IInv
    <3> QED
      BY <3>1, <3>2, <3>3
  <2>4. /\ provider' \in [calls : Nat, copies : Nat] /\ metered' \in Nat /\ old' \in BOOLEAN
    BY DEF TypeOK
  <2>5. row'.status = "none" <=> job'.state = "none"
    BY DEF TypeOK, Rows, Jobs
  <2>6. att'.pc # "idle" => job'.state = "running"
    BY DEF TypeOK, Jobs, Attempts, Verdicts
  <2>7. job'.state = "running" => job'.attempt > 0
    BY DEF TypeOK, Jobs
  <2> QED
    BY <2>1, <2>2, <2>3, <2>4, <2>5, <2>6, <2>7 DEF TypeOK
<1>2. CallInv'
  <2>1. row.attempts \in Nat /\ provider.calls \in Nat
    BY DEF TypeOK, Rows
  <2>2. CASE /\ row' = Counted
             /\ att' = [att EXCEPT !.pc = "gates", !.n = Counted.attempts, !.marked = row.inflight]
    <3>1. row'.attempts = row.attempts + 1 /\ att'.n = row.attempts + 1 /\ att'.pc = "gates"
      BY <2>2 DEF TypeOK, Rows, Attempts
    <3> QED
      BY <2>1, <3>1 DEF CallInv
  <2>3. CASE row' \in {row, Counted} /\ att'.pc \in {"done", "retry"}
    <3>1. row'.attempts \in {row.attempts, row.attempts + 1}
      BY <2>3 DEF TypeOK, Rows
    <3> QED
      BY <2>1, <2>3, <3>1 DEF CallInv, PreWire
  <2>4. \/ Goto("done") /\ row' = row
        \/ Goto("retry") /\ row' \in {row, Counted}
        \/ /\ row' = Counted
           /\ att' = [att EXCEPT !.pc = "gates", !.n = Counted.attempts, !.marked = row.inflight]
    OBVIOUS
  <2> QED
    BY <2>2, <2>3, <2>4 DEF TypeOK, Attempts
<1>3. MeterInv'
  BY DEF TypeOK, Rows, Attempts, MeterInv
<1>7. row'.shape = row.shape
  BY DEF TypeOK, Rows
<1>4. row.shape = "channel" => TraceInv'
  BY DEF TypeOK, Rows, Attempts, TraceInv, CallInv, Verdicts
<1>5. AtMostOnce'
  BY <1>7 DEF TypeOK, Rows, Attempts, CanTell, AtMostOnce, TraceInv, CallInv, PreWire
<1>6. ClassifyInv'
  BY DEF TypeOK, Attempts, ClassifyInv, Verdicts
<1> QED
  BY <1>1, <1>2, <1>3, <1>4, <1>5, <1>6, <1>7

LEMMA GatesStep ==
  ASSUME IInv, Gates
  PROVE  IInv'
<1> USE SendAssumption DEF IInv, Gates, Pending, At, Goto, GivesUp
<1>1. TypeOK'
  <2>1. row' \in Rows
    BY DEF TypeOK, Rows
  <2>2. job' \in Jobs
    BY DEF TypeOK, Jobs
  <2>3. att' \in Attempts
    BY DEF TypeOK, Attempts, Rows, Steps, Verdicts, Answers
  <2>4. /\ provider' \in [calls : Nat, copies : Nat] /\ metered' \in Nat /\ old' \in BOOLEAN
    BY DEF TypeOK
  <2>5. row'.status = "none" <=> job'.state = "none"
    BY DEF TypeOK, Rows, Jobs
  <2>6. att'.pc # "idle" => job'.state = "running"
    BY DEF TypeOK, Jobs, Attempts, Verdicts
  <2>7. job'.state = "running" => job'.attempt > 0
    BY DEF TypeOK, Jobs
  <2> QED
    BY <2>1, <2>2, <2>3, <2>4, <2>5, <2>6, <2>7 DEF TypeOK
<1>2. CallInv'
  BY DEF TypeOK, Rows, Jobs, Attempts, CallInv, PreWire, Steps, Verdicts
<1>3. MeterInv'
  BY DEF TypeOK, Rows, Attempts, MeterInv
<1>7. row'.shape = row.shape
  BY DEF TypeOK, Rows
<1>4. row.shape = "channel" => TraceInv'
  BY DEF TypeOK, Rows, Attempts, TraceInv, CallInv, Verdicts
<1>5. AtMostOnce'
  BY <1>7 DEF TypeOK, Rows, Attempts, CanTell, AtMostOnce, TraceInv, CallInv, PreWire
<1>6. ClassifyInv'
  BY DEF TypeOK, Attempts, ClassifyInv, Verdicts
<1> QED
  BY <1>1, <1>2, <1>3, <1>4, <1>5, <1>6, <1>7

LEMMA PacingStep ==
  ASSUME IInv, Pacing
  PROVE  IInv'
<1> USE SendAssumption DEF IInv, Pacing, TooOld, Exhausted, Pending, At, Goto, GivesUp
<1>1. TypeOK'
  <2>1. row' \in Rows
    BY DEF TypeOK, Rows
  <2>2. job' \in Jobs
    BY DEF TypeOK, Jobs
  <2>3. att' \in Attempts
    BY DEF TypeOK, Attempts, Rows, Steps, Verdicts, Answers
  <2>4. /\ provider' \in [calls : Nat, copies : Nat] /\ metered' \in Nat /\ old' \in BOOLEAN
    BY DEF TypeOK
  <2>5. row'.status = "none" <=> job'.state = "none"
    BY DEF TypeOK, Rows, Jobs
  <2>6. att'.pc # "idle" => job'.state = "running"
    BY DEF TypeOK, Jobs, Attempts, Verdicts
  <2>7. job'.state = "running" => job'.attempt > 0
    BY DEF TypeOK, Jobs
  <2> QED
    BY <2>1, <2>2, <2>3, <2>4, <2>5, <2>6, <2>7 DEF TypeOK
<1>2. CallInv'
  <2>1. att'.n = att.n /\ att'.pc \in {"park", "defer", "recheck"}
    BY DEF TypeOK, Attempts
  <2>2. att'.pc = "recheck" => ~Exhausted
    BY DEF TypeOK, Attempts
  <2>3. att.n \in Nat
    BY DEF TypeOK, Attempts
  <2> QED
    BY <2>1, <2>2, <2>3 DEF CallInv, PreWire
<1>3. MeterInv'
  BY DEF TypeOK, Rows, Attempts, MeterInv
<1>7. row'.shape = row.shape
  BY DEF TypeOK, Rows
<1>4. row.shape = "channel" => TraceInv'
  BY DEF TypeOK, Rows, Attempts, TraceInv, CallInv, Verdicts
<1>5. AtMostOnce'
  BY <1>7 DEF TypeOK, Rows, Attempts, CanTell, AtMostOnce, TraceInv, CallInv, PreWire
<1>6. ClassifyInv'
  BY DEF TypeOK, Attempts, ClassifyInv, Verdicts
<1> QED
  BY <1>1, <1>2, <1>3, <1>4, <1>5, <1>6, <1>7

LEMMA RecheckStep ==
  ASSUME IInv, Recheck
  PROVE  IInv'
<1> USE SendAssumption DEF IInv, Recheck, Pending, At, Goto, GivesUp
<1>1. TypeOK'
  <2>1. row' \in Rows
    BY DEF TypeOK, Rows
  <2>2. job' \in Jobs
    BY DEF TypeOK, Jobs
  <2>3. att' \in Attempts
    BY DEF TypeOK, Attempts, Rows, Steps, Verdicts, Answers
  <2>4. /\ provider' \in [calls : Nat, copies : Nat] /\ metered' \in Nat /\ old' \in BOOLEAN
    BY DEF TypeOK
  <2>5. row'.status = "none" <=> job'.state = "none"
    BY DEF TypeOK, Rows, Jobs
  <2>6. att'.pc # "idle" => job'.state = "running"
    BY DEF TypeOK, Jobs, Attempts, Verdicts
  <2>7. job'.state = "running" => job'.attempt > 0
    BY DEF TypeOK, Jobs
  <2> QED
    BY <2>1, <2>2, <2>3, <2>4, <2>5, <2>6, <2>7 DEF TypeOK
<1>2. CallInv'
  BY DEF TypeOK, Rows, Jobs, Attempts, CallInv, PreWire, Steps, Verdicts
<1>3. MeterInv'
  BY DEF TypeOK, Rows, Attempts, MeterInv
<1>7. row'.shape = row.shape
  BY DEF TypeOK, Rows
<1>4. row.shape = "channel" => TraceInv'
  BY DEF TypeOK, Rows, Attempts, TraceInv, CallInv, Verdicts
<1>5. AtMostOnce'
  BY <1>7 DEF TypeOK, Rows, Attempts, CanTell, AtMostOnce, TraceInv, CallInv, PreWire
<1>6. ClassifyInv'
  BY DEF TypeOK, Attempts, ClassifyInv, Verdicts
<1> QED
  BY <1>1, <1>2, <1>3, <1>4, <1>5, <1>6, <1>7

LEMMA GuardStep ==
  ASSUME IInv, Guard
  PROVE  IInv'
<1> USE SendAssumption DEF IInv, Guard, MarkerStands, Update, Pending, At, Goto, GivesUp
<1>1. TypeOK'
  <2>1. row' \in Rows
    BY DEF TypeOK, Rows
  <2>2. job' \in Jobs
    BY DEF TypeOK, Jobs
  <2>3. att' \in Attempts
    <3>1. \E pc \in Steps \cup Verdicts : att' = [att EXCEPT !.pc = pc]
      BY DEF Steps, Verdicts
    <3> QED
      BY <3>1, AttemptMoves
  <2>4. /\ provider' \in [calls : Nat, copies : Nat] /\ metered' \in Nat /\ old' \in BOOLEAN
    BY DEF TypeOK
  <2>5. row'.status = "none" <=> job'.state = "none"
    BY DEF TypeOK, Rows, Jobs
  <2>6. att'.pc # "idle" => job'.state = "running"
    BY DEF TypeOK, Jobs, Attempts, Verdicts
  <2>7. job'.state = "running" => job'.attempt > 0
    BY DEF TypeOK, Jobs
  <2> QED
    BY <2>1, <2>2, <2>3, <2>4, <2>5, <2>6, <2>7 DEF TypeOK
<1>2. CallInv'
  <2>1. row \in Rows /\ att \in Attempts /\ CallInv
    BY DEF TypeOK
  <2>2. row' \in {row, [row EXCEPT !.inflight = TRUE]} /\ UNCHANGED provider /\ att.pc = "guard"
    OBVIOUS
  <2>3. \E pc \in {"wire", "done", "note", "park"} : att' = [att EXCEPT !.pc = pc]
    OBVIOUS
  <2>4. row'.attempts = row.attempts
    BY <2>1, <2>2 DEF Rows
  <2>5. att'.n = att.n /\ att'.pc \in {"wire", "done", "note", "park"}
    BY <2>1, <2>3 DEF Attempts
  <2> HIDE DEF Guard, Update, IInv
  <2> QED
    BY <2>1, <2>2, <2>4, <2>5 DEF CallInv, PreWire
<1>3. MeterInv'
  BY DEF TypeOK, Rows, Attempts, MeterInv
<1>7. row'.shape = row.shape
  BY DEF TypeOK, Rows
<1>4. row.shape = "channel" => TraceInv'
  <2> SUFFICES ASSUME row.shape = "channel" PROVE TraceInv'
    OBVIOUS
  <2>1. att'.marked = att.marked /\ att'.pc \in {"park", "wire", "done", "note"}
    BY DEF TypeOK, Attempts
  <2>2. row' \in {row, [row EXCEPT !.inflight = TRUE]}
    OBVIOUS
  <2>3. att'.pc = "wire" => row' = [row EXCEPT !.inflight = TRUE] /\ Pending /\ ~att.marked
    <3>1. \/ row' = [row EXCEPT !.inflight = TRUE] /\ Pending /\ ~att.marked
          \/ Goto("done")
          \/ Goto("note")
          \/ GivesUp
      OBVIOUS
    <3> HIDE DEF Guard
    <3> QED
      BY <3>1 DEF TypeOK, Attempts
  <2> QED
    BY <2>1, <2>2, <2>3 DEF TypeOK, Rows, TraceInv
<1>5. AtMostOnce'
  BY <1>7 DEF TypeOK, Rows, Attempts, CanTell, AtMostOnce, TraceInv, CallInv, PreWire
<1>6. ClassifyInv'
  BY DEF TypeOK, Attempts, ClassifyInv, Verdicts
<1> QED
  BY <1>1, <1>2, <1>3, <1>4, <1>5, <1>6, <1>7

LEMMA WireStep ==
  ASSUME IInv, Wire
  PROVE  IInv'
<1>1. /\ TypeOK /\ CallInv /\ MeterInv /\ ClassifyInv
      /\ row.shape = "channel" => TraceInv
      /\ AtMostOnce
  BY DEF IInv
<1>2. UNCHANGED <<row, job, metered, old>> /\ att.pc = "wire"
  BY DEF Wire, At
\* What the call leaves behind, whichever answer came back.
<1>3. \/ att' = [att EXCEPT !.pc = "record"]
      \/ \E err \in Answers \ {"none"} : att' = [att EXCEPT !.pc = "classify", !.err = err]
  BY DEF Wire, Goto, Answered, Answers, Refusals, LostClass
<1>11. \E c \in {provider.copies, provider.copies + 1} :
          /\ provider' = [calls |-> provider.calls + 1, copies |-> c]
          /\ c = provider.copies \/ ~Found
  BY DEF Wire, Calls
<1>4. /\ att' \in Attempts /\ att'.n = att.n /\ att'.marked = att.marked
      /\ att'.pc \in {"record", "classify"}
  <2>1. att' \in Attempts
    BY <1>1, <1>3, AttemptMoves DEF Steps
  <2> QED
    BY <1>1, <1>3, <2>1 DEF TypeOK, Attempts
<1>5. /\ provider.calls \in Nat /\ provider.copies \in Nat /\ att.n \in Nat
      /\ provider'.calls = provider.calls + 1
      /\ \/ provider'.copies = provider.copies
         \/ provider'.copies = provider.copies + 1 /\ ~Found
  <2>1. provider.calls \in Nat /\ provider.copies \in Nat /\ att.n \in Nat
    BY <1>1 DEF TypeOK, Attempts
  <2> QED
    BY <1>11, <2>1
<1>6. TypeOK'
  <2>1. provider' \in [calls : Nat, copies : Nat]
    BY <1>11, <1>5
  <2>2. att.pc # "idle" /\ (att.pc # "idle" => job.state = "running")
    BY <1>1, <1>2 DEF TypeOK
  <2> QED
    BY <1>1, <1>2, <1>4, <2>1, <2>2 DEF TypeOK
<1>7. CallInv'
  BY <1>1, <1>2, <1>4, <1>5, SendAssumption DEF CallInv, PreWire
<1>8. MeterInv' /\ ClassifyInv'
  BY <1>1, <1>2, <1>3 DEF MeterInv, ClassifyInv, TypeOK, Attempts, Refusals
<1>9. ASSUME row.shape = "channel" PROVE TraceInv'
  <2>1. row.inflight /\ provider.copies = 0
    BY <1>1, <1>2, <1>9 DEF TraceInv
  \* A channel's answer that is not "unknown" is a refusal.
  <2>2. att'.pc = "classify" /\ att'.err # "unknown" => provider'.copies = provider.copies
    <3>1. \/ Goto("record")
          \/ provider' = [calls |-> provider.calls + 1, copies |-> provider.copies]
          \/ Answered("unknown")
      BY <1>9 DEF Wire, LostClass, Calls
    <3>2. Goto("record") => att'.pc = "record"
      BY <1>1 DEF Goto, TypeOK, Attempts
    <3>3. Answered("unknown") => att'.err = "unknown"
      BY <1>1 DEF Answered, TypeOK, Attempts
    <3> QED
      BY <3>1, <3>2, <3>3
  <2> QED
    BY <1>2, <1>4, <2>1, <2>2 DEF TraceInv
<1>10. AtMostOnce'
  <2> SUFFICES ASSUME CanTell PROVE provider'.copies <= 1
    BY <1>2 DEF CanTell, AtMostOnce
  <2>1. CASE row.shape = "channel"
    BY <1>1, <1>2, <1>5, <2>1 DEF TraceInv
  <2>2. CASE row.shape = "mail" /\ Honours
    \* The call is this attempt's first only if it is the message's first.
    <3>1. provider.copies > 0 => att.n > 1
      BY <1>1, <1>2, <1>5 DEF CallInv, PreWire
    <3>2. ~Found => provider.copies = 0
      BY <1>5, <2>2, <3>1 DEF Found, LooksBack, IsRetry
    <3> QED
      BY <1>1, <1>5, <3>2 DEF AtMostOnce
  <2> QED
    BY <2>1, <2>2 DEF CanTell
<1> QED
  BY <1>2, <1>6, <1>7, <1>8, <1>9, <1>10 DEF IInv

LEMMA RecordSentStep ==
  ASSUME IInv, RecordSent
  PROVE  IInv'
<1> USE SendAssumption DEF IInv, RecordSent, Update, Sent, Metered, Pending, At, Goto, GivesUp
<1>1. TypeOK'
  <2>1. row' \in Rows
    BY DEF TypeOK, Rows
  <2>2. job' \in Jobs
    BY DEF TypeOK, Jobs
  <2>3. att' \in Attempts
    BY DEF TypeOK, Attempts, Rows, Steps, Verdicts, Answers
  <2>4. /\ provider' \in [calls : Nat, copies : Nat] /\ metered' \in Nat /\ old' \in BOOLEAN
    BY DEF TypeOK
  <2>5. row'.status = "none" <=> job'.state = "none"
    BY DEF TypeOK, Rows, Jobs
  <2>6. att'.pc # "idle" => job'.state = "running"
    BY DEF TypeOK, Jobs, Attempts, Verdicts
  <2>7. job'.state = "running" => job'.attempt > 0
    BY DEF TypeOK, Jobs
  <2> QED
    BY <2>1, <2>2, <2>3, <2>4, <2>5, <2>6, <2>7 DEF TypeOK
<1>2. CallInv'
  BY DEF TypeOK, Rows, Jobs, Attempts, CallInv, PreWire, Steps, Verdicts
<1>3. MeterInv'
  <2>1. metered \in Nat /\ row \in Rows
    BY DEF TypeOK
  <2>2. row' \in {row, Sent}
    OBVIOUS
  <2>3. metered' = metered + 1 => row' = Sent /\ Pending
    BY <2>1, <2>2 DEF TypeOK, Rows, Attempts
  <2>4. metered' \in {metered, metered + 1}
    OBVIOUS
  <2>5. row' = Sent => row'.status = "sent"
    BY <2>1 DEF Rows
  <2> QED
    BY <2>1, <2>2, <2>3, <2>4, <2>5 DEF MeterInv
<1>7. row'.shape = row.shape
  BY DEF TypeOK, Rows
<1>4. row.shape = "channel" => TraceInv'
  BY DEF TypeOK, Rows, Attempts, TraceInv, CallInv, Verdicts
<1>5. AtMostOnce'
  BY <1>7 DEF TypeOK, Rows, Attempts, CanTell, AtMostOnce, TraceInv, CallInv, PreWire
<1>6. ClassifyInv'
  BY DEF TypeOK, Attempts, ClassifyInv, Verdicts
<1> QED
  BY <1>1, <1>2, <1>3, <1>4, <1>5, <1>6, <1>7

LEMMA ParkTransmittedStep ==
  ASSUME IInv, ParkTransmitted
  PROVE  IInv'
<1> USE SendAssumption DEF IInv, ParkTransmitted, Update, Pending, At, Goto, GivesUp
<1>1. TypeOK'
  <2>1. row' \in Rows
    BY DEF TypeOK, Rows
  <2>2. job' \in Jobs
    BY DEF TypeOK, Jobs
  <2>3. att' \in Attempts
    BY DEF TypeOK, Attempts, Rows, Steps, Verdicts, Answers
  <2>4. /\ provider' \in [calls : Nat, copies : Nat] /\ metered' \in Nat /\ old' \in BOOLEAN
    BY DEF TypeOK
  <2>5. row'.status = "none" <=> job'.state = "none"
    BY DEF TypeOK, Rows, Jobs
  <2>6. att'.pc # "idle" => job'.state = "running"
    BY DEF TypeOK, Jobs, Attempts, Verdicts
  <2>7. job'.state = "running" => job'.attempt > 0
    BY DEF TypeOK, Jobs
  <2> QED
    BY <2>1, <2>2, <2>3, <2>4, <2>5, <2>6, <2>7 DEF TypeOK
<1>2. CallInv'
  BY DEF TypeOK, Rows, Jobs, Attempts, CallInv, PreWire, Steps, Verdicts
<1>3. MeterInv'
  BY DEF TypeOK, Rows, Attempts, MeterInv
<1>7. row'.shape = row.shape
  BY DEF TypeOK, Rows
<1>4. row.shape = "channel" => TraceInv'
  BY DEF TypeOK, Rows, Attempts, TraceInv, CallInv, Verdicts
<1>5. AtMostOnce'
  BY <1>7 DEF TypeOK, Rows, Attempts, CanTell, AtMostOnce, TraceInv, CallInv, PreWire
<1>6. ClassifyInv'
  BY DEF TypeOK, Attempts, ClassifyInv, Verdicts
<1> QED
  BY <1>1, <1>2, <1>3, <1>4, <1>5, <1>6, <1>7

LEMMA ClassifyStep ==
  ASSUME IInv, Classify
  PROVE  IInv'
<1>1. /\ TypeOK /\ CallInv /\ MeterInv /\ ClassifyInv
      /\ row.shape = "channel" => TraceInv
      /\ AtMostOnce
  BY DEF IInv
<1>2. UNCHANGED <<job, provider, metered, old>> /\ att.pc = "classify"
  BY DEF Classify, At
<1>3. row' \in {row, [row EXCEPT !.inflight = FALSE]} /\ (att.err = "unknown" => row' = row)
  BY DEF Classify, Retracted
<1>4. \E pc \in {"throttle", "note", "park"} : att' = [att EXCEPT !.pc = pc]
  <2>1. att.err \in {"unknown", "final", "throttled", "transient"} \/ att.err = "none"
    BY <1>1 DEF TypeOK, Attempts, Answers
  <2>2. CASE att.err = "none"
    BY <1>1, <1>2, <2>2 DEF ClassifyInv
  <2>3. ASSUME att.err # "unknown", att.err # "none", NotTaken
        PROVE  \E pc \in {"throttle", "note", "park"} : att' = [att EXCEPT !.pc = pc]
    BY <2>1, <2>3 DEF NotTaken, GivesUp, Goto
  <2>4. \/ att.err = "unknown" /\ GivesUp
        \/ att.err # "unknown" /\ (NotTaken \/ Goto("note"))
    BY DEF Classify
  <2> QED
    BY <2>2, <2>3, <2>4 DEF GivesUp, Goto
<1>5. att' \in Attempts /\ att'.pc \in {"throttle", "note", "park"}
  <2>1. att' \in Attempts
    BY <1>1, <1>4, AttemptMoves DEF Steps
  <2> QED
    BY <1>1, <1>4, <2>1 DEF TypeOK, Attempts
<1>6. /\ row' \in Rows
      /\ row'.status = row.status /\ row'.attempts = row.attempts
      /\ att.err = "unknown" => row'.inflight = row.inflight
  BY <1>1, <1>3 DEF TypeOK, Rows
<1>7. TypeOK'
  BY <1>1, <1>2, <1>5, <1>6 DEF TypeOK
<1>8. CallInv' /\ MeterInv' /\ ClassifyInv'
  BY <1>1, <1>2, <1>5, <1>6 DEF CallInv, MeterInv, ClassifyInv, PreWire
<1>9. ASSUME row.shape = "channel" PROVE TraceInv'
  BY <1>1, <1>2, <1>5, <1>6, <1>9 DEF TraceInv
<1>10. row'.shape = row.shape
  BY <1>1, <1>3 DEF TypeOK, Rows
<1>11. AtMostOnce'
  BY <1>1, <1>2, <1>10 DEF AtMostOnce, CanTell
<1> QED
  BY <1>7, <1>8, <1>9, <1>10, <1>11 DEF IInv

LEMMA ThrottledStep ==
  ASSUME IInv, Throttled
  PROVE  IInv'
<1> USE SendAssumption DEF IInv, Throttled, Update, Pending, At, Goto, GivesUp
<1>1. TypeOK'
  <2>1. row' \in Rows
    BY DEF TypeOK, Rows
  <2>2. job' \in Jobs
    BY DEF TypeOK, Jobs
  <2>3. att' \in Attempts
    <3>1. \E pc \in Steps \cup Verdicts : att' = [att EXCEPT !.pc = pc]
      BY DEF Steps, Verdicts
    <3> QED
      BY <3>1, AttemptMoves
  <2>4. /\ provider' \in [calls : Nat, copies : Nat] /\ metered' \in Nat /\ old' \in BOOLEAN
    BY DEF TypeOK
  <2>5. row'.status = "none" <=> job'.state = "none"
    BY DEF TypeOK, Rows, Jobs
  <2>6. att'.pc # "idle" => job'.state = "running"
    BY DEF TypeOK, Jobs, Attempts, Verdicts
  <2>7. job'.state = "running" => job'.attempt > 0
    BY DEF TypeOK, Jobs
  <2> QED
    BY <2>1, <2>2, <2>3, <2>4, <2>5, <2>6, <2>7 DEF TypeOK
<1>2. CallInv'
  <2>1. row \in Rows /\ att \in Attempts /\ CallInv
    BY DEF TypeOK
  <2>2. row' \in {row, [row EXCEPT !.inflight = TRUE]} /\ UNCHANGED provider /\ att.pc = "throttle"
    OBVIOUS
  <2>3. \E pc \in {"snooze", "done", "retry", "park"} : att' = [att EXCEPT !.pc = pc]
    OBVIOUS
  <2>4. row'.attempts = row.attempts
    BY <2>1, <2>2 DEF Rows
  <2>5. att'.n = att.n /\ att'.pc \in {"snooze", "done", "retry", "park"}
    BY <2>1, <2>3 DEF Attempts
  <2> HIDE DEF Throttled, Update, IInv
  <2> QED
    BY <2>1, <2>2, <2>4, <2>5 DEF CallInv, PreWire
<1>3. MeterInv'
  BY DEF TypeOK, Rows, Attempts, MeterInv
<1>7. row'.shape = row.shape
  BY DEF TypeOK, Rows
<1>4. row.shape = "channel" => TraceInv'
  <2>1. row' = row /\ att'.pc \in {"park", "snooze", "done", "retry"}
    BY DEF TypeOK, Attempts
  <2> QED
    BY <2>1 DEF TraceInv
<1>5. AtMostOnce'
  BY <1>7 DEF TypeOK, Rows, Attempts, CanTell, AtMostOnce, TraceInv, CallInv, PreWire
<1>6. ClassifyInv'
  BY DEF TypeOK, Attempts, ClassifyInv, Verdicts
<1> QED
  BY <1>1, <1>2, <1>3, <1>4, <1>5, <1>6, <1>7

LEMMA ParkStep ==
  ASSUME IInv, Park
  PROVE  IInv'
<1> USE SendAssumption DEF IInv, Park, Update, Pending, At, Goto, GivesUp
<1>1. TypeOK'
  <2>1. row' \in Rows
    BY DEF TypeOK, Rows
  <2>2. job' \in Jobs
    BY DEF TypeOK, Jobs
  <2>3. att' \in Attempts
    BY DEF TypeOK, Attempts, Rows, Steps, Verdicts, Answers
  <2>4. /\ provider' \in [calls : Nat, copies : Nat] /\ metered' \in Nat /\ old' \in BOOLEAN
    BY DEF TypeOK
  <2>5. row'.status = "none" <=> job'.state = "none"
    BY DEF TypeOK, Rows, Jobs
  <2>6. att'.pc # "idle" => job'.state = "running"
    BY DEF TypeOK, Jobs, Attempts, Verdicts
  <2>7. job'.state = "running" => job'.attempt > 0
    BY DEF TypeOK, Jobs
  <2> QED
    BY <2>1, <2>2, <2>3, <2>4, <2>5, <2>6, <2>7 DEF TypeOK
<1>2. CallInv'
  BY DEF TypeOK, Rows, Jobs, Attempts, CallInv, PreWire, Steps, Verdicts
<1>3. MeterInv'
  BY DEF TypeOK, Rows, Attempts, MeterInv
<1>7. row'.shape = row.shape
  BY DEF TypeOK, Rows
<1>4. row.shape = "channel" => TraceInv'
  BY DEF TypeOK, Rows, Attempts, TraceInv, CallInv, Verdicts
<1>5. AtMostOnce'
  BY <1>7 DEF TypeOK, Rows, Attempts, CanTell, AtMostOnce, TraceInv, CallInv, PreWire
<1>6. ClassifyInv'
  BY DEF TypeOK, Attempts, ClassifyInv, Verdicts
<1> QED
  BY <1>1, <1>2, <1>3, <1>4, <1>5, <1>6, <1>7

LEMMA RecordFailureStep ==
  ASSUME IInv, RecordFailure
  PROVE  IInv'
<1> USE SendAssumption DEF IInv, RecordFailure, Update, Pending, At, Goto, GivesUp
<1>1. TypeOK'
  <2>1. row' \in Rows
    BY DEF TypeOK, Rows
  <2>2. job' \in Jobs
    BY DEF TypeOK, Jobs
  <2>3. att' \in Attempts
    BY DEF TypeOK, Attempts, Rows, Steps, Verdicts, Answers
  <2>4. /\ provider' \in [calls : Nat, copies : Nat] /\ metered' \in Nat /\ old' \in BOOLEAN
    BY DEF TypeOK
  <2>5. row'.status = "none" <=> job'.state = "none"
    BY DEF TypeOK, Rows, Jobs
  <2>6. att'.pc # "idle" => job'.state = "running"
    BY DEF TypeOK, Jobs, Attempts, Verdicts
  <2>7. job'.state = "running" => job'.attempt > 0
    BY DEF TypeOK, Jobs
  <2> QED
    BY <2>1, <2>2, <2>3, <2>4, <2>5, <2>6, <2>7 DEF TypeOK
<1>2. CallInv'
  BY DEF TypeOK, Rows, Jobs, Attempts, CallInv, PreWire, Steps, Verdicts
<1>3. MeterInv'
  BY DEF TypeOK, Rows, Attempts, MeterInv
<1>7. row'.shape = row.shape
  BY DEF TypeOK, Rows
<1>4. row.shape = "channel" => TraceInv'
  BY DEF TypeOK, Rows, Attempts, TraceInv, CallInv, Verdicts
<1>5. AtMostOnce'
  BY <1>7 DEF TypeOK, Rows, Attempts, CanTell, AtMostOnce, TraceInv, CallInv, PreWire
<1>6. ClassifyInv'
  BY DEF TypeOK, Attempts, ClassifyInv, Verdicts
<1> QED
  BY <1>1, <1>2, <1>3, <1>4, <1>5, <1>6, <1>7

LEMMA RecordDeferralStep ==
  ASSUME IInv, RecordDeferral
  PROVE  IInv'
<1> USE SendAssumption DEF IInv, RecordDeferral, Update, GivenBack, Pending, At, Goto, GivesUp
<1>1. TypeOK'
  <2>1. row' \in Rows
    BY DEF TypeOK, Rows
  <2>2. job' \in Jobs
    BY DEF TypeOK, Jobs
  <2>3. att' \in Attempts
    BY DEF TypeOK, Attempts, Rows, Steps, Verdicts, Answers
  <2>4. /\ provider' \in [calls : Nat, copies : Nat] /\ metered' \in Nat /\ old' \in BOOLEAN
    BY DEF TypeOK
  <2>5. row'.status = "none" <=> job'.state = "none"
    BY DEF TypeOK, Rows, Jobs
  <2>6. att'.pc # "idle" => job'.state = "running"
    BY DEF TypeOK, Jobs, Attempts, Verdicts
  <2>7. job'.state = "running" => job'.attempt > 0
    BY DEF TypeOK, Jobs
  <2> QED
    BY <2>1, <2>2, <2>3, <2>4, <2>5, <2>6, <2>7 DEF TypeOK
<1>2. CallInv'
  BY DEF TypeOK, Rows, Jobs, Attempts, CallInv, PreWire, Steps, Verdicts
<1>3. MeterInv'
  BY DEF TypeOK, Rows, Attempts, MeterInv
<1>7. row'.shape = row.shape
  BY DEF TypeOK, Rows
<1>4. row.shape = "channel" => TraceInv'
  BY DEF TypeOK, Rows, Attempts, TraceInv, CallInv, Verdicts
<1>5. AtMostOnce'
  BY <1>7 DEF TypeOK, Rows, Attempts, CanTell, AtMostOnce, TraceInv, CallInv, PreWire
<1>6. ClassifyInv'
  BY DEF TypeOK, Attempts, ClassifyInv, Verdicts
<1> QED
  BY <1>1, <1>2, <1>3, <1>4, <1>5, <1>6, <1>7

LEMMA StepInv == IInv /\ [Next]_vars => IInv'
<1> SUFFICES ASSUME IInv, [Next]_vars PROVE IInv'
  OBVIOUS
<1>1. CASE UNCHANGED vars
  BY <1>1 DEF IInv, TypeOK, CallInv, MeterInv, ClassifyInv, TraceInv, AtMostOnce, CanTell,
     Pending, vars
<1>2. CASE Attempt
  BY <1>2, ReadPaceStep, LoadStep, GatesStep, PacingStep, RecheckStep, GuardStep, WireStep,
     RecordSentStep, ParkTransmittedStep, ClassifyStep, ThrottledStep, ParkStep,
     RecordFailureStep, RecordDeferralStep DEF Attempt
<1>3. CASE Stage \/ Start \/ Finish \/ Crash \/ Rescue \/ Scrub \/ GrowOld
  BY <1>3, StageStep, StartStep, FinishStep, CrashStep, RescueStep, ScrubStep, GrowOldStep
<1> QED
  BY <1>1, <1>2, <1>3 DEF Next

LEMMA Invariance == Spec => []IInv
  BY InitInv, StepInv, PTL DEF Spec

-----------------------------------------------------------------------------
\* Every variable has its type, a row and its job come together, and an attempt
\* belongs to a running job that has spent a rung.
THEOREM TypeCorrect == Spec => []TypeOK
<1>1. IInv => TypeOK
  BY DEF IInv
<1> QED
  BY <1>1, Invariance, PTL

\* No crash, lost answer or failed write makes a channel message, or a mail
\* whose provider keeps its identity, reach the recipient twice.
THEOREM OneCopy == Spec => []AtMostOnce
<1>1. IInv => AtMostOnce
  BY DEF IInv
<1> QED
  BY <1>1, Invariance, PTL

\* A channel message the provider took is on its row: sent, or marked.
THEOREM CopyIsTraced == Spec => []CopyLeavesTrace
<1>1. IInv => CopyLeavesTrace
  BY DEF IInv, TraceInv, CopyLeavesTrace
<1> QED
  BY <1>1, Invariance, PTL

\* The row counts every call, whatever was deferred, lost or rescued.
THEOREM CountedBeforeTheWire == Spec => []CallsAreCounted
<1>1. IInv => CallsAreCounted
  BY DEF IInv, CallInv, CallsAreCounted
<1> QED
  BY <1>1, Invariance, PTL

\* A ladder of N rungs makes fewer than N calls.
THEOREM LadderIsBounded == Spec => []LastRungParks
<1>1. IInv => LastRungParks
  BY DEF IInv, CallInv, LastRungParks
<1> QED
  BY <1>1, Invariance, PTL

\* A send is metered at most once, and only if its row says it was sent.
THEOREM MeteredIsSent == Spec => []MeteredOnce
<1>1. IInv => MeteredOnce
  BY DEF IInv, MeterInv, MeteredOnce
<1> QED
  BY <1>1, Invariance, PTL

-----------------------------------------------------------------------------
(***************************************************************************)
(* With nothing failing on this side of the wire the row's count keeps up  *)
(* with the runner's, so the ladder is cut by a park and never by River.   *)
(***************************************************************************)
\* Past Load: the runner's count is covered by the attempt's.
Loaded == {"gates", "pacing", "recheck", "guard", "wire", "record", "classify",
           "throttle", "park", "note", "defer", "retry"}

LadderInv ==
    /\ job.state = "none" => job.attempt = 0
    /\ job.state = "available" /\ Pending => job.attempt <= row.attempts
    /\ att.pc \in {"pace", "load", "snooze"} /\ Pending => job.attempt <= row.attempts + 1
    /\ att.pc \in Loaded => job.attempt <= att.n
    /\ att.pc \in Loaded /\ Pending => att.n = row.attempts
    /\ att.pc \in {"recheck", "guard", "wire", "record", "classify", "throttle", "note", "retry"}
          => att.n < MaxAttempts
    /\ att.pc = "done" => Closed
    /\ att.pc # "parksent"
    /\ job.state = "running" => att.pc # "idle"
    /\ Ended => Closed

LEMMA StageLadder ==
  ASSUME row.faults = {}, IInv, LadderInv, Stage
  PROVE  LadderInv'
<1>1. /\ row \in Rows /\ job \in Jobs /\ att \in Attempts
      /\ row.status = "none" /\ job.state = "none" /\ att.pc = "idle"
  BY DEF IInv, TypeOK, Stage
<1>2. /\ row' = [row EXCEPT !.status = "pending"]
      /\ job' = [job EXCEPT !.state = "available"]
      /\ att' = att
  BY DEF Stage
<1>3. /\ row'.status = "pending" /\ row'.attempts = row.attempts /\ row.attempts \in Nat
      /\ job'.state = "available" /\ job'.attempt = job.attempt
  BY <1>1, <1>2 DEF Rows, Jobs
<1>4. job.attempt = 0
  BY <1>1 DEF LadderInv
<1> QED
  BY <1>1, <1>2, <1>3, <1>4 DEF LadderInv, Loaded, Pending, Ended

LEMMA StartLadder ==
  ASSUME row.faults = {}, IInv, LadderInv, Start
  PROVE  LadderInv'
  BY SendAssumption DEF IInv, TypeOK, Rows, Jobs, Attempts, LadderInv, Loaded, Closed, Ended,
     Start, NoAttempt, Pending, At, Goto, GivesUp, Verdicts

LEMMA FinishLadder ==
  ASSUME row.faults = {}, IInv, LadderInv, Finish
  PROVE  LadderInv'
  BY SendAssumption DEF IInv, TypeOK, Rows, Jobs, Attempts, LadderInv, Loaded, Closed, Ended,
     Finish, NextRung, NoAttempt, Verdicts, Pending, At, Goto, GivesUp

LEMMA CrashLadder ==
  ASSUME row.faults = {}, IInv, LadderInv, Crash
  PROVE  LadderInv'
  BY SendAssumption DEF IInv, TypeOK, Rows, Jobs, Attempts, LadderInv, Loaded, Closed, Ended,
     Crash, NoAttempt, Pending, At, Goto, GivesUp, Verdicts

LEMMA RescueLadder ==
  ASSUME row.faults = {}, IInv, LadderInv, Rescue
  PROVE  LadderInv'
  BY SendAssumption DEF IInv, TypeOK, Rows, Jobs, Attempts, LadderInv, Loaded, Closed, Ended,
     Rescue, NextRung, Pending, At, Goto, GivesUp, Verdicts

LEMMA ScrubLadder ==
  ASSUME row.faults = {}, IInv, LadderInv, Scrub
  PROVE  LadderInv'
  BY SendAssumption DEF IInv, TypeOK, Rows, Jobs, Attempts, LadderInv, Loaded, Closed, Ended,
     Scrub, Pending, At, Goto, GivesUp, Verdicts

LEMMA GrowOldLadder ==
  ASSUME row.faults = {}, IInv, LadderInv, GrowOld
  PROVE  LadderInv'
  BY SendAssumption DEF IInv, TypeOK, Rows, Jobs, Attempts, LadderInv, Loaded, Closed, Ended,
     GrowOld, Pending, At, Goto, GivesUp, Verdicts

LEMMA ReadPaceLadder ==
  ASSUME row.faults = {}, IInv, LadderInv, ReadPace
  PROVE  LadderInv'
  BY SendAssumption DEF IInv, TypeOK, Rows, Jobs, Attempts, LadderInv, Loaded, Closed, Ended,
     ReadPace, Pending, At, Goto, GivesUp, Verdicts

LEMMA LoadLadder ==
  ASSUME row.faults = {}, IInv, LadderInv, Load
  PROVE  LadderInv'
<1>1. /\ row \in Rows /\ job \in Jobs /\ att \in Attempts
      /\ row.status # "none" /\ job.state = "running" /\ att.pc = "load" /\ job' = job
  BY DEF IInv, TypeOK, Load, At
<1>2. \/ /\ Pending /\ row' = Counted
         /\ att' = [att EXCEPT !.pc = "gates", !.n = Counted.attempts, !.marked = row.inflight]
      \/ ~Pending /\ Goto("done") /\ row' = row
  BY DEF Load
<1>3. CASE Pending /\ row' = Counted
           /\ att' = [att EXCEPT !.pc = "gates", !.n = Counted.attempts, !.marked = row.inflight]
  <2>1. /\ row'.status = "pending" /\ row'.attempts = row.attempts + 1 /\ row.attempts \in Nat
        /\ Counted.attempts = row.attempts + 1
    BY <1>1, <1>3 DEF Rows, Counted, Pending
  <2>2. att'.pc = "gates" /\ att'.n = Counted.attempts
    BY <1>1, <1>3 DEF Attempts
  <2>3. job.attempt <= row.attempts + 1
    BY <1>1, <1>3 DEF LadderInv
  <2> QED
    BY <1>1, <2>1, <2>2, <2>3 DEF LadderInv, Loaded, Ended, Pending
<1>4. CASE ~Pending /\ Goto("done") /\ row' = row
  <2>1. att'.pc = "done"
    BY <1>1, <1>4 DEF Goto, Attempts
  <2> QED
    BY <1>1, <1>4, <2>1 DEF LadderInv, Loaded, Ended, Pending, Closed, Rows
<1> QED
  BY <1>2, <1>3, <1>4

LEMMA GatesLadder ==
  ASSUME row.faults = {}, IInv, LadderInv, Gates
  PROVE  LadderInv'
  BY SendAssumption DEF IInv, TypeOK, Rows, Jobs, Attempts, LadderInv, Loaded, Closed, Ended,
     Gates, Pending, At, Goto, GivesUp, Verdicts

LEMMA PacingLadder ==
  ASSUME row.faults = {}, IInv, LadderInv, Pacing
  PROVE  LadderInv'
<1>1. /\ att \in Attempts /\ job.state = "running" /\ att.pc = "pacing"
      /\ row' = row /\ job' = job
  BY DEF IInv, TypeOK, Pacing, At
<1>2. /\ att'.n = att.n
      /\ \/ att'.pc \in {"park", "defer"}
         \/ att'.pc = "recheck" /\ ~(att.n >= MaxAttempts)
  BY <1>1 DEF Pacing, Exhausted, GivesUp, Goto, Attempts
<1>3. att.n \in Nat /\ MaxAttempts \in Nat
  BY <1>1, SendAssumption DEF Attempts
<1> QED
  BY <1>1, <1>2, <1>3 DEF LadderInv, Loaded, Ended, Pending

LEMMA RecheckLadder ==
  ASSUME row.faults = {}, IInv, LadderInv, Recheck
  PROVE  LadderInv'
  BY SendAssumption DEF IInv, TypeOK, Rows, Jobs, Attempts, LadderInv, Loaded, Closed, Ended,
     Recheck, Pending, At, Goto, GivesUp, Verdicts

LEMMA GuardLadder ==
  ASSUME row.faults = {}, IInv, LadderInv, Guard
  PROVE  LadderInv'
<1>1. /\ row \in Rows /\ att \in Attempts /\ row.status # "none"
      /\ job.state = "running" /\ att.pc = "guard" /\ job' = job
  BY DEF IInv, TypeOK, Guard, At
<1>2. /\ att'.n = att.n
      /\ \/ att'.pc \in {"wire", "park"}
         \/ att'.pc = "done" /\ ~Pending
  BY <1>1 DEF Guard, Update, GivesUp, Goto, Attempts
<1>3. row'.status = row.status /\ row'.attempts = row.attempts
  <2>1. row' = row \/ row' = [row EXCEPT !.inflight = TRUE]
    BY DEF Guard, Update
  <2> QED
    BY <1>1, <2>1 DEF Rows
<1> QED
  BY <1>1, <1>2, <1>3 DEF LadderInv, Loaded, Ended, Closed, Pending, Rows

LEMMA WireLadder ==
  ASSUME row.faults = {}, IInv, LadderInv, Wire
  PROVE  LadderInv'
<1>1. /\ att \in Attempts /\ job.state = "running" /\ att.pc = "wire"
      /\ row' = row /\ job' = job
  BY DEF IInv, TypeOK, Wire, At
<1>2. Goto("record") \/ \E err : Answered(err)
  BY DEF Wire
<1>3. att'.n = att.n /\ att'.pc \in {"record", "classify"}
  BY <1>1, <1>2 DEF Goto, Answered, Attempts
<1> QED
  BY <1>1, <1>3 DEF LadderInv, Loaded, Ended, Pending

LEMMA RecordSentLadder ==
  ASSUME row.faults = {}, IInv, LadderInv, RecordSent
  PROVE  LadderInv'
  BY SendAssumption DEF IInv, TypeOK, Rows, Jobs, Attempts, LadderInv, Loaded, Closed, Ended,
     RecordSent, Update, Sent, Metered, Pending, At, Goto, GivesUp, Verdicts

LEMMA ParkTransmittedLadder ==
  ASSUME row.faults = {}, IInv, LadderInv, ParkTransmitted
  PROVE  LadderInv'
  BY SendAssumption DEF IInv, TypeOK, Rows, Jobs, Attempts, LadderInv, Loaded, Closed, Ended,
     ParkTransmitted, Update, Pending, At, Goto, GivesUp, Verdicts

LEMMA ClassifyLadder ==
  ASSUME row.faults = {}, IInv, LadderInv, Classify
  PROVE  LadderInv'
<1>1. /\ row \in Rows /\ att \in Attempts /\ job.state = "running" /\ att.pc = "classify"
      /\ job' = job
  BY DEF IInv, TypeOK, Classify, At
<1>2. att'.n = att.n /\ att'.pc \in {"park", "throttle", "note"}
  <2>1. \/ GivesUp
        \/ Goto("throttle")
        \/ Goto("note")
    <3>1. att.err \in {"unknown", "final", "throttled", "transient"}
      BY <1>1 DEF IInv, ClassifyInv, Attempts, Answers
    <3> QED
      BY <3>1 DEF Classify, NotTaken
  <2> QED
    BY <1>1, <2>1 DEF GivesUp, Goto, Attempts
<1>3. row'.status = row.status /\ row'.attempts = row.attempts
  <2>1. row' = row \/ row' = [row EXCEPT !.inflight = FALSE]
    BY DEF Classify, Retracted
  <2> QED
    BY <1>1, <2>1 DEF Rows
<1> QED
  BY <1>1, <1>2, <1>3 DEF LadderInv, Loaded, Ended, Pending

LEMMA ThrottledLadder ==
  ASSUME row.faults = {}, IInv, LadderInv, Throttled
  PROVE  LadderInv'
<1>1. /\ row \in Rows /\ att \in Attempts /\ row.status # "none"
      /\ job.state = "running" /\ att.pc = "throttle" /\ job' = job
  BY DEF IInv, TypeOK, Throttled, At
<1>2. /\ row' = row /\ att'.n = att.n
      /\ \/ att'.pc \in {"park", "snooze"}
         \/ att'.pc = "done" /\ ~Pending
  BY <1>1 DEF Throttled, Update, GivesUp, Goto, Attempts
<1>3. row.attempts \in Nat /\ job.attempt \in Nat
  BY <1>1 DEF IInv, TypeOK, Rows, Jobs
<1> QED
  BY <1>1, <1>2, <1>3 DEF LadderInv, Loaded, Ended, Closed, Pending, Rows

LEMMA ParkLadder ==
  ASSUME row.faults = {}, IInv, LadderInv, Park
  PROVE  LadderInv'
  BY SendAssumption DEF IInv, TypeOK, Rows, Jobs, Attempts, LadderInv, Loaded, Closed, Ended,
     Park, Update, Pending, At, Goto, GivesUp, Verdicts

LEMMA RecordFailureLadder ==
  ASSUME row.faults = {}, IInv, LadderInv, RecordFailure
  PROVE  LadderInv'
  BY SendAssumption DEF IInv, TypeOK, Rows, Jobs, Attempts, LadderInv, Loaded, Closed, Ended,
     RecordFailure, Update, Pending, At, Goto, GivesUp, Verdicts

LEMMA RecordDeferralLadder ==
  ASSUME row.faults = {}, IInv, LadderInv, RecordDeferral
  PROVE  LadderInv'
  BY SendAssumption DEF IInv, TypeOK, Rows, Jobs, Attempts, LadderInv, Loaded, Closed, Ended,
     RecordDeferral, Update, GivenBack, Pending, At, Goto, GivesUp, Verdicts

\* What may befall a message does not change on its way.
LEMMA SameFaults ==
  ASSUME IInv, [Next]_vars
  PROVE  row'.faults = row.faults
<1>1. row \in Rows
  BY DEF IInv, TypeOK
<1>2. CASE row' = row
  BY <1>2
<1>3. CASE \E new \in {"none", "pending", "sent", "parked"}, b \in BOOLEAN, n \in Nat :
              \/ row' = [row EXCEPT !.status = new]
              \/ row' = [row EXCEPT !.status = new, !.inflight = b]
              \/ row' = [row EXCEPT !.inflight = b]
              \/ row' = [row EXCEPT !.attempts = n]
  BY <1>1, <1>3 DEF Rows
<1>4. row.attempts \in Nat /\ row.attempts + 1 \in Nat /\ GivenBack \in Nat
  BY <1>1 DEF Rows, GivenBack
<1>5. CASE Attempt
  <2>1. CASE ReadPace \/ Gates \/ Pacing \/ Recheck \/ Wire
    BY <2>1, <1>2 DEF ReadPace, Gates, Pacing, Recheck, Wire
  <2>2. CASE Load \/ RecordDeferral
    BY <2>2, <1>1, <1>2, <1>3, <1>4 DEF Load, Counted, RecordDeferral, Update
  <2>3. CASE Guard \/ Classify
    BY <2>3, <1>1, <1>2, <1>3 DEF Guard, Classify, Retracted, Update
  <2>4. CASE RecordSent \/ ParkTransmitted \/ Park
    BY <2>4, <1>1, <1>2, <1>3 DEF RecordSent, Sent, ParkTransmitted, Park, Update
  <2>5. CASE Throttled \/ RecordFailure
    BY <2>5, <1>2 DEF Throttled, RecordFailure, Update
  <2> QED
    BY <1>5, <2>1, <2>2, <2>3, <2>4, <2>5 DEF Attempt
<1>6. CASE Stage \/ Start \/ Finish \/ Crash \/ Rescue \/ Scrub \/ GrowOld
  BY <1>6, <1>1, <1>2, <1>3 DEF Stage, Start, Finish, Crash, Rescue, Scrub, GrowOld
<1>7. CASE UNCHANGED vars
  BY <1>7 DEF vars
<1> QED
  BY <1>5, <1>6, <1>7 DEF Next

LEMMA LadderStep ==
  ASSUME row.faults = {}, IInv, LadderInv, [Next]_vars
  PROVE  LadderInv'
<1>1. CASE UNCHANGED vars
  BY <1>1 DEF LadderInv, Loaded, Closed, Ended, Pending, vars
<1>2. CASE Attempt
  BY <1>2, ReadPaceLadder, LoadLadder, GatesLadder, PacingLadder, RecheckLadder, GuardLadder,
     WireLadder, RecordSentLadder, ParkTransmittedLadder, ClassifyLadder, ThrottledLadder,
     ParkLadder, RecordFailureLadder, RecordDeferralLadder DEF Attempt
<1>3. CASE Stage \/ Start \/ Finish \/ Crash \/ Rescue \/ Scrub \/ GrowOld
  BY <1>3, StageLadder, StartLadder, FinishLadder, CrashLadder, RescueLadder, ScrubLadder,
     GrowOldLadder
<1> QED
  BY <1>1, <1>2, <1>3 DEF Next

\* While nothing fails on this side of the wire, no job ends with its message
\* still pending: the dispatcher's bound is reached before River's.
THEOREM NoneStranded == Spec => []NeverStranded
<1> DEFINE I == row.faults = {} => LadderInv
<1>1. Init => I
  BY DEF Init, NoAttempt, LadderInv, Loaded, Ended, Pending
<1>2. I => NeverStranded
  BY DEF LadderInv, NeverStranded
<1>3. IInv /\ I /\ [Next]_vars => I'
  BY LadderStep, SameFaults
<1> QED
  BY <1>1, <1>2, <1>3, Invariance, PTL DEF Spec

=============================================================================
