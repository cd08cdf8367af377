--------------------------- MODULE CalibrateProofs ---------------------------
(***************************************************************************)
(* What holds of the sweeps of internal/calibrate for every value of the   *)
(* constants: the ladder of steps, the floor, the rotors, the fans.  A sweep is *)
(* resumed from the record it left, so that the invariants are about records, *)
(* about what a goroutine knows at each place, and about what it has marshalled *)
(* and not yet written.                                                    *)
(***************************************************************************)
EXTENDS Calibrate, SequenceTheorems, TLAPS

(* The numbers and the ladder of steps.                                    *)

\* Integer division rounds down.
LEMMA DivFloor ==
    ASSUME NEW a \in Nat, NEW c \in Nat \ {0}
    PROVE  a \div c \in Nat /\ c * (a \div c) <= a
  OBVIOUS

\* A part of a range lies in the range.
LEMMA DivBound ==
    ASSUME NEW b \in Nat, NEW c \in Nat \ {0}, NEW k \in 0 .. c
    PROVE  (k * b) \div c \in 0 .. b
<1> DEFINE q == (k * b) \div c
<1>0. k * b \in Nat /\ c * b \in Nat
  OBVIOUS
<1>1. q \in Nat /\ c * q <= k * b
  BY <1>0, DivFloor
<1>2. k * b <= c * b
  OBVIOUS
<1> HIDE DEF q
<1>3. ~(q >= b + 1)
  <2>1. SUFFICES ASSUME q >= b + 1 PROVE FALSE
    OBVIOUS
  <2>2. c * q >= c * (b + 1)
    BY <2>1, <1>1
  <2>3. c * (b + 1) = c * b + c
    OBVIOUS
  <2> QED BY <1>0, <1>1, <1>2, <2>2, <2>3
<1>4. q \in 0 .. b
  BY <1>1, <1>3
<1> QED BY <1>4 DEF q

\* Every step of the up-ramp is a byte.
LEMMA StepIsByte ==
    ASSUME NEW min \in Byte, NEW k \in 0 .. Steps
    PROVE  StepDuty(min, k) \in Byte
<1>1. Max - min \in Nat /\ Max \in Nat
  BY CalAssumption DEF Byte, Max
<1>2. (k * (Max - min)) \div Steps \in 0 .. (Max - min)
  BY <1>1, DivBound, CalAssumption
<1> QED BY <1>1, <1>2 DEF StepDuty, Byte

\* The duties of the steps are a sequence, which grows by one with each step.
LEMMA LadderGrows ==
    ASSUME NEW min \in Byte, NEW n \in 0 .. Steps + 1
    PROVE  /\ Ladder(min, n) \in Seq(Byte)
           /\ Ladder(min, 0) = << >>
           /\ n <= Steps => Append(Ladder(min, n), StepDuty(min, n)) = Ladder(min, n + 1)
<1>0. n \in Nat /\ Steps \in Nat
  BY CalAssumption
<1>1. \A k \in 1 .. n : StepDuty(min, k - 1) \in Byte
  <2>1. SUFFICES ASSUME NEW k \in 1 .. n PROVE StepDuty(min, k - 1) \in Byte
    OBVIOUS
  <2>2. k - 1 \in 0 .. Steps
    BY <1>0
  <2> QED BY <2>2, StepIsByte
<1>2. Ladder(min, n) \in [1 .. n -> Byte]
  BY <1>1 DEF Ladder
<1>3. Ladder(min, n) \in Seq(Byte) /\ Len(Ladder(min, n)) = n
  BY <1>0, <1>2
<1>4. Ladder(min, 0) = << >>
  BY DEF Ladder
<1>5. ASSUME n <= Steps PROVE Append(Ladder(min, n), StepDuty(min, n)) = Ladder(min, n + 1)
  <2> DEFINE old == Ladder(min, n)
             d == StepDuty(min, n)
             new == Append(old, d)
  <2>1. d \in Byte
    BY <1>0, <1>5, StepIsByte
  <2>2. old \in Seq(Byte) /\ Len(old) = n /\ \A k \in 1 .. n : old[k] = StepDuty(min, k - 1)
    BY <1>3 DEF Ladder
  <2> HIDE DEF old, d
  <2>3. Len(new) = n + 1 /\ new \in Seq(Byte) /\ new[n + 1] = d /\ \A k \in 1 .. n : new[k] = old[k]
    BY <2>1, <2>2, <1>0
  <2>4. new = [k \in 1 .. n + 1 |-> new[k]]
    <3>1. new \in [1 .. Len(new) -> Byte]
      BY <2>3, LenProperties
    <3> QED BY <2>3, <3>1
  <2>5. \A k \in 1 .. n + 1 : new[k] = StepDuty(min, k - 1)
    BY <2>2, <2>3, <1>0 DEF d
  <2> HIDE DEF new
  <2>6. new = [k \in 1 .. n + 1 |-> StepDuty(min, k - 1)]
    BY <2>4, <2>5
  <2> QED BY <2>6 DEF new, old, d, Ladder
<1> QED BY <1>3, <1>4, <1>5

\* A record that is kept: the curve of a checkpoint is the ladder so far, and
\* of a finished sweep that found a fan the whole one.
WholeRecord(r) ==
    /\ r \in Result
    /\ r.partial => r.curve = Ladder(r.min, r.completed) /\ (r.down > 0 => r.completed = Steps + 1)
    /\ ~r.partial /\ ~r.aborted /\ ~r.phantom /\ r.start > 0 => r.curve = Ladder(r.min, Steps + 1)

\* No record is whole.
LEMMA BlankIsWhole == WholeRecord(Blank)
  BY CalAssumption DEF WholeRecord, Blank, Result, Byte, Max

\* So is the checkpoint of a sweep whose curve is the ladder so far, ...
LEMMA SnapshotIsWhole ==
    ASSUME NEW s \in Sweep, NEW down \in Byte, NEW completed \in 0 .. Steps + 1,
           s.curve = Ladder(s.min, completed), down > 0 => completed = Steps + 1
    PROVE  WholeRecord(Snapshot(s, down, completed))
  BY DEF WholeRecord, Snapshot, Result, Sweep

\* What a final record holds.
LEMMA FinalFields ==
    ASSUME NEW s \in Sweep
    PROVE  /\ Final(s) \in Result /\ ~Final(s).partial /\ ~Final(s).aborted /\ ~Final(s).phantom
           /\ Final(s).start = s.start /\ Final(s).curve = s.curve /\ Final(s).min = s.min
           /\ Final(s).stop = s.stop
<1>1. 0 \in Byte /\ 0 \in 0 .. Steps + 1
  BY CalAssumption DEF Byte, Max
<1>2. Snapshot(s, 0, 0) \in Result
  BY <1>1 DEF Snapshot, Sweep, Result
<1>3. Final(s) \in Result
  BY <1>2 DEF Final, Result
<1>4. /\ Snapshot(s, 0, 0).start = s.start /\ Snapshot(s, 0, 0).curve = s.curve
      /\ Snapshot(s, 0, 0).min = s.min /\ Snapshot(s, 0, 0).stop = s.stop
      /\ ~Snapshot(s, 0, 0).aborted /\ ~Snapshot(s, 0, 0).phantom
  BY DEF Snapshot
<1> QED BY <1>2, <1>3, <1>4 DEF Final, Result

\* ... the record of a fan with no tach, ...
LEMMA PhantomIsWhole ==
    ASSUME NEW s \in Sweep
    PROVE  WholeRecord(Phantom(s)) /\ Phantom(s).stop = s.stop /\ Phantom(s).start = s.start /\ ~Phantom(s).partial
  BY FinalFields DEF Phantom, Result, WholeRecord

\* ... and the record of an aborted sweep.
LEMMA MarkedIsWhole ==
    ASSUME NEW r \in Result
    PROVE  WholeRecord(MarkAborted(r)) /\ MarkAborted(r).stop = r.stop /\ MarkAborted(r).start = r.start
           /\ ~MarkAborted(r).partial
<1>1. 0 \in Byte /\ 0 \in 0 .. Steps + 1
  BY CalAssumption DEF Byte, Max
<1> QED BY <1>1 DEF MarkAborted, Result, WholeRecord

\* Where a sweep stands: where it goes on from, while it saves.
Stage(s) == IF s.pc = "save" THEN s.after ELSE s.pc

\* What a sweep knows at each place: its curve is the ladder so far, it descends
\* only from a whole ladder, and it has found no fan only if none started.
GoodAt(s, at) ==
    /\ at = "launched" => s.noFan = 0
    /\ at \in {"step", "set", "hold", "down", "fall"} =>
         /\ s.curve = Ladder(s.min, s.step) /\ (s.p > 0 => s.step = Steps + 1)
         /\ s.noFan > 0 => s.start = 0
    /\ at \in {"set", "hold"} => s.step <= Steps /\ s.noFan < NoFanSteps
    /\ at \in {"down", "fall"} => s.step = Steps + 1 \/ s.start = 0
    /\ at = "fall" => s.p > 0

\* A sweep, its record and the records it is about to write.
GoodSweep(s) ==
    /\ s \in Sweep /\ WholeRecord(s.res) /\ \A f \in SweptFan : WholeRecord(s.out[f])
    /\ s.pc = "save" => s.after \in {"step", "down", "close"}
    /\ GoodAt(s, Stage(s))

\* Every sweep is good.
SweepsOK == sweep \in [Slot -> Sweep] /\ \A g \in Slot : GoodSweep(sweep[g])

\* Every record, in memory and in the file, is whole.
RecordsOK ==
    /\ results \in [SweptFan -> Result] /\ stored \in [SweptFan -> Result]
    /\ \A f \in SweptFan : WholeRecord(results[f]) /\ WholeRecord(stored[f])

\* The types of the rest of the state.
RestOK ==
    /\ rotor \in [SweptFan -> RotorStarts] /\ spin \in [SweptFan -> BOOLEAN]
    /\ duty \in [SweptFan -> Byte]
    /\ runs \in [SweptFan -> Slot \cup {Nobody}]
    /\ waiting \in [SweptFan -> Slot \cup {Nobody}]
    /\ aborting \in [SweptFan -> BOOLEAN] /\ lost \in 0 .. MaxLost

\* The inductive invariant of the curves.
WholeInv == RestOK /\ SweepsOK /\ RecordsOK

\* A sweep that has been requested is good, ...
LEMMA FreshIsGood ==
    ASSUME NEW f \in SweptFan, NEW k \in {"start", "sync"}, NEW m \in Byte
    PROVE  GoodSweep(Fresh(f, k, m))
<1>1. 0 \in Byte /\ 0 \in 0 .. Steps + 1 /\ 0 \in -1 .. Max /\ 0 \in 0 .. NoFanSteps /\ << >> \in Seq(Byte)
  BY CalAssumption DEF Byte, Max
<1>2. Blank \in Result /\ [h \in SweptFan |-> Blank] \in [SweptFan -> Result]
  BY BlankIsWhole DEF WholeRecord
<1>3. Fresh(f, k, m) \in Sweep
  BY <1>1, <1>2 DEF Fresh, Sweep, Place
<1> QED BY <1>3, BlankIsWhole DEF GoodSweep, GoodAt, Stage, Fresh

\* ... and so is a slot without one.
LEMMA NoSweepIsGood ==
    GoodSweep(NoSweep) /\ NoSweep.pc = "free" /\ NoSweep.out = [h \in SweptFan |-> Blank] /\ ~NoSweep.armed
<1> DEFINE s == Fresh(CHOOSE f \in SweptFan : TRUE, "start", 0)
<1>1. (CHOOSE f \in SweptFan : TRUE) \in SweptFan /\ 0 \in Byte
  BY CalAssumption DEF Byte, Max
<1>2. GoodSweep(s)
  BY <1>1, FreshIsGood
<1>3. s.out = [h \in SweptFan |-> Blank] /\ ~s.armed
  BY DEF Fresh
<1>4. NoSweep = [s EXCEPT !.pc = "free"]
  BY DEF NoSweep
<1>5. s \in Sweep
  BY <1>2 DEF GoodSweep
<1> HIDE DEF s
<1>6. NoSweep \in Sweep /\ NoSweep.pc = "free" /\ NoSweep.out = s.out /\ NoSweep.res = s.res /\ NoSweep.armed = s.armed
  BY <1>4, <1>5 DEF Sweep, Place
<1> QED BY <1>2, <1>3, <1>6 DEF GoodSweep, GoodAt, Stage

\* A slot that becomes good leaves all of them good.
LEMMA BecomesKeeps ==
    ASSUME SweepsOK, NEW g \in Slot, NEW s, GoodSweep(s), Becomes(g, s)
    PROVE  SweepsOK'
<1>1. sweep' = [sweep EXCEPT ![g] = s] /\ s \in Sweep
  BY DEF Becomes, GoodSweep
<1>2. \A h \in Slot : sweep'[h] = IF h = g THEN s ELSE sweep[h]
  BY <1>1 DEF SweepsOK
<1>3. sweep' \in [Slot -> Sweep]
  BY <1>1 DEF SweepsOK
<1> QED BY <1>2, <1>3 DEF SweepsOK, GoodSweep, GoodAt, Stage

\* A sweep that returns a whole record stays good.
LEMMA ReturnsKeeps ==
    ASSUME SweepsOK, NEW g \in Slot, NEW r, WholeRecord(r), NEW failed \in BOOLEAN,
           Returns(g, r, failed)
    PROVE  SweepsOK'
<1> DEFINE s == sweep[g]
           t == [s EXCEPT !.pc = "cleanup", !.res = r, !.failed = failed]
<1>1. s \in Sweep /\ GoodSweep(s) /\ r \in Result /\ Becomes(g, t)
  BY DEF SweepsOK, WholeRecord, Returns
<1> HIDE DEF s
<1>2. t \in Sweep /\ t.pc = "cleanup" /\ t.res = r /\ t.out = s.out
  BY <1>1 DEF Sweep, Place
<1>3. GoodSweep(t)
  BY <1>1, <1>2 DEF GoodSweep, GoodAt, Stage
<1> QED BY <1>1, <1>3, BecomesKeeps

\* A sweep that checkpoints a whole record stays good, and so do the records.
LEMMA SavesKeeps ==
    ASSUME SweepsOK, RecordsOK, NEW g \in Slot, NEW s \in Sweep, NEW r, WholeRecord(r),
           NEW next \in {"step", "down", "close"}, WholeRecord(s.res), GoodAt(s, next),
           Saves(g, s, r, next), UNCHANGED stored
    PROVE  SweepsOK' /\ RecordsOK'
<1> DEFINE t == [s EXCEPT !.pc = "save", !.out = results', !.after = next]
<1>1. r \in Result /\ results' = [results EXCEPT ![s.fan] = r] /\ s.fan \in SweptFan /\ Becomes(g, t)
  BY DEF WholeRecord, Saves, Sweep
<1>2. results' \in [SweptFan -> Result] /\ \A f \in SweptFan : WholeRecord(results'[f])
  BY <1>1 DEF RecordsOK
<1>3. /\ t \in Sweep /\ t.pc = "save" /\ t.res = s.res /\ t.out = results' /\ t.after = next
      /\ t.curve = s.curve /\ t.min = s.min /\ t.step = s.step /\ t.p = s.p /\ t.start = s.start
      /\ t.noFan = s.noFan
  BY <1>2 DEF Sweep, Place
<1> HIDE DEF t
<1>4. GoodSweep(t)
  BY <1>2, <1>3 DEF GoodSweep, GoodAt, Stage
<1>5. RecordsOK'
  BY <1>2 DEF RecordsOK
<1> QED BY <1>1, <1>4, <1>5, BecomesKeeps

\* What is known of a sweep.
LEMMA SweepAt ==
    ASSUME SweepsOK, NEW g \in Slot
    PROVE  /\ sweep[g] \in Sweep /\ GoodSweep(sweep[g]) /\ WholeRecord(sweep[g].res)
           /\ sweep[g].fan \in SweptFan /\ sweep[g].min \in Byte
           /\ sweep[g].step \in 0 .. Steps + 1 /\ sweep[g].start \in Byte
           /\ sweep[g].p \in -1 .. Max /\ sweep[g].noFan \in 0 .. NoFanSteps
           /\ sweep[g].pc # "save" => GoodAt(sweep[g], sweep[g].pc)
  BY DEF SweepsOK, GoodSweep, Sweep, Stage

\* What the assumption says of the numbers.
LEMMA NumbersOK == /\ 0 \in Byte /\ Max \in Byte /\ Steps \in Nat /\ Steps > 0 /\ Max \in Nat /\ Max >= 2
                   /\ NoFanSteps \in Nat /\ NoFanSteps > 0
                   /\ Steps + 1 \in 0 .. Steps + 1 /\ 0 \in 0 .. Steps + 1
  BY CalAssumption DEF Byte, Max

\* A sweep that resumes goes on with the ladder of the checkpoint.
LEMMA BeginKeeps ==
    ASSUME WholeInv, NEW g \in Slot, Begin(g)
    PROVE  SweepsOK'
<1> DEFINE s == sweep[g]
           prev == results[s.fan]
           from == IF Resumes(prev, s.min) THEN prev ELSE Blank
           t == [s EXCEPT !.pc = "step", !.running = TRUE, !.step = from.completed, !.p = from.down,
                          !.start = from.start, !.curve = from.curve]
<1>1. s \in Sweep /\ GoodSweep(s) /\ s.pc = "launched" /\ GoodAt(s, "launched") /\ s.fan \in SweptFan /\ s.min \in Byte
  BY SweepAt DEF WholeInv, Begin
<1>2. Becomes(g, t)
  BY DEF Begin
<1>3. from \in Result /\ (from.down > 0 => from.completed = Steps + 1)
      /\ from.curve = Ladder(s.min, from.completed)
  <2>1. CASE Resumes(prev, s.min)
    <3>1. WholeRecord(prev) /\ prev.partial /\ prev.min = s.min
      BY <2>1, <1>1 DEF WholeInv, RecordsOK, Resumes
    <3> QED BY <2>1, <3>1 DEF WholeRecord
  <2>2. CASE ~Resumes(prev, s.min)
    <3>1. from = Blank /\ Blank.down = 0 /\ Blank.completed = 0 /\ Blank.curve = << >>
      BY <2>2 DEF Blank
    <3>2. Ladder(s.min, 0) = << >>
      BY <1>1, LadderGrows, NumbersOK
    <3>3. from.curve = Ladder(s.min, from.completed) /\ ~(from.down > 0)
      BY <3>1, <3>2
    <3> QED BY <3>1, <3>3, BlankIsWhole DEF WholeRecord
  <2> QED BY <2>1, <2>2
<1> HIDE DEF s, from, prev
<1>5. /\ t \in Sweep /\ t.pc = "step" /\ t.res = s.res /\ t.out = s.out /\ t.curve = from.curve
      /\ t.min = s.min /\ t.step = from.completed /\ t.p = from.down /\ t.noFan = s.noFan
  <2>1. from.down \in -1 .. Max
    BY <1>3, NumbersOK DEF Result, Byte
  <2> QED BY <1>1, <1>3, <2>1 DEF Sweep, Place, Result
<1>6. s.noFan = 0
  BY <1>1 DEF GoodAt
<1>7. GoodSweep(t)
  BY <1>1, <1>3, <1>5, <1>6 DEF GoodSweep, GoodAt, Stage
<1> QED BY <1>2, <1>7, BecomesKeeps DEF WholeInv

\* The write of a step keeps it, ...
LEMMA ClimbKeeps ==
    ASSUME WholeInv, NEW g \in Slot, Climb(g)
    PROVE  SweepsOK' /\ duty' \in [SweptFan -> Byte]
<1> DEFINE s == sweep[g]
           t == [s EXCEPT !.pc = "set"]
<1>1. /\ s \in Sweep /\ GoodSweep(s) /\ s.pc = "step" /\ GoodAt(s, "step") /\ ~Climbed(s)
      /\ s.fan \in SweptFan /\ s.min \in Byte /\ s.step \in 0 .. Steps /\ s.noFan < NoFanSteps
  BY SweepAt, NumbersOK DEF WholeInv, Climb, Climbed
<1>2. WholeRecord(Snapshot(s, 0, s.step))
  BY <1>1, SnapshotIsWhole, NumbersOK DEF GoodAt
<1>3. StepDuty(s.min, s.step) \in Byte
  BY <1>1, StepIsByte
<1>4. \/ Returns(g, Snapshot(s, 0, s.step), TRUE) /\ UNCHANGED fans
      \/ Commands(s.fan, StepDuty(s.min, s.step)) /\ Becomes(g, t)
  BY DEF Climb
<1> HIDE DEF s
<1>5. GoodSweep(t)
  <2>1. /\ t \in Sweep /\ t.pc = "set" /\ t.res = s.res /\ t.out = s.out /\ t.curve = s.curve
        /\ t.min = s.min /\ t.step = s.step /\ t.p = s.p /\ t.noFan = s.noFan /\ t.start = s.start
    BY <1>1 DEF Sweep, Place
  <2> QED BY <2>1, <1>1 DEF GoodSweep, GoodAt, Stage
<1>6. duty \in [SweptFan -> Byte]
  BY DEF WholeInv, RestOK
<1> QED BY <1>1, <1>2, <1>3, <1>4, <1>5, <1>6, ReturnsKeeps, BecomesKeeps DEF Commands, fans, WholeInv

\* ... as does the sentinel, ...
LEMMA SetKeeps ==
    ASSUME WholeInv, NEW g \in Slot, SetSentinel(g)
    PROVE  SweepsOK'
<1> DEFINE s == sweep[g]
<1>0. PICK b \in BOOLEAN : Becomes(g, [s EXCEPT !.pc = "hold", !.armed = b]) /\ s.pc = "set"
  BY DEF SetSentinel
<1> DEFINE t == [s EXCEPT !.pc = "hold", !.armed = b]
<1>1. s \in Sweep /\ GoodSweep(s) /\ GoodAt(s, "set")
  BY <1>0, SweepAt DEF WholeInv
<1> HIDE DEF s
<1>2. /\ t \in Sweep /\ t.pc = "hold" /\ t.res = s.res /\ t.out = s.out /\ t.curve = s.curve
      /\ t.min = s.min /\ t.step = s.step /\ t.p = s.p /\ t.noFan = s.noFan /\ t.start = s.start
  BY <1>1 DEF Sweep, Place
<1>3. GoodSweep(t)
  BY <1>1, <1>2 DEF GoodSweep, GoodAt, Stage
<1> QED BY <1>0, <1>3, BecomesKeeps DEF WholeInv

\* Sweep s after it has sampled the tach of its fan, which read rpm.
Sampled(s, rpm) ==
    LET d == StepDuty(s.min, s.step)
        start == IF rpm /\ s.start = 0 THEN d ELSE s.start
    IN  [s EXCEPT !.start = start, !.curve = Append(@, d), !.step = @ + 1,
                  !.noFan = IF start = 0 /\ d >= Max \div 2 THEN @ + 1 ELSE 0]

\* What sampling changes: the ladder grows by the step, and its first spinning duty
\* is the start duty.
LEMMA SampledFields ==
    ASSUME NEW s \in Sweep, GoodAt(s, "hold"), NEW rpm \in BOOLEAN
    PROVE  LET t == Sampled(s, rpm)
               d == StepDuty(s.min, s.step)
           IN  /\ d \in Byte /\ t \in Sweep
               /\ t.curve = Ladder(t.min, t.step) /\ t.step = s.step + 1 /\ t.step \in 0 .. Steps + 1
               /\ t.start = IF rpm /\ s.start = 0 THEN d ELSE s.start
               /\ (t.noFan > 0 => t.start = 0) /\ (d = 0 => t.noFan = 0)
               /\ t.min = s.min /\ t.p = s.p /\ ~(t.p > 0) /\ t.stop = s.stop /\ t.armed = s.armed
               /\ t.res = s.res /\ t.out = s.out /\ t.fan = s.fan /\ t.kind = s.kind
               /\ t.cancelled = s.cancelled /\ t.failed = s.failed
<1> DEFINE d == StepDuty(s.min, s.step)
           start == IF rpm /\ s.start = 0 THEN d ELSE s.start
           misses == IF start = 0 /\ d >= Max \div 2 THEN s.noFan + 1 ELSE 0
           t == [s EXCEPT !.start = start, !.curve = Append(s.curve, d), !.step = s.step + 1, !.noFan = misses]
<1>1. /\ s.min \in Byte /\ s.step \in 0 .. Steps /\ s.step \in 0 .. Steps + 1 /\ s.step + 1 \in 0 .. Steps + 1
      /\ s.noFan < NoFanSteps /\ s.noFan \in Nat /\ s.start \in Byte /\ s.curve = Ladder(s.min, s.step)
      /\ ~(s.p > 0) /\ s.step <= Steps
  BY NumbersOK DEF GoodAt, Sweep
<1>2. d \in Byte /\ start \in Byte
  BY <1>1, StepIsByte
<1>3. Append(s.curve, d) = Ladder(s.min, s.step + 1) /\ Append(s.curve, d) \in Seq(Byte)
  BY <1>1, LadderGrows
<1>4. misses \in 0 .. NoFanSteps /\ (misses > 0 => start = 0) /\ (d = 0 => misses = 0)
  <2>1. Max \div 2 >= 1
    BY NumbersOK
  <2> HIDE DEF start, d
  <2> QED BY <1>1, <1>2, <2>1, NumbersOK DEF Byte
<1>5. Sampled(s, rpm) = t
  BY DEF Sampled, Sweep
<1> HIDE DEF d, start, misses
<1>6. /\ t \in Sweep /\ t.curve = Append(s.curve, d) /\ t.step = s.step + 1 /\ t.start = start
      /\ t.noFan = misses /\ t.min = s.min /\ t.p = s.p /\ t.stop = s.stop /\ t.armed = s.armed
      /\ t.res = s.res /\ t.out = s.out /\ t.fan = s.fan /\ t.kind = s.kind
      /\ t.cancelled = s.cancelled /\ t.failed = s.failed
  BY <1>1, <1>2, <1>3, <1>4 DEF Sweep
<1> HIDE DEF t
<1> QED BY <1>1, <1>2, <1>3, <1>4, <1>5, <1>6 DEF d, start

\* ... the sample, which grows the ladder, ...
LEMMA SampleKeeps ==
    ASSUME WholeInv, NEW g \in Slot, Sample(g)
    PROVE  SweepsOK' /\ RecordsOK'
<1> DEFINE s == sweep[g]
<1>0. PICK rpm \in BOOLEAN : rpm = Settled(s.fan, duty[s.fan])
  BY DEF Settled, WholeInv, RestOK
<1> DEFINE t == Sampled(s, rpm)
<1>1. s \in Sweep /\ GoodSweep(s) /\ GoodAt(s, "hold")
  BY SweepAt DEF WholeInv, Sample
<1>2. Saves(g, t, Snapshot(t, 0, t.step), "step") /\ UNCHANGED stored
  BY <1>0 DEF Sample, Sampled
<1> HIDE DEF s
<1>3. /\ t \in Sweep /\ t.curve = Ladder(t.min, t.step) /\ t.step \in 0 .. Steps + 1
      /\ ~(t.p > 0) /\ (t.noFan > 0 => t.start = 0) /\ t.res = s.res
  BY <1>1, SampledFields
<1> HIDE DEF t
<1>4. WholeRecord(Snapshot(t, 0, t.step))
  BY <1>3, SnapshotIsWhole, NumbersOK
<1>5. GoodAt(t, "step") /\ WholeRecord(t.res)
  BY <1>1, <1>3 DEF GoodAt, GoodSweep
<1> QED BY <1>2, <1>3, <1>4, <1>5, SavesKeeps DEF WholeInv

\* ... an interrupted hold, ...
LEMMA HoldEndsKeeps ==
    ASSUME WholeInv, NEW g \in Slot, HoldEnds(g)
    PROVE  SweepsOK'
<1> DEFINE s == sweep[g]
<1>1. s \in Sweep /\ s.pc = "hold" /\ GoodAt(s, "hold") /\ s.step \in 0 .. Steps + 1
  BY SweepAt DEF WholeInv, HoldEnds
<1>2. WholeRecord(Snapshot(s, 0, s.step)) /\ WholeRecord(Phantom(s))
  BY <1>1, SnapshotIsWhole, PhantomIsWhole, NumbersOK DEF GoodAt
<1>3. \/ Returns(g, Snapshot(s, 0, s.step), TRUE)
      \/ Returns(g, Phantom(s), FALSE)
  BY DEF HoldEnds
<1> QED BY <1>2, <1>3, ReturnsKeeps DEF WholeInv

\* ... the write of the file, ...
LEMMA SaveKeeps ==
    ASSUME WholeInv, NEW g \in Slot, Save(g)
    PROVE  SweepsOK' /\ RecordsOK'
<1> DEFINE s == sweep[g]
           t == [s EXCEPT !.pc = s.after, !.out = NoSweep.out, !.after = "free"]
<1>1. /\ s \in Sweep /\ GoodSweep(s) /\ s.pc = "save" /\ s.after \in {"step", "down", "close"}
      /\ GoodAt(s, s.after)
  BY SweepAt DEF WholeInv, Save, GoodSweep, Stage
<1>2. Becomes(g, t) /\ stored' \in {s.out, stored} /\ results' = results
  BY DEF Save
<1> HIDE DEF s
<1>3. NoSweep.out \in [SweptFan -> Result] /\ \A f \in SweptFan : WholeRecord(NoSweep.out[f])
  BY NoSweepIsGood DEF GoodSweep, Sweep
<1>4. /\ t \in Sweep /\ t.pc = s.after /\ t.res = s.res /\ t.out = NoSweep.out /\ t.curve = s.curve
      /\ t.min = s.min /\ t.step = s.step /\ t.p = s.p /\ t.noFan = s.noFan /\ t.start = s.start
  BY <1>1, <1>3 DEF Sweep, Place
<1>5. GoodSweep(t)
  BY <1>1, <1>3, <1>4 DEF GoodSweep, GoodAt, Stage
<1>6. s.out \in [SweptFan -> Result] /\ \A f \in SweptFan : WholeRecord(s.out[f])
  BY <1>1 DEF GoodSweep, Sweep
<1>7. RecordsOK'
  BY <1>2, <1>6 DEF WholeInv, RecordsOK
<1> QED BY <1>2, <1>5, <1>7, BecomesKeeps DEF WholeInv

\* ... and the turn, at the end of the ladder or when no fan was found.
LEMMA TurnKeeps ==
    ASSUME WholeInv, NEW g \in Slot, Turn(g)
    PROVE  SweepsOK'
<1> DEFINE s == sweep[g]
           q == IF s.p > 0 THEN s.p - 2 ELSE s.start
           t == [s EXCEPT !.pc = "down", !.p = q]
<1>1. /\ s \in Sweep /\ GoodSweep(s) /\ s.pc = "step" /\ GoodAt(s, "step") /\ Climbed(s)
      /\ s.p \in -1 .. Max /\ s.start \in Byte /\ s.step \in 0 .. Steps + 1
  BY SweepAt DEF WholeInv, Turn
<1>2. Becomes(g, t)
  BY DEF Turn
<1>3. s.step = Steps + 1 \/ s.start = 0
  BY <1>1, NumbersOK DEF Climbed, GoodAt
<1>4. q \in -1 .. Max /\ (q > 0 => s.step = Steps + 1)
  BY <1>1, <1>3, NumbersOK DEF GoodAt, Byte
<1> HIDE DEF s, q
<1>5. /\ t \in Sweep /\ t.pc = "down" /\ t.res = s.res /\ t.out = s.out /\ t.curve = s.curve
      /\ t.min = s.min /\ t.step = s.step /\ t.p = q /\ t.noFan = s.noFan /\ t.start = s.start
  BY <1>1, <1>4 DEF Sweep, Place
<1>6. GoodSweep(t)
  BY <1>1, <1>3, <1>4, <1>5 DEF GoodSweep, GoodAt, Stage
<1> QED BY <1>2, <1>6, BecomesKeeps DEF WholeInv

\* The record of a descent that has ended is whole.
LEMMA FinalIsWhole ==
    ASSUME NEW s \in Sweep, NEW at \in {"down", "fall"}, GoodAt(s, at)
    PROVE  WholeRecord(Final(s))
  BY FinalFields DEF GoodAt, WholeRecord, Sweep

\* So is the checkpoint of one that goes on.
LEMMA DescentIsWhole ==
    ASSUME NEW s \in Sweep, NEW at \in {"down", "fall"}, GoodAt(s, at), s.p > 0
    PROVE  s.p \in Byte /\ WholeRecord(Snapshot(s, s.p, Steps + 1))
<1>1. s.p \in Byte
  BY NumbersOK DEF Sweep, Byte
<1>2. s.curve = Ladder(s.min, Steps + 1)
  BY DEF GoodAt
<1> QED BY <1>1, <1>2, SnapshotIsWhole, NumbersOK

\* The descent keeps it, ...
LEMMA DescendKeeps ==
    ASSUME WholeInv, NEW g \in Slot, Descend(g)
    PROVE  SweepsOK' /\ duty' \in [SweptFan -> Byte]
<1> DEFINE s == sweep[g]
           t == [s EXCEPT !.pc = "fall"]
<1>1. s \in Sweep /\ GoodSweep(s) /\ s.pc = "down" /\ GoodAt(s, "down") /\ s.fan \in SweptFan /\ s.p \in -1 .. Max
  BY SweepAt DEF WholeInv, Descend
<1>2. \/ Returns(g, Final(s), FALSE) /\ UNCHANGED fans
      \/ s.p > 0 /\ Returns(g, Snapshot(s, s.p, Steps + 1), TRUE) /\ UNCHANGED fans
      \/ s.p > 0 /\ Commands(s.fan, s.p) /\ Becomes(g, t)
  <2>1. s.p <= 0 \/ s.p > 0
    BY <1>1, NumbersOK
  <2>2. CASE s.p <= 0
    BY <2>2 DEF Descend
  <2>3. CASE s.p > 0
    <3>1. ~(s.p <= 0)
      BY <1>1, <2>3, NumbersOK
    <3> QED BY <2>3, <3>1 DEF Descend
  <2> QED BY <2>1, <2>2, <2>3
<1>3. duty \in [SweptFan -> Byte]
  BY DEF WholeInv, RestOK
<1> HIDE DEF s
<1>4. CASE Returns(g, Final(s), FALSE) /\ UNCHANGED fans
  BY <1>1, <1>3, <1>4, FinalIsWhole, ReturnsKeeps DEF WholeInv, fans
<1>5. CASE s.p > 0 /\ Returns(g, Snapshot(s, s.p, Steps + 1), TRUE) /\ UNCHANGED fans
  BY <1>1, <1>3, <1>5, DescentIsWhole, ReturnsKeeps DEF WholeInv, fans
<1>6. CASE s.p > 0 /\ Commands(s.fan, s.p) /\ Becomes(g, t)
  <2>1. s.p \in Byte
    BY <1>1, <1>6, DescentIsWhole
  <2>2. /\ t \in Sweep /\ t.pc = "fall" /\ t.res = s.res /\ t.out = s.out /\ t.curve = s.curve
        /\ t.min = s.min /\ t.step = s.step /\ t.p = s.p /\ t.noFan = s.noFan /\ t.start = s.start
    BY <1>1 DEF Sweep, Place
  <2>3. GoodSweep(t)
    BY <1>1, <1>6, <2>2 DEF GoodSweep, GoodAt, Stage
  <2> QED BY <1>1, <1>3, <1>6, <2>1, <2>3, BecomesKeeps DEF WholeInv, Commands
<1> QED BY <1>2, <1>4, <1>5, <1>6

\* The stop duty is a byte.
LEMMA StopIsByte ==
    ASSUME NEW p \in Byte
    PROVE  StopDuty(p) \in Byte /\ (p + 2 <= Max => StopDuty(p) = p + 2)
  BY CalAssumption DEF StopDuty, Byte, Max

\* ... when the fan stalls, ...
LEMMA StallsKeeps ==
    ASSUME WholeInv, NEW g \in Slot, Stalls(g)
    PROVE  SweepsOK'
<1> DEFINE s == sweep[g]
           t == [s EXCEPT !.stop = StopDuty(s.p)]
<1>1. s \in Sweep /\ GoodAt(s, "fall") /\ s.p > 0
  BY SweepAt DEF WholeInv, Stalls, GoodAt
<1>2. Returns(g, Final(t), FALSE)
  BY DEF Stalls
<1> HIDE DEF s
<1>3. s.p \in Byte
  BY <1>1, DescentIsWhole
<1>4. StopDuty(s.p) \in Byte
  BY <1>3, StopIsByte
<1>5. /\ t \in Sweep /\ t.curve = s.curve /\ t.min = s.min /\ t.step = s.step /\ t.p = s.p
      /\ t.noFan = s.noFan /\ t.start = s.start
  BY <1>1, <1>4 DEF Sweep
<1>6. GoodAt(t, "fall")
  BY <1>1, <1>5 DEF GoodAt
<1> HIDE DEF t
<1> QED BY <1>2, <1>5, <1>6, FinalIsWhole, ReturnsKeeps DEF WholeInv

\* ... when it goes on, ...
LEMMA GoesOnKeeps ==
    ASSUME WholeInv, NEW g \in Slot, GoesOn(g)
    PROVE  SweepsOK' /\ RecordsOK'
<1> DEFINE s == sweep[g]
           t == [s EXCEPT !.p = @ - 2]
<1>1. s \in Sweep /\ GoodSweep(s) /\ GoodAt(s, "fall") /\ s.p > 0 /\ s.p \in -1 .. Max
  BY SweepAt DEF WholeInv, GoesOn, GoodAt
<1>2. Saves(g, t, Snapshot(s, s.p, Steps + 1), "down") /\ UNCHANGED stored
  BY DEF GoesOn
<1> HIDE DEF s
<1>3. WholeRecord(Snapshot(s, s.p, Steps + 1))
  BY <1>1, DescentIsWhole
<1>4. s.p - 2 \in -1 .. Max /\ (s.p - 2 > 0 => s.p > 0)
  BY <1>1, NumbersOK
<1>5. /\ t \in Sweep /\ t.res = s.res /\ t.curve = s.curve /\ t.min = s.min /\ t.step = s.step
      /\ t.p = s.p - 2 /\ t.noFan = s.noFan /\ t.start = s.start
  BY <1>1, <1>4 DEF Sweep
<1>6. GoodAt(t, "down") /\ WholeRecord(t.res)
  BY <1>1, <1>4, <1>5 DEF GoodAt, GoodSweep
<1> HIDE DEF t
<1> QED BY <1>2, <1>3, <1>5, <1>6, SavesKeeps DEF WholeInv

\* ... and when the hold is interrupted.
LEMMA FallEndsKeeps ==
    ASSUME WholeInv, NEW g \in Slot, FallEnds(g)
    PROVE  SweepsOK'
<1> DEFINE s == sweep[g]
<1>1. s \in Sweep /\ GoodAt(s, "fall") /\ s.p > 0
  BY SweepAt DEF WholeInv, FallEnds, GoodAt
<1>2. Returns(g, Snapshot(s, s.p, Steps + 1), TRUE)
  BY DEF FallEnds
<1> HIDE DEF s
<1> QED BY <1>1, <1>2, DescentIsWhole, ReturnsKeeps DEF WholeInv

\* What run and RunSync keep is whole.
LEMMA KeepKeeps ==
    ASSUME WholeInv, NEW g \in Slot, Keep(g)
    PROVE  SweepsOK' /\ RecordsOK'
<1> DEFINE s == sweep[g]
           aborted == s.cancelled /\ (s.kind = "start" \/ s.failed)
           r == IF aborted THEN MarkAborted(s.res) ELSE s.res
           t == [s EXCEPT !.pc = "close"]
<1>1. s \in Sweep /\ GoodSweep(s) /\ WholeRecord(s.res)
  BY SweepAt DEF WholeInv
<1>2. UNCHANGED stored /\ ((Becomes(g, t) /\ UNCHANGED results) \/ Saves(g, s, r, "close"))
  BY DEF Keep
<1>3. WholeRecord(r)
  BY <1>1, MarkedIsWhole DEF WholeRecord
<1> HIDE DEF s, r
<1>4. GoodSweep(t)
  <2>1. t \in Sweep /\ t.pc = "close" /\ t.res = s.res /\ t.out = s.out
    BY <1>1 DEF Sweep, Place
  <2> QED BY <1>1, <2>1 DEF GoodSweep, GoodAt, Stage
<1>5. GoodAt(s, "close")
  BY DEF GoodAt
<1> QED BY <1>1, <1>2, <1>3, <1>4, <1>5, BecomesKeeps, SavesKeeps DEF WholeInv, RecordsOK

\* The steps that leave a sweep's curve and place alone, or end it.
LEMMA PlainKeeps ==
    ASSUME WholeInv, NEW g \in Slot,
           Unresolved(g) \/ Cleanup(g) \/ StopSentinel(g) \/ Escalate(g) \/ Close(g)
    PROVE  SweepsOK'
<1> DEFINE s == sweep[g]
<1>1. s \in Sweep /\ GoodSweep(s)
  BY SweepAt DEF WholeInv
<1>2. CASE Unresolved(g)
  <2> DEFINE t == [s EXCEPT !.pc = "tail", !.failed = TRUE]
  <2>1. Becomes(g, t)
    BY <1>2 DEF Unresolved
  <2> HIDE DEF s
  <2>2. t \in Sweep /\ t.pc = "tail" /\ t.res = s.res /\ t.out = s.out
    BY <1>1 DEF Sweep, Place
  <2>3. GoodSweep(t)
    BY <1>1, <2>2 DEF GoodSweep, GoodAt, Stage
  <2> QED BY <2>1, <2>3, BecomesKeeps DEF WholeInv
<1>3. CASE Cleanup(g)
  <2> DEFINE t == [s EXCEPT !.pc = "stopping", !.running = FALSE]
  <2>1. Becomes(g, t)
    BY <1>3 DEF Cleanup
  <2> HIDE DEF s
  <2>2. t \in Sweep /\ t.pc = "stopping" /\ t.res = s.res /\ t.out = s.out
    BY <1>1 DEF Sweep, Place
  <2>3. GoodSweep(t)
    BY <1>1, <2>2 DEF GoodSweep, GoodAt, Stage
  <2> QED BY <2>1, <2>3, BecomesKeeps DEF WholeInv
<1>4. CASE StopSentinel(g)
  <2> DEFINE t == [s EXCEPT !.pc = "tail", !.armed = FALSE]
  <2>1. Becomes(g, t)
    BY <1>4 DEF StopSentinel
  <2> HIDE DEF s
  <2>2. t \in Sweep /\ t.pc = "tail" /\ t.res = s.res /\ t.out = s.out
    BY <1>1 DEF Sweep, Place
  <2>3. GoodSweep(t)
    BY <1>1, <2>2 DEF GoodSweep, GoodAt, Stage
  <2> QED BY <2>1, <2>3, BecomesKeeps DEF WholeInv
<1>5. CASE Escalate(g)
  <2> DEFINE t == [s EXCEPT !.armed = FALSE]
  <2>1. Becomes(g, t)
    BY <1>5 DEF Escalate
  <2> HIDE DEF s
  <2>2. /\ t \in Sweep /\ t.pc = s.pc /\ t.after = s.after /\ t.res = s.res /\ t.out = s.out
        /\ t.curve = s.curve /\ t.min = s.min /\ t.step = s.step /\ t.p = s.p /\ t.noFan = s.noFan
        /\ t.start = s.start
    BY <1>1 DEF Sweep, Place
  <2>3. GoodSweep(t)
    BY <1>1, <2>2 DEF GoodSweep, GoodAt, Stage
  <2> QED BY <2>1, <2>3, BecomesKeeps DEF WholeInv
<1>6. CASE Close(g)
  BY <1>6, NoSweepIsGood, BecomesKeeps DEF Close, Closes, WholeInv
<1> QED BY <1>2, <1>3, <1>4, <1>5, <1>6

\* An abort changes no curve.
LEMMA AbortKeeps ==
    ASSUME WholeInv, NEW f \in SweptFan, Abort(f)
    PROVE  SweepsOK'
<1> DEFINE g == runs[f]
           s == sweep[g]
           t == [s EXCEPT !.cancelled = TRUE]
<1>1. g \in Slot /\ Becomes(g, t)
  BY DEF Abort, WholeInv, RestOK
<1>2. s \in Sweep /\ GoodSweep(s)
  BY <1>1, SweepAt DEF WholeInv
<1> HIDE DEF s
<1>3. /\ t \in Sweep /\ t.pc = s.pc /\ t.after = s.after /\ t.res = s.res /\ t.out = s.out
      /\ t.curve = s.curve /\ t.min = s.min /\ t.step = s.step /\ t.p = s.p /\ t.noFan = s.noFan
      /\ t.start = s.start
  BY <1>2 DEF Sweep, Place
<1>4. GoodSweep(t)
  BY <1>2, <1>3 DEF GoodSweep, GoodAt, Stage
<1> QED BY <1>1, <1>4, BecomesKeeps DEF WholeInv

\* The rest of the state keeps its types.
LEMMA RestStep ==
    ASSUME WholeInv, CalNext
    PROVE  RestOK'
<1> DEFINE Machine == rotor' \in [SweptFan -> RotorStarts] /\ spin' \in [SweptFan -> BOOLEAN]
                      /\ duty' \in [SweptFan -> Byte]
           Client == /\ runs' \in [SweptFan -> Slot \cup {Nobody}]
                     /\ waiting' \in [SweptFan -> Slot \cup {Nobody}]
                     /\ aborting' \in [SweptFan -> BOOLEAN] /\ lost' \in 0 .. MaxLost
<1> SUFFICES Machine /\ Client
  BY DEF RestOK
<1>1. /\ rotor \in [SweptFan -> RotorStarts] /\ spin \in [SweptFan -> BOOLEAN]
      /\ duty \in [SweptFan -> Byte]
      /\ runs \in [SweptFan -> Slot \cup {Nobody}]
      /\ waiting \in [SweptFan -> Slot \cup {Nobody}]
      /\ aborting \in [SweptFan -> BOOLEAN] /\ lost \in 0 .. MaxLost
  BY DEF WholeInv, RestOK
<1>2. ASSUME UNCHANGED fans PROVE Machine
  BY <1>1, <1>2 DEF fans
<1>3. ASSUME UNCHANGED client PROVE Client
  BY <1>1, <1>3 DEF client
<1>4. ASSUME NEW f \in SweptFan, NEW d \in Byte, Commands(f, d) PROVE Machine
  BY <1>1, <1>4 DEF Commands
<1>5. ASSUME NEW f \in SweptFan, NEW b \in BOOLEAN, Spins(f, b) PROVE Machine
  BY <1>1, <1>5 DEF Spins
<1>6. CASE \E f \in SweptFan, k \in Kinds, m \in Mins, g \in Slot : Request(f, k, m, g)
  <2> PICK f \in SweptFan, k \in Kinds, m \in Mins, g \in Slot : Request(f, k, m, g)
    BY <1>6
  <2>1. Machine
    BY <1>2 DEF Request
  <2>2. aborting' \in [SweptFan -> BOOLEAN]
    BY <1>1 DEF Request
  <2> QED BY <1>1, <2>1, <2>2 DEF Request
<1>7. CASE \E f \in SweptFan : Abort(f)
  <2> PICK f \in SweptFan : Abort(f)
    BY <1>7
  <2>1. Machine
    BY <1>2 DEF Abort
  <2>2. aborting' \in [SweptFan -> BOOLEAN]
    BY <1>1 DEF Abort
  <2>3. waiting' \in [SweptFan -> Slot \cup {Nobody}]
    BY <1>1 DEF Abort
  <2> QED BY <1>1, <2>1, <2>2, <2>3 DEF Abort
<1>8. ASSUME NEW g \in Slot, SweepStep(g) \/ Escalate(g) PROVE Machine /\ Client
  <2> DEFINE s == sweep[g]
  <2>0. s.fan \in SweptFan /\ s.min \in Byte /\ Floor \in Byte
    BY SweepAt, CalAssumption DEF WholeInv, Byte
  <2>1. CASE Climb(g)
    <3>1. duty' \in [SweptFan -> Byte] /\ UNCHANGED client
      BY <2>1, ClimbKeeps DEF Climb
    <3>2. UNCHANGED <<rotor, spin>>
      BY <2>1 DEF Climb, Commands, fans
    <3> QED BY <1>1, <1>3, <3>1, <3>2
  <2>2. CASE Descend(g)
    <3>1. duty' \in [SweptFan -> Byte] /\ UNCHANGED client
      BY <2>2, DescendKeeps DEF Descend
    <3>2. UNCHANGED <<rotor, spin>>
      BY <2>2 DEF Descend, Commands, fans
    <3> QED BY <1>1, <1>3, <3>1, <3>2
  <2>3. CASE Unresolved(g) \/ SetSentinel(g) \/ HoldEnds(g) \/ Turn(g) \/ FallEnds(g) \/ StopSentinel(g) \/ Keep(g)
    BY <2>3, <1>2, <1>3 DEF Unresolved, SetSentinel, HoldEnds, Turn, FallEnds, StopSentinel, Keep
  <2>4. CASE Begin(g)
    BY <2>4, <2>0, <1>5, <1>3 DEF Begin
  <2>5. CASE Sample(g)
    <3>1. Settled(s.fan, duty[s.fan]) \in BOOLEAN
      BY <1>1, <2>0 DEF Settled
    <3> QED BY <2>5, <2>0, <3>1, <1>5, <1>3 DEF Sample
  <2>6. CASE Stalls(g) \/ GoesOn(g)
    BY <2>6, <2>0, <1>2, <1>5, <1>3 DEF Stalls, GoesOn
  <2>7. CASE Cleanup(g) \/ Escalate(g)
    BY <2>7, <2>0, <1>2, <1>4, <1>3 DEF Cleanup, Escalate
  <2>8. CASE Save(g)
    <3>1. Machine
      BY <2>8, <1>2 DEF Save
    <3>2. lost' \in 0 .. MaxLost
      BY <2>8, <1>1, CalAssumption DEF Save
    <3>3. aborting' \in [SweptFan -> BOOLEAN]
      <4>1. aborting' = aborting \/ \E b \in BOOLEAN : aborting' = [aborting EXCEPT ![s.fan] = b]
        BY <2>8, <1>1, <2>0 DEF Save
      <4> QED BY <4>1, <1>1
    <3>4. runs' = runs /\ waiting' = waiting
      BY <2>8 DEF Save
    <3> QED BY <1>1, <3>1, <3>2, <3>3, <3>4
  <2>9. CASE Close(g)
    <3>1. Machine
      BY <2>9, <1>2 DEF Close, Closes
    <3>2. runs' \in [SweptFan -> Slot \cup {Nobody}] /\ waiting' \in [SweptFan -> Slot \cup {Nobody}]
      BY <2>9, <1>1 DEF Close, Closes
    <3> QED BY <1>1, <2>9, <3>1, <3>2 DEF Close, Closes
  <2> QED BY <1>8, <2>1, <2>2, <2>3, <2>4, <2>5, <2>6, <2>7, <2>8, <2>9 DEF SweepStep
<1>9. CASE \E changed \in BOOLEAN : Restart(changed)
  <2>1. Machine
    BY <1>9, <1>2 DEF Restart
  <2>2. aborting' \in [SweptFan -> BOOLEAN]
    BY <1>1, <1>9 DEF Restart
  <2>3. runs' \in [SweptFan -> Slot \cup {Nobody}] /\ waiting' \in [SweptFan -> Slot \cup {Nobody}]
    BY <1>9 DEF Restart
  <2> QED BY <1>1, <1>9, <2>1, <2>2, <2>3 DEF Restart
<1> QED BY <1>6, <1>7, <1>8, <1>9 DEF CalNext

\* The invariant holds at the start.
LEMMA WholeInvInit == CalInit => WholeInv
<1> SUFFICES ASSUME CalInit PROVE WholeInv
  OBVIOUS
<1>1. RestOK
  <2>1. spin \in [SweptFan -> BOOLEAN] /\ aborting \in [SweptFan -> BOOLEAN]
    BY DEF CalInit
  <2> QED BY <2>1, NumbersOK, CalAssumption DEF CalInit, RestOK
<1>2. SweepsOK
  BY NoSweepIsGood DEF CalInit, SweepsOK, GoodSweep
<1>3. RecordsOK
  BY BlankIsWhole DEF CalInit, RecordsOK, WholeRecord
<1> QED BY <1>1, <1>2, <1>3 DEF WholeInv

\* Every step keeps it, the death of the process included.
LEMMA WholeInvStep == WholeInv /\ [CalNext]_calVars => WholeInv'
<1> SUFFICES ASSUME WholeInv, [CalNext]_calVars PROVE WholeInv'
  OBVIOUS
<1>1. CASE UNCHANGED calVars
  BY <1>1 DEF calVars, fans, store, client, WholeInv, RestOK, SweepsOK, RecordsOK
<1>2. CASE CalNext
  <2>1. RestOK'
    BY <1>2, RestStep
  <2>2. CASE \E f \in SweptFan, k \in Kinds, m \in Mins, g \in Slot : Request(f, k, m, g)
    <3> PICK f \in SweptFan, k \in Kinds, m \in Mins, g \in Slot : Request(f, k, m, g)
      BY <2>2
    <3>1. k \in {"start", "sync"} /\ m \in Byte
      BY CalAssumption DEF Byte
    <3>2. GoodSweep(Fresh(f, k, m)) /\ Becomes(g, Fresh(f, k, m)) /\ UNCHANGED store
      BY <3>1, FreshIsGood DEF Request
    <3> QED BY <2>1, <3>2, BecomesKeeps DEF WholeInv, RecordsOK, store
  <2>3. CASE \E f \in SweptFan : Abort(f)
    BY <2>1, <2>3, AbortKeeps DEF WholeInv, RecordsOK, store, Abort
  <2>4. ASSUME NEW g \in Slot, SweepStep(g) \/ Escalate(g) PROVE WholeInv'
    <3>1. ASSUME UNCHANGED store PROVE RecordsOK'
      BY <3>1 DEF WholeInv, RecordsOK, store
    <3>2. CASE Unresolved(g) \/ Cleanup(g) \/ StopSentinel(g) \/ Escalate(g) \/ Close(g)
      BY <2>1, <3>1, <3>2, PlainKeeps
         DEF WholeInv, Unresolved, Cleanup, StopSentinel, Escalate, Close, Closes
    <3>3. CASE Begin(g)
      BY <2>1, <3>1, <3>3, BeginKeeps DEF WholeInv, Begin
    <3>4. CASE Climb(g)
      BY <2>1, <3>1, <3>4, ClimbKeeps DEF WholeInv, Climb
    <3>5. CASE SetSentinel(g)
      BY <2>1, <3>1, <3>5, SetKeeps DEF WholeInv, SetSentinel
    <3>6. CASE Sample(g)
      BY <2>1, <3>6, SampleKeeps DEF WholeInv
    <3>7. CASE HoldEnds(g)
      BY <2>1, <3>1, <3>7, HoldEndsKeeps DEF WholeInv, HoldEnds
    <3>8. CASE Save(g)
      BY <2>1, <3>8, SaveKeeps DEF WholeInv
    <3>9. CASE Turn(g)
      BY <2>1, <3>1, <3>9, TurnKeeps DEF WholeInv, Turn
    <3>10. CASE Descend(g)
      BY <2>1, <3>1, <3>10, DescendKeeps DEF WholeInv, Descend
    <3>11. CASE Stalls(g)
      BY <2>1, <3>1, <3>11, StallsKeeps DEF WholeInv, Stalls
    <3>12. CASE GoesOn(g)
      BY <2>1, <3>12, GoesOnKeeps DEF WholeInv
    <3>13. CASE FallEnds(g)
      BY <2>1, <3>1, <3>13, FallEndsKeeps DEF WholeInv, FallEnds
    <3>14. CASE Keep(g)
      BY <2>1, <3>14, KeepKeeps DEF WholeInv
    <3> QED BY <2>4, <3>2, <3>3, <3>4, <3>5, <3>6, <3>7, <3>8, <3>9, <3>10, <3>11, <3>12, <3>13, <3>14
            DEF SweepStep
  <2>5. CASE \E changed \in BOOLEAN : Restart(changed)
    <3>1. SweepsOK'
      BY <2>5, NoSweepIsGood DEF Restart, SweepsOK, GoodSweep
    <3>2. RecordsOK'
      BY <2>5, BlankIsWhole DEF Restart, WholeInv, RecordsOK, WholeRecord
    <3> QED BY <2>1, <3>1, <3>2 DEF WholeInv
  <2> QED BY <1>2, <2>2, <2>3, <2>4, <2>5 DEF CalNext
<1> QED BY <1>1, <1>2

\* It gives the property of the run.
LEMMA WholeIsCurve == WholeInv => CurveIsWhole
  BY DEF WholeInv, RestOK, SweepsOK, RecordsOK, WholeRecord, CurveIsWhole, CalTypeOK

\* For any number of fans and of sweeps of one fan, interrupted, resumed, failed or
\* restarted under another configuration: every checkpoint holds one sample for
\* each completed step of its own configuration, in order, and every finished sweep
\* that found a fan has them all.
THEOREM CurvesAreWhole == CalSpec => []CurveIsWhole
<1> QED BY WholeInvInit, WholeInvStep, WholeIsCurve, PTL DEF CalSpec

-----------------------------------------------------------------------------
(* The stop duty.                                                          *)

\* No two sweeps of a fan exist at once.
OneSweepEach == \A f \in SweptFan : \A g, h \in Slots[f] : g = h

\* The start duty of a record or a sweep is one that StopHolds speaks of.
Trusted(r) == r.start <= Max - 2 /\ (r.start < Floor => Floor < StopsAt)

\* The stop duty keeps a spinning fan spinning.
HoldsFan(r) == Trusted(r) /\ r.stop > 0 => r.stop >= StopsAt

\* So do the start duty and the last duty of a checkpoint's descent.
Sound(r) ==
    /\ HoldsFan(r)
    /\ r.partial /\ Trusted(r) =>
         /\ r.start > 0 => r.start >= StopsAt
         /\ r.down > 0 => r.down >= StopsAt /\ r.down <= r.start

\* What a sweep knows at each place of its fan, whose duty is d.
SoundAt(s, at, d) ==
    /\ s.stop = 0
    /\ at \in {"free", "launched", "down", "fall"} => ~s.armed
    /\ at = "hold" /\ s.armed => StepDuty(s.min, s.step) = 0
    /\ at = "step" /\ s.armed => s.step <= Steps /\ s.noFan = 0
    /\ at \in {"step", "set", "hold", "down", "fall"} /\ Trusted(s) =>
         /\ s.start > 0 => s.start >= StopsAt
         /\ s.p > 0 => s.p <= s.start
    /\ at = "step" /\ Trusted(s) /\ s.p > 0 => s.p >= StopsAt
    /\ at \in {"down", "fall"} /\ Trusted(s) /\ s.p > 0 => s.p + 2 >= StopsAt
    /\ at \in {"set", "hold"} => d = StepDuty(s.min, s.step) \/ d = Floor
    /\ at = "fall" => d = s.p

\* A record that is unsound is of a cancelled sweep, and will be marked.
SoundSweep(g, s, d) ==
    /\ s.pc = "free" \/ g \in Slots[s.fan]
    /\ SoundAt(s, Stage(s), d)
    /\ Sound(s.res) \/ (s.cancelled /\ s.failed /\ HoldsFan(s.res))
    /\ \A f \in SweptFan : Sound(s.out[f])

\* So it is of every sweep, ...
SweepsSound == \A g \in Slot : SoundSweep(g, sweep[g], duty[sweep[g].fan])

\* ... and of every record, in memory and in the file.
RecordsSound == \A f \in SweptFan : Sound(results[f]) /\ Sound(stored[f])

\* The inductive invariant of the stop duties.
StopInv == WholeInv /\ SweepsSound /\ RecordsSound

\* Only the duty of fan f changes.
OnlyDutyOf(f) == \A h \in SweptFan : h # f => duty'[h] = duty[h]

\* What the assumption says of the numbers.
LEMMA StopNumbers ==
    /\ 0 \in Byte /\ Max \in Nat /\ Max >= 2 /\ Steps \in Nat /\ Steps > 0 /\ NoFanSteps \in Nat /\ NoFanSteps > 0
    /\ Floor \in Nat /\ Floor > 0 /\ StopsAt \in Nat /\ StopsAt > 0 /\ StopsAt <= Max
  BY CalAssumption DEF Byte, Max

\* The record of a fan that was never swept claims nothing, ...
LEMMA BlankIsSound == Sound(Blank) /\ HoldsFan(Blank)
  BY DEF Sound, HoldsFan, Blank

\* ... nor does a sweep that has been requested, ...
LEMMA FreshIsSound ==
    ASSUME NEW f \in SweptFan, NEW k, NEW m, NEW g \in Slots[f], NEW d
    PROVE  SoundSweep(g, Fresh(f, k, m), d)
<1>1. /\ Fresh(f, k, m).pc = "launched" /\ Fresh(f, k, m).fan = f /\ Fresh(f, k, m).stop = 0
      /\ Fresh(f, k, m).armed = FALSE /\ Fresh(f, k, m).res = Blank
      /\ \A h \in SweptFan : Fresh(f, k, m).out[h] = Blank
  BY DEF Fresh
<1> QED BY <1>1, BlankIsSound DEF SoundSweep, SoundAt, Stage

\* ... nor a slot without one.
LEMMA NoSweepIsSound ==
    ASSUME NEW g, NEW d
    PROVE  SoundSweep(g, NoSweep, d)
<1> DEFINE s == Fresh(CHOOSE f \in SweptFan : TRUE, "start", 0)
<1>1. (CHOOSE f \in SweptFan : TRUE) \in SweptFan /\ 0 \in Byte
  BY CalAssumption DEF Byte, Max
<1>2. s \in Sweep
  BY <1>1, FreshIsGood DEF GoodSweep
<1>3. s.res = Blank /\ s.stop = 0
  BY DEF Fresh
<1>4. NoSweep = [s EXCEPT !.pc = "free"]
  BY DEF NoSweep
<1> HIDE DEF s
<1>5. NoSweep.res = Blank /\ NoSweep.stop = 0 /\ NoSweep \in Sweep
  BY <1>2, <1>3, <1>4 DEF Sweep, Place
<1>6. NoSweep.pc = "free" /\ ~NoSweep.armed /\ \A f \in SweptFan : NoSweep.out[f] = Blank
  BY NoSweepIsGood
<1> QED BY <1>5, <1>6, BlankIsSound DEF SoundSweep, SoundAt, Stage

\* A sweep that goes on leaves the others sound: it alone commands its fan.
LEMMA BecomesSound ==
    ASSUME OneSweepEach, WholeInv, SweepsSound, NEW g \in Slot, NEW s, Becomes(g, s),
           NEW f \in SweptFan, UNCHANGED duty \/ (g \in Slots[f] /\ OnlyDutyOf(f)),
           SoundSweep(g, s, duty'[s.fan])
    PROVE  SweepsSound'
<1>1. \A h \in Slot : sweep'[h] = IF h = g THEN s ELSE sweep[h]
  BY DEF Becomes, WholeInv, SweepsOK
<1>2. ASSUME NEW h \in Slot, h # g PROVE SoundSweep(h, sweep[h], duty'[sweep[h].fan])
  <2>0. sweep[h].fan \in SweptFan
    BY SweepAt DEF WholeInv
  <2>1. SoundSweep(h, sweep[h], duty[sweep[h].fan])
    BY DEF SweepsSound
  <2>2. CASE sweep[h].pc = "free"
    BY <2>1, <2>2 DEF SoundSweep, SoundAt, Stage
  <2>3. CASE sweep[h].pc # "free" /\ g \in Slots[f] /\ OnlyDutyOf(f)
    <3>1. sweep[h].fan # f
      BY <2>0, <2>1, <2>3, <1>2 DEF SoundSweep, OneSweepEach
    <3> QED BY <2>0, <2>1, <2>3, <3>1 DEF OnlyDutyOf
  <2>4. CASE UNCHANGED duty
    BY <2>1, <2>4
  <2> QED BY <2>2, <2>3, <2>4
<1>3. \A h \in Slot : SoundSweep(h, sweep'[h], duty'[sweep'[h].fan])
  BY <1>1, <1>2
<1> QED BY <1>3 DEF SweepsSound, SoundSweep, SoundAt, Sound, HoldsFan, Trusted, Stage

\* A sweep that returns a sound record, or is cancelled, stays sound.
LEMMA ReturnsSound ==
    ASSUME OneSweepEach, WholeInv, SweepsSound, NEW g \in Slot, sweep[g].pc # "free",
           NEW r, WholeRecord(r), NEW failed \in BOOLEAN,
           Returns(g, r, failed), OnlyDutyOf(sweep[g].fan),
           Sound(r) \/ (sweep[g].cancelled /\ failed /\ HoldsFan(r))
    PROVE  SweepsSound'
<1> DEFINE s == sweep[g]
           t == [s EXCEPT !.pc = "cleanup", !.res = r, !.failed = failed]
<1>1. s \in Sweep /\ Becomes(g, t) /\ r \in Result /\ s.fan \in SweptFan
  BY SweepAt DEF WholeInv, Returns, WholeRecord
<1>2. SoundSweep(g, s, duty[s.fan])
  BY DEF SweepsSound
<1> HIDE DEF s
<1>3. /\ t \in Sweep /\ t.pc = "cleanup" /\ t.res = r /\ t.failed = failed /\ t.cancelled = s.cancelled
      /\ t.fan = s.fan /\ t.stop = s.stop /\ t.out = s.out
  BY <1>1 DEF Sweep, Place
<1> HIDE DEF t
<1>4. SoundSweep(g, t, duty'[t.fan])
  BY <1>2, <1>3 DEF SoundSweep, SoundAt, Stage, s
<1> QED BY <1>1, <1>2, <1>4, BecomesSound DEF SoundSweep, s

\* A sweep that checkpoints a sound record stays sound, and so do the records.
LEMMA SavesSound ==
    ASSUME OneSweepEach, StopInv, NEW g \in Slot, sweep[g].pc # "free",
           NEW s \in Sweep, s.fan = sweep[g].fan, s.out = sweep[g].out, s.res = sweep[g].res,
           s.cancelled = sweep[g].cancelled, s.failed = sweep[g].failed,
           NEW r, WholeRecord(r), Sound(r), NEW at \in {"step", "down", "close"},
           UNCHANGED <<duty, stored>>, Saves(g, s, r, at), SoundAt(s, at, duty[s.fan])
    PROVE  SweepsSound' /\ RecordsSound'
<1> DEFINE t == [s EXCEPT !.pc = "save", !.out = results', !.after = at]
<1>1. r \in Result /\ results' = [results EXCEPT ![s.fan] = r] /\ s.fan \in SweptFan /\ Becomes(g, t)
  BY DEF WholeRecord, Saves, Sweep
<1>2. results' \in [SweptFan -> Result] /\ \A f \in SweptFan : Sound(results'[f])
  BY <1>1 DEF StopInv, WholeInv, RecordsOK, RecordsSound
<1>3. SoundSweep(g, sweep[g], duty[sweep[g].fan])
  BY DEF StopInv, SweepsSound
<1>4. /\ t \in Sweep /\ t.pc = "save" /\ t.res = s.res /\ t.out = results' /\ t.after = at
      /\ t.min = s.min /\ t.step = s.step /\ t.p = s.p /\ t.start = s.start /\ t.noFan = s.noFan
      /\ t.stop = s.stop /\ t.armed = s.armed /\ t.fan = s.fan /\ t.cancelled = s.cancelled
      /\ t.failed = s.failed
  BY <1>2 DEF Sweep, Place
<1> HIDE DEF t
<1>5. SoundAt(t, at, duty'[t.fan])
  BY <1>4 DEF SoundAt, Trusted
<1>6. SoundSweep(g, t, duty'[t.fan])
  BY <1>2, <1>3, <1>4, <1>5 DEF SoundSweep, Stage
<1>7. OnlyDutyOf(s.fan)
  BY DEF OnlyDutyOf
<1>8. SweepsSound'
  BY <1>1, <1>3, <1>6, <1>7, BecomesSound DEF SoundSweep, StopInv
<1>9. \A f \in SweptFan : Sound(stored'[f])
  BY DEF StopInv, RecordsSound
<1> QED BY <1>2, <1>8, <1>9 DEF RecordsSound, Sound, HoldsFan, Trusted

\* What is known of a sweep.
LEMMA SoundSweepAt ==
    ASSUME StopInv, NEW g \in Slot
    PROVE  /\ sweep[g] \in Sweep /\ GoodSweep(sweep[g]) /\ SoundSweep(g, sweep[g], duty[sweep[g].fan])
           /\ sweep[g].fan \in SweptFan /\ sweep[g].min \in Byte
           /\ sweep[g].step \in 0 .. Steps + 1 /\ sweep[g].start \in Byte
           /\ sweep[g].p \in -1 .. Max /\ sweep[g].noFan \in 0 .. NoFanSteps
           /\ sweep[g].pc # "save" => GoodAt(sweep[g], sweep[g].pc)
                                      /\ SoundAt(sweep[g], sweep[g].pc, duty[sweep[g].fan])
           /\ sweep[g].pc # "free" => g \in Slots[sweep[g].fan]
           /\ duty \in [SweptFan -> Byte]
<1>1. SoundSweep(g, sweep[g], duty[sweep[g].fan])
  BY DEF StopInv, SweepsSound
<1>2. duty \in [SweptFan -> Byte]
  BY DEF StopInv, WholeInv, RestOK
<1> QED BY <1>1, <1>2, SweepAt DEF StopInv, WholeInv, SoundSweep, Stage

\* A duty command leaves the other fans alone.
LEMMA CommandsOnly ==
    ASSUME NEW f \in SweptFan, NEW d, duty \in [SweptFan -> Byte],
           Commands(f, d) \/ UNCHANGED fans \/ UNCHANGED duty
    PROVE  OnlyDutyOf(f) /\ (Commands(f, d) => duty'[f] = d)
  BY DEF Commands, fans, OnlyDutyOf

\* The checkpoint of a sweep without a descent, ...
LEMMA SnapshotIsSound ==
    ASSUME NEW s \in Sweep, s.stop = 0, Trusted(s) /\ s.start > 0 => s.start >= StopsAt, NEW k
    PROVE  Sound(Snapshot(s, 0, k))
  BY StopNumbers DEF Snapshot, Sound, HoldsFan, Trusted, Sweep

\* ... with one, ...
LEMMA DescentIsSound ==
    ASSUME NEW s \in Sweep, s.stop = 0, Trusted(s) => s.start >= StopsAt /\ s.p >= StopsAt /\ s.p <= s.start, NEW k
    PROVE  Sound(Snapshot(s, s.p, k))
  BY DEF Snapshot, Sound, HoldsFan, Trusted

\* A checkpoint before the stop duty is known has none, ...
LEMMA SnapshotHolds ==
    ASSUME NEW s, s.stop = 0, NEW d, NEW k
    PROVE  HoldsFan(Snapshot(s, d, k))
  BY DEF Snapshot, HoldsFan

\* ... and the records of one that has ended.
LEMMA FinalIsSound ==
    ASSUME NEW s \in Sweep, Trusted(s) /\ s.stop > 0 => s.stop >= StopsAt
    PROVE  Sound(Final(s)) /\ Sound(Phantom(s))
  BY FinalFields, PhantomIsWhole DEF Sound, HoldsFan, Trusted

\* ... and a marked record no longer promises where a descent would go on.
LEMMA MarkedIsSound ==
    ASSUME NEW r \in Result, HoldsFan(r)
    PROVE  Sound(MarkAborted(r))
  BY MarkedIsWhole DEF Sound, HoldsFan, Trusted

\* A sweep resumes from duties that were sound in its checkpoint, ...
LEMMA BeginSound ==
    ASSUME OneSweepEach, StopInv, NEW g \in Slot, Begin(g)
    PROVE  SweepsSound'
<1> DEFINE s == sweep[g]
           prev == results[s.fan]
           from == IF Resumes(prev, s.min) THEN prev ELSE Blank
           t == [s EXCEPT !.pc = "step", !.running = TRUE, !.step = from.completed, !.p = from.down,
                          !.start = from.start, !.curve = from.curve]
<1>1. /\ s \in Sweep /\ s.pc = "launched" /\ s.fan \in SweptFan /\ SoundSweep(g, s, duty[s.fan])
      /\ SoundAt(s, "launched", duty[s.fan]) /\ g \in Slots[s.fan]
      /\ duty \in [SweptFan -> Byte]
  BY SoundSweepAt DEF Begin
<1>2. Becomes(g, t) /\ UNCHANGED duty
  BY DEF Begin, Spins
<1>3. from \in Result
  BY <1>1, BlankIsWhole DEF StopInv, WholeInv, RecordsOK, WholeRecord
<1>4. Trusted(from) => /\ from.start > 0 => from.start >= StopsAt
                       /\ from.down > 0 => from.down >= StopsAt /\ from.down <= from.start
  <2>1. CASE Resumes(prev, s.min)
    BY <2>1, <1>1 DEF StopInv, RecordsSound, Sound, Resumes
  <2>2. CASE ~Resumes(prev, s.min)
    BY <2>2 DEF Blank
  <2> QED BY <2>1, <2>2
<1> HIDE DEF s, from
<1>5. /\ t \in Sweep /\ t.pc = "step" /\ t.res = s.res /\ t.out = s.out
      /\ t.p = from.down /\ t.start = from.start /\ t.stop = s.stop /\ t.armed = s.armed
      /\ t.fan = s.fan /\ t.cancelled = s.cancelled /\ t.failed = s.failed
  <2>1. from.down \in -1 .. Max
    BY <1>3, StopNumbers DEF Result, Byte
  <2> QED BY <1>1, <1>3, <2>1 DEF Sweep, Place, Result
<1> HIDE DEF t
<1>6. SoundAt(t, "step", duty'[t.fan])
  BY <1>1, <1>4, <1>5 DEF SoundAt, Trusted
<1>7. SoundSweep(g, t, duty'[t.fan])
  BY <1>1, <1>5, <1>6 DEF SoundSweep, Stage
<1> QED BY <1>1, <1>2, <1>7, BecomesSound, CommandsOnly DEF StopInv

\* ... commands the step it will sample, ...
LEMMA ClimbSound ==
    ASSUME OneSweepEach, StopInv, NEW g \in Slot, Climb(g)
    PROVE  SweepsSound'
<1> DEFINE s == sweep[g]
           t == [s EXCEPT !.pc = "set"]
           d == StepDuty(s.min, s.step)
<1>1. /\ s \in Sweep /\ s.pc = "step" /\ s.fan \in SweptFan /\ SoundSweep(g, s, duty[s.fan])
      /\ SoundAt(s, "step", duty[s.fan]) /\ GoodAt(s, "step") /\ g \in Slots[s.fan]
      /\ duty \in [SweptFan -> Byte] /\ s.step \in 0 .. Steps + 1 /\ ~(s.p > 0)
  <2>1. s.step <= Steps
    BY SoundSweepAt, StopNumbers DEF Climb, Climbed
  <2> QED BY <2>1, SoundSweepAt, StopNumbers DEF Climb, GoodAt
<1>2. \/ Returns(g, Snapshot(s, 0, s.step), TRUE) /\ UNCHANGED fans
      \/ Commands(s.fan, d) /\ Becomes(g, t)
  BY DEF Climb
<1>3. Sound(Snapshot(s, 0, s.step)) /\ WholeRecord(Snapshot(s, 0, s.step))
  BY <1>1, SnapshotIsSound, SnapshotIsWhole, StopNumbers DEF SoundAt, GoodAt
<1> HIDE DEF s, d
<1>4. /\ t \in Sweep /\ t.pc = "set" /\ t.res = s.res /\ t.out = s.out /\ t.min = s.min
      /\ t.step = s.step /\ t.p = s.p /\ t.start = s.start /\ t.stop = s.stop
      /\ t.armed = s.armed /\ t.fan = s.fan /\ t.cancelled = s.cancelled /\ t.failed = s.failed
  BY <1>1 DEF Sweep, Place
<1>5. CASE Returns(g, Snapshot(s, 0, s.step), TRUE) /\ UNCHANGED fans
  BY <1>1, <1>3, <1>5, ReturnsSound, CommandsOnly DEF StopInv, s
<1>6. CASE Commands(s.fan, d) /\ Becomes(g, t)
  <2>1. duty'[t.fan] = d /\ OnlyDutyOf(s.fan)
    BY <1>1, <1>4, <1>6, CommandsOnly
  <2> HIDE DEF t
  <2>2. SoundAt(t, "set", d)
    BY <1>1, <1>4 DEF SoundAt, Trusted, d
  <2>3. SoundSweep(g, t, duty'[t.fan])
    BY <1>1, <1>4, <2>1, <2>2 DEF SoundSweep, Stage
  <2> QED BY <1>1, <1>6, <2>1, <2>3, BecomesSound DEF StopInv
<1> QED BY <1>2, <1>5, <1>6

\* ... arms the sentinel for a zero alone, ...
LEMMA SetSound ==
    ASSUME OneSweepEach, StopInv, NEW g \in Slot, SetSentinel(g)
    PROVE  SweepsSound'
<1> DEFINE s == sweep[g]
<1>0. PICK b \in BOOLEAN : /\ Becomes(g, [s EXCEPT !.pc = "hold", !.armed = b]) /\ s.pc = "set"
                           /\ b => StepDuty(s.min, s.step) = 0
                           /\ UNCHANGED duty
  BY DEF SetSentinel, fans
<1> DEFINE t == [s EXCEPT !.pc = "hold", !.armed = b]
<1>1. /\ s \in Sweep /\ s.fan \in SweptFan /\ SoundSweep(g, s, duty[s.fan])
      /\ SoundAt(s, "set", duty[s.fan]) /\ g \in Slots[s.fan] /\ duty \in [SweptFan -> Byte]
  BY <1>0, SoundSweepAt
<1> HIDE DEF s
<1>2. /\ t \in Sweep /\ t.pc = "hold" /\ t.res = s.res /\ t.out = s.out /\ t.min = s.min
      /\ t.step = s.step /\ t.p = s.p /\ t.start = s.start /\ t.stop = s.stop
      /\ t.armed = b /\ t.fan = s.fan /\ t.cancelled = s.cancelled /\ t.failed = s.failed
  BY <1>1 DEF Sweep, Place
<1> HIDE DEF t
<1>3. SoundAt(t, "hold", duty'[t.fan])
  BY <1>0, <1>1, <1>2 DEF SoundAt, Trusted
<1>4. SoundSweep(g, t, duty'[t.fan])
  BY <1>1, <1>2, <1>3 DEF SoundSweep, Stage
<1> QED BY <1>0, <1>1, <1>4, BecomesSound, CommandsOnly DEF StopInv, t

\* The sample: a fan that spins at a duty which StopHolds speaks of is one that
\* goes on spinning there.
LEMMA SampleSound ==
    ASSUME OneSweepEach, StopInv, NEW g \in Slot, Sample(g)
    PROVE  SweepsSound' /\ RecordsSound'
<1> DEFINE s == sweep[g]
           d == StepDuty(s.min, s.step)
<1>0. PICK rpm \in BOOLEAN : rpm = Settled(s.fan, duty[s.fan])
  BY DEF Settled, StopInv, WholeInv, RestOK
<1> DEFINE t == Sampled(s, rpm)
<1>1. /\ s \in Sweep /\ s.pc = "hold" /\ s.fan \in SweptFan /\ GoodAt(s, "hold")
      /\ SoundAt(s, "hold", duty[s.fan]) /\ duty \in [SweptFan -> Byte] /\ s.step \in 0 .. Steps
      /\ s.start \in Byte
  <2>1. s.pc = "hold"
    BY DEF Sample
  <2>2. /\ s \in Sweep /\ s.fan \in SweptFan /\ s.start \in Byte /\ s.step \in 0 .. Steps + 1
        /\ duty \in [SweptFan -> Byte]
    BY SoundSweepAt, Zenon
  <2>3. GoodAt(s, s.pc) /\ SoundAt(s, s.pc, duty[s.fan])
    BY <2>1, SoundSweepAt
  <2>4. s.step <= Steps
    BY <2>1, <2>3 DEF GoodAt
  <2> HIDE DEF s
  <2> QED BY <2>1, <2>2, <2>3, <2>4, StopNumbers
<1>2. Saves(g, t, Snapshot(t, 0, t.step), "step") /\ UNCHANGED <<duty, stored>>
  BY <1>0 DEF Sample, Sampled, Spins
<1>3. (s.armed => d = 0) /\ (duty[s.fan] = d \/ duty[s.fan] = Floor)
  BY <1>1 DEF SoundAt
<1>4. d = 0 => s.step + 1 <= Steps
  BY <1>1, StopNumbers DEF StepDuty
<1>5. rotor[s.fan] \in StopsAt .. Bytes
  BY <1>1, CalAssumption DEF StopInv, WholeInv, RestOK
<1>6. rpm => duty[s.fan] >= StopsAt
  <2>1. Settled(s.fan, duty[s.fan]) => duty[s.fan] >= StopsAt
    BY <1>1, <1>5, StopNumbers, CalAssumption DEF Settled, Byte
  <2> QED BY <1>0, <2>1
<1> HIDE DEF s
<1>7. /\ d \in Byte /\ t \in Sweep /\ t.curve = Ladder(t.min, t.step) /\ t.step = s.step + 1
      /\ t.start = (IF rpm /\ s.start = 0 THEN d ELSE s.start) /\ (d = 0 => t.noFan = 0)
      /\ t.step \in 0 .. Steps + 1 /\ ~(t.p > 0) /\ t.stop = s.stop /\ t.armed = s.armed
      /\ t.fan = s.fan /\ t.out = s.out /\ t.res = s.res /\ t.cancelled = s.cancelled /\ t.failed = s.failed
  BY <1>1, SampledFields
<1> HIDE DEF d, t
<1>8. Trusted(t) /\ t.start > 0 => t.start >= StopsAt
  <2>1. CASE rpm /\ s.start = 0
    BY <1>3, <1>6, <1>7, <2>1, StopNumbers DEF Trusted, Byte
  <2>2. CASE ~(rpm /\ s.start = 0)
    BY <1>1, <1>7, <2>2 DEF SoundAt, Trusted
  <2> QED BY <2>1, <2>2
<1>9. SoundAt(t, "step", duty[t.fan])
  BY <1>1, <1>3, <1>4, <1>7, <1>8 DEF SoundAt
<1>10. Sound(Snapshot(t, 0, t.step)) /\ WholeRecord(Snapshot(t, 0, t.step))
  <2>1. t.stop = 0
    BY <1>1, <1>7 DEF SoundAt
  <2> QED BY <1>7, <1>8, <2>1, SnapshotIsSound, SnapshotIsWhole, StopNumbers
<1>11. sweep[g].pc # "free" /\ t.fan = sweep[g].fan /\ t.out = sweep[g].out /\ t.res = sweep[g].res
       /\ t.cancelled = sweep[g].cancelled /\ t.failed = sweep[g].failed
  BY <1>1, <1>7 DEF s
<1> QED BY <1>2, <1>7, <1>9, <1>10, <1>11, SavesSound

\* ... may be interrupted, ...
LEMMA HoldEndsSound ==
    ASSUME OneSweepEach, StopInv, NEW g \in Slot, HoldEnds(g)
    PROVE  SweepsSound'
<1> DEFINE s == sweep[g]
<1>1. /\ s \in Sweep /\ s.pc = "hold" /\ s.fan \in SweptFan /\ SoundAt(s, "hold", duty[s.fan])
      /\ GoodAt(s, "hold") /\ s.step \in 0 .. Steps + 1 /\ duty \in [SweptFan -> Byte]
  BY SoundSweepAt DEF HoldEnds
<1>2. UNCHANGED fans /\ (Returns(g, Snapshot(s, 0, s.step), TRUE) \/ Returns(g, Phantom(s), FALSE))
  BY DEF HoldEnds
<1>3. Sound(Snapshot(s, 0, s.step)) /\ WholeRecord(Snapshot(s, 0, s.step))
  BY <1>1, SnapshotIsSound, SnapshotIsWhole, StopNumbers DEF SoundAt, GoodAt
<1>4. Sound(Phantom(s)) /\ WholeRecord(Phantom(s))
  BY <1>1, FinalIsSound, PhantomIsWhole DEF SoundAt
<1>5. OnlyDutyOf(s.fan)
  BY <1>1, <1>2, CommandsOnly
<1> QED BY <1>1, <1>2, <1>3, <1>4, <1>5, ReturnsSound DEF StopInv

\* ... may be written to the file, ...
LEMMA SaveSound ==
    ASSUME OneSweepEach, StopInv, NEW g \in Slot, Save(g)
    PROVE  SweepsSound' /\ RecordsSound'
<1> DEFINE s == sweep[g]
           t == [s EXCEPT !.pc = s.after, !.out = NoSweep.out, !.after = "free"]
<1>1. /\ s \in Sweep /\ s.pc = "save" /\ s.after \in {"step", "down", "close"} /\ s.fan \in SweptFan
      /\ SoundSweep(g, s, duty[s.fan]) /\ SoundAt(s, s.after, duty[s.fan]) /\ g \in Slots[s.fan]
      /\ duty \in [SweptFan -> Byte]
  BY SoundSweepAt DEF Save, GoodSweep, SoundSweep, Stage
<1>2. Becomes(g, t) /\ stored' \in {s.out, stored} /\ results' = results /\ UNCHANGED fans
  BY DEF Save
<1> HIDE DEF s
<1>3. NoSweep.out \in [SweptFan -> Result] /\ \A f \in SweptFan : Sound(NoSweep.out[f])
  BY NoSweepIsGood, BlankIsSound DEF GoodSweep, Sweep
<1>4. /\ t \in Sweep /\ t.pc = s.after /\ t.res = s.res /\ t.out = NoSweep.out /\ t.min = s.min
      /\ t.step = s.step /\ t.p = s.p /\ t.start = s.start /\ t.stop = s.stop /\ t.noFan = s.noFan
      /\ t.armed = s.armed /\ t.fan = s.fan /\ t.cancelled = s.cancelled /\ t.failed = s.failed
  BY <1>1, <1>3 DEF Sweep, Place
<1> HIDE DEF t
<1>5. UNCHANGED duty /\ OnlyDutyOf(s.fan)
  BY <1>1, <1>2, CommandsOnly DEF fans
<1>6. SoundAt(t, s.after, duty'[t.fan])
  BY <1>1, <1>4, <1>5 DEF SoundAt, Trusted
<1>7. SoundSweep(g, t, duty'[t.fan])
  BY <1>1, <1>3, <1>4, <1>6 DEF SoundSweep, Stage
<1>8. SweepsSound'
  BY <1>1, <1>2, <1>5, <1>7, BecomesSound DEF StopInv
<1>9. \A f \in SweptFan : Sound(results'[f]) /\ Sound(stored'[f])
  BY <1>1, <1>2 DEF StopInv, RecordsSound, SoundSweep
<1> QED BY <1>8, <1>9 DEF RecordsSound, Sound, HoldsFan, Trusted

\* ... turns at its start duty, ...
LEMMA TurnSound ==
    ASSUME OneSweepEach, StopInv, NEW g \in Slot, Turn(g)
    PROVE  SweepsSound'
<1> DEFINE s == sweep[g]
           q == IF s.p > 0 THEN s.p - 2 ELSE s.start
           t == [s EXCEPT !.pc = "down", !.p = q]
<1>1. /\ s \in Sweep /\ s.pc = "step" /\ Climbed(s) /\ s.fan \in SweptFan
      /\ SoundSweep(g, s, duty[s.fan]) /\ SoundAt(s, "step", duty[s.fan]) /\ g \in Slots[s.fan]
      /\ duty \in [SweptFan -> Byte] /\ s.step \in 0 .. Steps + 1 /\ s.p \in -1 .. Max /\ s.start \in Byte
  BY SoundSweepAt DEF Turn
<1>2. Becomes(g, t) /\ UNCHANGED fans
  BY DEF Turn
<1>3. ~s.armed
  BY <1>1, StopNumbers DEF SoundAt, Climbed
<1>4. q \in -1 .. Max /\ (Trusted(s) /\ q > 0 => q <= s.start /\ q + 2 >= StopsAt)
  BY <1>1, StopNumbers DEF SoundAt, Byte
<1> HIDE DEF s, q
<1>5. /\ t \in Sweep /\ t.pc = "down" /\ t.res = s.res /\ t.out = s.out
      /\ t.p = q /\ t.start = s.start /\ t.stop = s.stop
      /\ t.armed = s.armed /\ t.fan = s.fan /\ t.cancelled = s.cancelled /\ t.failed = s.failed
  BY <1>1, <1>4 DEF Sweep, Place
<1> HIDE DEF t
<1>6. SoundAt(t, "down", duty'[t.fan])
  BY <1>1, <1>3, <1>4, <1>5 DEF SoundAt, Trusted
<1>7. SoundSweep(g, t, duty'[t.fan])
  BY <1>1, <1>5, <1>6 DEF SoundSweep, Stage
<1> QED BY <1>1, <1>2, <1>7, BecomesSound, CommandsOnly DEF StopInv

\* ... descends while the fan goes on, ...
LEMMA DescendSound ==
    ASSUME OneSweepEach, StopInv, NEW g \in Slot, Descend(g)
    PROVE  SweepsSound'
<1> DEFINE s == sweep[g]
           t == [s EXCEPT !.pc = "fall"]
           r == Snapshot(s, s.p, Steps + 1)
<1>1. /\ s \in Sweep /\ s.pc = "down" /\ s.fan \in SweptFan /\ SoundSweep(g, s, duty[s.fan])
      /\ SoundAt(s, "down", duty[s.fan]) /\ GoodAt(s, "down") /\ g \in Slots[s.fan]
      /\ duty \in [SweptFan -> Byte] /\ s.p \in -1 .. Max
  BY SoundSweepAt DEF Descend
<1>2. \/ Returns(g, Final(s), FALSE) /\ UNCHANGED fans
      \/ s.p > 0 /\ s.cancelled /\ Returns(g, r, TRUE) /\ UNCHANGED fans
      \/ s.p > 0 /\ Commands(s.fan, s.p) /\ Becomes(g, t)
  <2>1. s.p <= 0 \/ (~(s.p <= 0) /\ s.p > 0)
    BY <1>1, StopNumbers
  <2> QED BY <2>1 DEF Descend
<1>3. CASE Returns(g, Final(s), FALSE) /\ UNCHANGED fans
  <2>1. Sound(Final(s)) /\ WholeRecord(Final(s))
    BY <1>1, FinalIsSound, FinalIsWhole DEF SoundAt
  <2> QED BY <1>1, <1>3, <2>1, ReturnsSound, CommandsOnly DEF StopInv
<1>4. CASE s.p > 0 /\ s.cancelled /\ Returns(g, r, TRUE) /\ UNCHANGED fans
  <2>1. HoldsFan(r) /\ WholeRecord(r)
    BY <1>1, <1>4, SnapshotHolds, DescentIsWhole DEF SoundAt
  <2> HIDE DEF r
  <2> QED BY <1>1, <1>4, <2>1, ReturnsSound, CommandsOnly DEF StopInv
<1>5. CASE s.p > 0 /\ Commands(s.fan, s.p) /\ Becomes(g, t)
  <2> HIDE DEF s
  <2>1. /\ t \in Sweep /\ t.pc = "fall" /\ t.res = s.res /\ t.out = s.out
        /\ t.p = s.p /\ t.start = s.start /\ t.stop = s.stop
        /\ t.armed = s.armed /\ t.fan = s.fan /\ t.cancelled = s.cancelled /\ t.failed = s.failed
    BY <1>1 DEF Sweep, Place
  <2> HIDE DEF t
  <2>2. duty'[t.fan] = s.p /\ OnlyDutyOf(s.fan)
    BY <1>1, <1>5, <2>1, CommandsOnly
  <2>3. SoundAt(t, "fall", duty'[t.fan])
    BY <1>1, <2>1, <2>2 DEF SoundAt, Trusted
  <2>4. SoundSweep(g, t, duty'[t.fan])
    BY <1>1, <2>1, <2>3 DEF SoundSweep, Stage
  <2> QED BY <1>1, <1>5, <2>2, <2>4, BecomesSound DEF StopInv
<1> QED BY <1>2, <1>3, <1>4, <1>5

\* A fan that goes on at p spins at p, so that StopsAt is not above p.
LEMMA FallAt ==
    ASSUME StopInv, NEW g \in Slot, sweep[g].pc = "fall"
    PROVE  /\ SoundAt(sweep[g], "fall", duty[sweep[g].fan]) /\ GoodAt(sweep[g], "fall")
           /\ sweep[g].p > 0 /\ sweep[g].p \in Byte /\ sweep[g].start \in Byte
           /\ Settled(sweep[g].fan, duty[sweep[g].fan]) => sweep[g].p >= StopsAt
<1> DEFINE s == sweep[g]
<1>1. /\ s \in Sweep /\ SoundAt(s, "fall", duty[s.fan]) /\ GoodAt(s, "fall") /\ s.fan \in SweptFan
      /\ s.p \in -1 .. Max /\ s.start \in Byte
  BY SoundSweepAt
<1>2. s.p > 0 /\ duty[s.fan] = s.p
  BY <1>1 DEF SoundAt, GoodAt
<1>3. s.p \in Byte
  BY <1>1, <1>2, StopNumbers DEF Byte
<1>4. rotor[s.fan] \in StopsAt .. Bytes
  BY <1>1, CalAssumption DEF StopInv, WholeInv, RestOK
<1>5. Settled(s.fan, duty[s.fan]) => s.p >= StopsAt
  BY <1>2, <1>3, <1>4, StopNumbers, CalAssumption DEF Settled, Byte
<1> QED BY <1>1, <1>2, <1>3, <1>5

\* ... stops two above the duty the fan stalled at, ...
LEMMA StallsSound ==
    ASSUME OneSweepEach, StopInv, NEW g \in Slot, Stalls(g)
    PROVE  SweepsSound'
<1> DEFINE s == sweep[g]
           t == [s EXCEPT !.stop = StopDuty(s.p)]
<1>1. /\ s \in Sweep /\ s.pc = "fall" /\ s.fan \in SweptFan /\ duty \in [SweptFan -> Byte]
      /\ SoundAt(s, "fall", duty[s.fan]) /\ GoodAt(s, "fall") /\ s.p > 0 /\ s.p \in Byte /\ s.start \in Byte
  BY SoundSweepAt, FallAt DEF Stalls
<1>2. Returns(g, Final(t), FALSE) /\ UNCHANGED duty
  BY DEF Stalls, Spins, fans
<1>3. StopDuty(s.p) \in Byte /\ (s.p + 2 <= Max => StopDuty(s.p) = s.p + 2)
  BY <1>1, StopIsByte
<1> HIDE DEF s
<1>4. /\ t \in Sweep /\ t.stop = StopDuty(s.p) /\ t.start = s.start /\ t.curve = s.curve
      /\ t.min = s.min /\ t.step = s.step /\ t.p = s.p /\ t.noFan = s.noFan
  BY <1>1, <1>3 DEF Sweep
<1> HIDE DEF t
<1>5. Trusted(t) /\ t.stop > 0 => t.stop >= StopsAt
  <2>1. SUFFICES ASSUME Trusted(s) PROVE StopDuty(s.p) >= StopsAt
    BY <1>4 DEF Trusted
  <2>2. s.p <= s.start /\ s.p + 2 >= StopsAt /\ s.start <= Max - 2
    BY <1>1, <2>1 DEF SoundAt, Trusted
  <2> QED BY <1>1, <1>3, <2>2, StopNumbers DEF Byte
<1>6. Sound(Final(t))
  BY <1>4, <1>5, FinalIsSound
<1>7. WholeRecord(Final(t))
  <2>1. GoodAt(t, "fall")
    BY <1>1, <1>4 DEF GoodAt
  <2> QED BY <1>4, <2>1, FinalIsWhole
<1> QED BY <1>1, <1>2, <1>6, <1>7, ReturnsSound, CommandsOnly DEF StopInv, s

\* ... checkpoints a duty the fan went on at, ...
LEMMA GoesOnSound ==
    ASSUME OneSweepEach, StopInv, NEW g \in Slot, GoesOn(g)
    PROVE  SweepsSound' /\ RecordsSound'
<1> DEFINE s == sweep[g]
           t == [s EXCEPT !.p = @ - 2]
           r == Snapshot(s, s.p, Steps + 1)
<1>1. /\ s \in Sweep /\ s.pc = "fall" /\ s.fan \in SweptFan /\ duty \in [SweptFan -> Byte]
      /\ SoundAt(s, "fall", duty[s.fan]) /\ GoodAt(s, "fall") /\ s.p > 0 /\ s.p \in Byte /\ s.start \in Byte
      /\ s.p >= StopsAt
  BY SoundSweepAt, FallAt DEF GoesOn
<1>2. Saves(g, t, r, "down") /\ UNCHANGED <<duty, stored>>
  BY DEF GoesOn, Spins
<1>3. Sound(r) /\ WholeRecord(r)
  <2>1. Trusted(s) => s.start >= StopsAt /\ s.p <= s.start
    BY <1>1, StopNumbers DEF SoundAt, Byte
  <2> QED BY <1>1, <2>1, DescentIsSound, DescentIsWhole DEF SoundAt
<1> HIDE DEF s, r
<1>4. s.p - 2 \in -1 .. Max
  BY <1>1, StopNumbers DEF Byte
<1>5. t = [s EXCEPT !.p = s.p - 2]
  BY <1>1 DEF Sweep
<1>6. /\ t \in Sweep /\ t.res = s.res /\ t.out = s.out
      /\ t.p = s.p - 2 /\ t.start = s.start /\ t.stop = s.stop
      /\ t.armed = s.armed /\ t.fan = s.fan /\ t.cancelled = s.cancelled /\ t.failed = s.failed
  BY <1>1, <1>4, <1>5 DEF Sweep
<1> HIDE DEF t
<1>7. SoundAt(t, "down", duty[t.fan])
  BY <1>1, <1>4, <1>6, StopNumbers DEF SoundAt, Trusted, Byte
<1>8. sweep[g].pc # "free" /\ t.fan = sweep[g].fan /\ t.out = sweep[g].out /\ t.res = sweep[g].res
       /\ t.cancelled = sweep[g].cancelled /\ t.failed = sweep[g].failed
  BY <1>1, <1>6 DEF s
<1> QED BY <1>2, <1>3, <1>6, <1>7, <1>8, SavesSound

\* ... may be interrupted there, ...
LEMMA FallEndsSound ==
    ASSUME OneSweepEach, StopInv, NEW g \in Slot, FallEnds(g)
    PROVE  SweepsSound'
<1> DEFINE s == sweep[g]
           r == Snapshot(s, s.p, Steps + 1)
<1>1. /\ s \in Sweep /\ s.pc = "fall" /\ s.fan \in SweptFan /\ duty \in [SweptFan -> Byte] /\ s.cancelled
      /\ SoundAt(s, "fall", duty[s.fan]) /\ GoodAt(s, "fall") /\ s.p > 0
  BY SoundSweepAt, FallAt DEF FallEnds
<1>2. Returns(g, r, TRUE) /\ UNCHANGED fans
  BY DEF FallEnds
<1>3. HoldsFan(r) /\ WholeRecord(r)
  BY <1>1, SnapshotHolds, DescentIsWhole DEF SoundAt
<1> HIDE DEF r
<1> QED BY <1>1, <1>2, <1>3, ReturnsSound, CommandsOnly DEF StopInv

\* What is kept is sound: a cancelled descent is marked as aborted.
LEMMA KeepSound ==
    ASSUME OneSweepEach, StopInv, NEW g \in Slot, Keep(g)
    PROVE  SweepsSound' /\ RecordsSound'
<1> DEFINE s == sweep[g]
           aborted == s.cancelled /\ (s.kind = "start" \/ s.failed)
           r == IF aborted THEN MarkAborted(s.res) ELSE s.res
           t == [s EXCEPT !.pc = "close"]
<1>1. /\ s \in Sweep /\ s.pc = "tail" /\ s.fan \in SweptFan /\ SoundSweep(g, s, duty[s.fan])
      /\ SoundAt(s, "tail", duty[s.fan]) /\ g \in Slots[s.fan] /\ duty \in [SweptFan -> Byte]
      /\ WholeRecord(s.res)
  BY SoundSweepAt DEF Keep, GoodSweep
<1>2. UNCHANGED <<duty, stored>> /\ ((Becomes(g, t) /\ UNCHANGED results) \/ Saves(g, s, r, "close"))
  BY DEF Keep, fans
<1>3. WholeRecord(r)
  BY <1>1, MarkedIsWhole DEF WholeRecord
<1>4. Sound(r)
  <2>1. CASE aborted
    BY <1>1, <2>1, MarkedIsSound DEF SoundSweep, Sound, WholeRecord
  <2>2. CASE ~aborted
    BY <1>1, <2>2 DEF SoundSweep
  <2> QED BY <2>1, <2>2
<1>5. SoundAt(s, "close", duty[s.fan])
  BY <1>1 DEF SoundAt
<1>6. CASE Becomes(g, t) /\ UNCHANGED results
  <2> HIDE DEF s
  <2>1. /\ t \in Sweep /\ t.pc = "close" /\ t.res = s.res /\ t.out = s.out /\ t.stop = s.stop
        /\ t.fan = s.fan /\ t.cancelled = s.cancelled /\ t.failed = s.failed
    BY <1>1 DEF Sweep, Place
  <2> HIDE DEF t
  <2>2. SoundSweep(g, t, duty'[t.fan])
    BY <1>1, <2>1 DEF SoundSweep, SoundAt, Stage
  <2>3. SweepsSound'
    BY <1>1, <1>2, <1>6, <2>2, BecomesSound, CommandsOnly DEF StopInv
  <2>4. \A f \in SweptFan : Sound(results'[f]) /\ Sound(stored'[f])
    BY <1>2, <1>6 DEF StopInv, RecordsSound
  <2> QED BY <2>3, <2>4 DEF RecordsSound, Sound, HoldsFan, Trusted
<1>7. CASE Saves(g, s, r, "close")
  <2> HIDE DEF r
  <2> QED BY <1>1, <1>2, <1>3, <1>4, <1>5, <1>7, SavesSound
<1> QED BY <1>2, <1>6, <1>7

\* ... may find no channel, ...
LEMMA UnresolvedSound ==
    ASSUME OneSweepEach, StopInv, NEW g \in Slot, Unresolved(g)
    PROVE  SweepsSound'
<1> DEFINE s == sweep[g]
           t == [s EXCEPT !.pc = "tail", !.failed = TRUE]
<1>1. /\ s \in Sweep /\ s.pc = "launched" /\ s.fan \in SweptFan /\ SoundSweep(g, s, duty[s.fan])
      /\ g \in Slots[s.fan]
  BY SoundSweepAt DEF Unresolved
<1>2. Becomes(g, t) /\ UNCHANGED duty
  BY DEF Unresolved, fans
<1> HIDE DEF s
<1>3. /\ t \in Sweep /\ t.pc = "tail" /\ t.res = s.res /\ t.out = s.out /\ t.stop = s.stop
      /\ t.fan = s.fan /\ t.cancelled = s.cancelled /\ t.failed = TRUE
  BY <1>1 DEF Sweep, Place
<1> HIDE DEF t
<1>4. SoundSweep(g, t, duty'[t.fan])
  BY <1>1, <1>3 DEF SoundSweep, SoundAt, Stage
<1> QED BY <1>1, <1>2, <1>4, BecomesSound DEF StopInv

\* ... gives its fan MinPWM, ...
LEMMA CleanupSound ==
    ASSUME OneSweepEach, StopInv, NEW g \in Slot, Cleanup(g)
    PROVE  SweepsSound'
<1> DEFINE s == sweep[g]
           t == [s EXCEPT !.pc = "stopping", !.running = FALSE]
<1>1. /\ s \in Sweep /\ s.pc = "cleanup" /\ s.fan \in SweptFan /\ SoundSweep(g, s, duty[s.fan])
      /\ g \in Slots[s.fan] /\ duty \in [SweptFan -> Byte]
  BY SoundSweepAt DEF Cleanup
<1>2. Becomes(g, t) /\ (Commands(s.fan, s.min) \/ UNCHANGED fans)
  BY DEF Cleanup
<1> HIDE DEF s
<1>3. /\ t \in Sweep /\ t.pc = "stopping" /\ t.res = s.res /\ t.out = s.out /\ t.stop = s.stop
      /\ t.fan = s.fan /\ t.cancelled = s.cancelled /\ t.failed = s.failed
  BY <1>1 DEF Sweep, Place
<1> HIDE DEF t
<1>4. SoundSweep(g, t, duty'[t.fan])
  BY <1>1, <1>3 DEF SoundSweep, SoundAt, Stage
<1>5. OnlyDutyOf(s.fan)
  BY <1>1, <1>2, CommandsOnly
<1> QED BY <1>1, <1>2, <1>4, <1>5, BecomesSound DEF StopInv

\* ... stops the sentinel, ...
LEMMA StopSentinelSound ==
    ASSUME OneSweepEach, StopInv, NEW g \in Slot, StopSentinel(g)
    PROVE  SweepsSound'
<1> DEFINE s == sweep[g]
           t == [s EXCEPT !.pc = "tail", !.armed = FALSE]
<1>1. /\ s \in Sweep /\ s.pc = "stopping" /\ s.fan \in SweptFan /\ SoundSweep(g, s, duty[s.fan])
      /\ g \in Slots[s.fan]
  BY SoundSweepAt DEF StopSentinel
<1>2. Becomes(g, t) /\ UNCHANGED duty
  BY DEF StopSentinel, fans
<1> HIDE DEF s
<1>3. /\ t \in Sweep /\ t.pc = "tail" /\ t.res = s.res /\ t.out = s.out /\ t.stop = s.stop
      /\ t.fan = s.fan /\ t.cancelled = s.cancelled /\ t.failed = s.failed
  BY <1>1 DEF Sweep, Place
<1> HIDE DEF t
<1>4. SoundSweep(g, t, duty'[t.fan])
  BY <1>1, <1>3 DEF SoundSweep, SoundAt, Stage
<1> QED BY <1>1, <1>2, <1>4, BecomesSound DEF StopInv

\* The sentinel writes its floor, but never under a descent.
LEMMA EscalateSound ==
    ASSUME OneSweepEach, StopInv, NEW g \in Slot, Escalate(g)
    PROVE  SweepsSound'
<1> DEFINE s == sweep[g]
           t == [s EXCEPT !.armed = FALSE]
<1>1. /\ s \in Sweep /\ s.armed /\ s.fan \in SweptFan /\ SoundSweep(g, s, duty[s.fan])
      /\ duty \in [SweptFan -> Byte]
  BY SoundSweepAt DEF Escalate
<1>2. Becomes(g, t) /\ (Commands(s.fan, Floor) \/ UNCHANGED fans)
  BY DEF Escalate
<1>3. s.pc # "free" /\ Stage(s) \notin {"free", "launched", "down", "fall"}
  <2>1. Stage(s) \notin {"free", "launched", "down", "fall"}
    BY <1>1 DEF SoundSweep, SoundAt
  <2> QED BY <2>1 DEF Stage
<1>4. OnlyDutyOf(s.fan) /\ (duty'[s.fan] = Floor \/ duty'[s.fan] = duty[s.fan])
  BY <1>1, <1>2, CommandsOnly DEF fans
<1> HIDE DEF s
<1>5. /\ t \in Sweep /\ t.pc = s.pc /\ t.after = s.after /\ t.res = s.res /\ t.out = s.out
      /\ t.min = s.min /\ t.step = s.step /\ t.p = s.p /\ t.start = s.start /\ t.stop = s.stop
      /\ ~t.armed /\ t.fan = s.fan /\ t.cancelled = s.cancelled /\ t.failed = s.failed
  BY <1>1 DEF Sweep, Place
<1> HIDE DEF t
<1>6. SoundAt(t, Stage(s), duty'[t.fan])
  <2> DEFINE at == Stage(s)
  <2>1. SoundAt(s, at, duty[s.fan]) /\ at \notin {"free", "launched", "down", "fall"}
    BY <1>1, <1>3 DEF SoundSweep
  <2> HIDE DEF at
  <2>2. SoundAt(t, at, duty'[t.fan])
    BY <2>1, <1>4, <1>5 DEF SoundAt, Trusted
  <2> QED BY <2>2 DEF at
<1>7. SoundSweep(g, t, duty'[t.fan])
  BY <1>1, <1>5, <1>6 DEF SoundSweep, Stage
<1> QED BY <1>1, <1>2, <1>3, <1>4, <1>7, BecomesSound DEF StopInv, SoundSweep

\* ... may be cancelled, ...
LEMMA AbortSound ==
    ASSUME OneSweepEach, StopInv, NEW f \in SweptFan, Abort(f)
    PROVE  SweepsSound'
<1> DEFINE g == runs[f]
           s == sweep[g]
           t == [s EXCEPT !.cancelled = TRUE]
<1>1. g \in Slot /\ Becomes(g, t) /\ UNCHANGED duty
  BY DEF Abort, StopInv, WholeInv, RestOK, fans
<1>2. s \in Sweep /\ SoundSweep(g, s, duty[s.fan])
  BY <1>1, SoundSweepAt
<1> HIDE DEF s, g
<1>3. /\ t \in Sweep /\ t.pc = s.pc /\ t.after = s.after /\ t.res = s.res /\ t.out = s.out
      /\ t.min = s.min /\ t.step = s.step /\ t.p = s.p /\ t.start = s.start /\ t.stop = s.stop
      /\ t.noFan = s.noFan /\ t.armed = s.armed /\ t.fan = s.fan /\ t.cancelled /\ t.failed = s.failed
  BY <1>2 DEF Sweep, Place
<1> HIDE DEF t
<1>4. SoundAt(t, Stage(s), duty'[t.fan])
  <2> DEFINE at == Stage(s)
  <2>1. SoundAt(s, at, duty[s.fan])
    BY <1>2 DEF SoundSweep
  <2> HIDE DEF at
  <2>2. SoundAt(t, at, duty'[t.fan])
    BY <2>1, <1>1, <1>3 DEF SoundAt, Trusted
  <2> QED BY <2>2 DEF at
<1>5. SoundSweep(g, t, duty'[t.fan])
  BY <1>2, <1>3, <1>4 DEF SoundSweep, Stage
<1> QED BY <1>1, <1>5, BecomesSound DEF StopInv

\* ... and ends.
LEMMA CloseSound ==
    ASSUME OneSweepEach, StopInv, NEW g \in Slot, Close(g)
    PROVE  SweepsSound'
<1>1. Becomes(g, NoSweep) /\ UNCHANGED duty
  BY DEF Close, Closes, fans
<1>2. SoundSweep(g, NoSweep, duty'[NoSweep.fan]) /\ sweep[g].fan \in SweptFan
  BY NoSweepIsSound, SoundSweepAt
<1> QED BY <1>1, <1>2, BecomesSound DEF StopInv

\* A request starts one where there was none.
LEMMA RequestSound ==
    ASSUME OneSweepEach, StopInv, NEW f \in SweptFan, NEW k, NEW m, NEW g \in Slot, Request(f, k, m, g)
    PROVE  SweepsSound'
<1>1. Becomes(g, Fresh(f, k, m)) /\ UNCHANGED duty /\ g \in Slots[f]
  BY DEF Request, fans
<1>2. SoundSweep(g, Fresh(f, k, m), duty'[Fresh(f, k, m).fan])
  BY <1>1, FreshIsSound
<1> QED BY <1>1, <1>2, BecomesSound DEF StopInv

\* The daemon comes back with the records of the file, or with none.
LEMMA RestartSound ==
    ASSUME StopInv, NEW changed \in BOOLEAN, Restart(changed)
    PROVE  SweepsSound' /\ RecordsSound'
<1>1. \A g \in Slot : SoundSweep(g, sweep'[g], duty'[sweep'[g].fan])
  BY NoSweepIsSound DEF Restart
<1>2. \A f \in SweptFan : Sound(results'[f]) /\ Sound(stored'[f])
  BY BlankIsSound DEF Restart, StopInv, RecordsSound
<1>3. SweepsSound'
  BY <1>1 DEF SweepsSound, SoundSweep, SoundAt, Sound, HoldsFan, Trusted, Stage
<1> QED BY <1>2, <1>3 DEF RecordsSound, Sound, HoldsFan, Trusted

\* The invariant holds at the start.
LEMMA StopInvInit == CalInit => StopInv
<1> SUFFICES ASSUME CalInit PROVE StopInv
  OBVIOUS
<1>1. SweepsSound
  BY NoSweepIsSound DEF CalInit, SweepsSound
<1>2. RecordsSound
  BY BlankIsSound DEF CalInit, RecordsSound
<1> QED BY <1>1, <1>2, WholeInvInit DEF StopInv

\* Every step keeps it.
LEMMA StopInvStep ==
    ASSUME OneSweepEach
    PROVE  StopInv /\ [CalNext]_calVars => StopInv'
<1> SUFFICES ASSUME StopInv, [CalNext]_calVars PROVE SweepsSound' /\ RecordsSound'
  BY WholeInvStep DEF StopInv
<1>1. ASSUME UNCHANGED store PROVE RecordsSound'
  BY <1>1 DEF StopInv, RecordsSound, store, Sound, HoldsFan, Trusted
<1>2. CASE UNCHANGED calVars
  <2>1. UNCHANGED <<sweep, duty>> /\ UNCHANGED store
    BY <1>2 DEF calVars, fans
  <2>2. \A g \in Slot : SoundSweep(g, sweep'[g], duty'[sweep'[g].fan])
    BY <2>1, Zenon DEF StopInv, SweepsSound
  <2>3. SweepsSound'
    BY <2>2 DEF SweepsSound, SoundSweep, SoundAt, Sound, HoldsFan, Trusted, Stage
  <2> QED BY <1>1, <2>1, <2>3
<1>3. CASE CalNext
  <2>1. CASE \E f \in SweptFan, k \in Kinds, m \in Mins, g \in Slot : Request(f, k, m, g)
    BY <2>1, <1>1, RequestSound DEF Request
  <2>2. CASE \E f \in SweptFan : Abort(f)
    BY <2>2, <1>1, AbortSound DEF Abort
  <2>3. ASSUME NEW g \in Slot, SweepStep(g) \/ Escalate(g) PROVE SweepsSound' /\ RecordsSound'
    <3>1. CASE Unresolved(g) \/ Cleanup(g) \/ StopSentinel(g) \/ Escalate(g) \/ Close(g)
      BY <1>1, <3>1, UnresolvedSound, CleanupSound, StopSentinelSound, EscalateSound, CloseSound
         DEF Unresolved, Cleanup, StopSentinel, Escalate, Close, Closes
    <3>2. CASE Begin(g) \/ Climb(g) \/ SetSentinel(g) \/ HoldEnds(g)
      BY <1>1, <3>2, BeginSound, ClimbSound, SetSound, HoldEndsSound
         DEF Begin, Climb, SetSentinel, HoldEnds
    <3>3. CASE Turn(g) \/ Descend(g) \/ Stalls(g) \/ FallEnds(g)
      BY <1>1, <3>3, TurnSound, DescendSound, StallsSound, FallEndsSound
         DEF Turn, Descend, Stalls, FallEnds
    <3>4. CASE Sample(g) \/ Save(g) \/ GoesOn(g) \/ Keep(g)
      BY <3>4, SampleSound, SaveSound, GoesOnSound, KeepSound
    <3> QED BY <2>3, <3>1, <3>2, <3>3, <3>4 DEF SweepStep
  <2>4. CASE \E changed \in BOOLEAN : Restart(changed)
    BY <2>4, RestartSound
  <2> QED BY <1>3, <2>1, <2>2, <2>3, <2>4 DEF CalNext
<1> QED BY <1>2, <1>3

\* However a sweep was interrupted, resumed, failed or restarted: its curve is
\* whole, and its stop duty keeps a spinning fan spinning.
THEOREM CurvesAreSound ==
    ASSUME OneSweepEach
    PROVE  CalSpec => []CurveIsSound
<1>1. StopInv => CurveIsSound
  BY WholeIsCurve DEF StopInv, RecordsSound, Sound, HoldsFan, Trusted, CurveIsSound, StopHolds
<1> QED BY <1>1, StopInvInit, StopInvStep, PTL DEF CalSpec

-----------------------------------------------------------------------------
(* Aborts.                                                                 *)

\* There is one sweep at a time, of whatever fan.
OneSweep == \A g, h \in Slot : g = h

\* Where a sweep is running.
Busy == {"step", "set", "hold", "down", "fall", "cleanup"}

\* Slot g sweeps fan f.
Active(f, g) == sweep[g].pc # "free" /\ sweep[g].fan = f

\* The aborted sweep s of fan f goes on to its end: what it then leaves, in memory
\* and in the file, is no checkpoint.
Ending(f, s) ==
    /\ s.cancelled /\ s.kind = "start" /\ Stage(s) \notin {"free", "launched"}
    /\ Stage(s) = "close" =>
         ~results[f].partial /\ (IF s.pc = "save" THEN ~s.out[f].partial ELSE ~stored[f].partial)

\* It has ended, and no other sweep is about to write a checkpoint of f.
Ended(f) ==
    /\ ~results[f].partial /\ ~stored[f].partial
    /\ \A g \in Slot : /\ sweep[g].pc = "save" => ~sweep[g].out[f].partial
                       /\ ~Active(f, g)

\* The inductive invariant of aborts: who is waited for is at work, and a sweep
\* that runs is not yet at its record.
AbortInv ==
    /\ \A f \in SweptFan : runs[f] # Nobody => Active(f, runs[f])
    /\ \A f \in SweptFan : waiting[f] # Nobody => Active(f, waiting[f])
    /\ \A g \in Slot : sweep[g].running => Stage(sweep[g]) \in Busy
    /\ \A f \in SweptFan : aborting[f] =>
         IF waiting[f] = Nobody THEN Ended(f) ELSE Ending(f, sweep[waiting[f]])

\* What is known of the one sweep.
LEMMA OneSweepAt ==
    ASSUME OneSweep, WholeInv, NEW g \in Slot, NEW t, Becomes(g, t)
    PROVE  /\ sweep' = [h \in Slot |-> t]
           /\ \A f \in SweptFan : runs[f] \in {g, Nobody} /\ waiting[f] \in {g, Nobody}
           /\ g # Nobody
<1>1. \A h \in Slot : h = g
  BY DEF OneSweep
<1>2. sweep \in [Slot -> Sweep] /\ sweep' = [sweep EXCEPT ![g] = t]
  BY DEF WholeInv, SweepsOK, Becomes
<1>3. sweep' = [h \in Slot |-> t]
  BY <1>1, <1>2
<1>4. \A f \in SweptFan : runs[f] \in Slot \cup {Nobody} /\ waiting[f] \in Slot \cup {Nobody}
  BY DEF WholeInv, RestOK
<1>5. \A h \in Slot \cup {Nobody} : h \in {g, Nobody}
  BY <1>1
<1> QED BY <1>3, <1>4, <1>5, CalAssumption

\* A step of a sweep that writes no record.
LEMMA QuietAborts ==
    ASSUME OneSweep, WholeInv, AbortInv, NEW g \in Slot, NEW t, Becomes(g, t),
           sweep[g].pc \notin {"free", "save", "close"},
           t.pc \notin {"free", "launched", "save", "close"},
           t.fan = sweep[g].fan, t.kind = sweep[g].kind, t.cancelled = sweep[g].cancelled,
           t.running => t.pc \in Busy,
           UNCHANGED <<store, client>>
    PROVE  AbortInv'
<1>1. /\ sweep' = [h \in Slot |-> t] /\ g # Nobody
      /\ \A f \in SweptFan : runs[f] \in {g, Nobody} /\ waiting[f] \in {g, Nobody}
      /\ \A h \in Slot : h = g
  BY OneSweepAt DEF OneSweep
<1>2. Stage(t) = t.pc
  BY DEF Stage
<1>3. UNCHANGED <<runs, waiting, aborting, results, stored>>
  BY DEF client, store
<1>4. \A f \in SweptFan : (runs'[f] # Nobody => Active(f, runs[f])') /\ (waiting'[f] # Nobody => Active(f, waiting[f])')
  BY <1>1, <1>3 DEF AbortInv, Active
<1>5. \A h \in Slot : sweep'[h].running => Stage(sweep'[h]) \in Busy
  BY <1>1, <1>2
<1>6. ASSUME NEW f \in SweptFan, aborting'[f]
      PROVE  IF waiting'[f] = Nobody THEN Ended(f)' ELSE Ending(f, sweep[waiting[f]])'
  <2>1. CASE waiting[f] = Nobody
    BY <1>1, <1>3, <1>6, <2>1 DEF AbortInv, Ended, Active
  <2>2. CASE waiting[f] # Nobody
    BY <1>1, <1>2, <1>3, <1>6, <2>2 DEF AbortInv, Ending, Stage
  <2> QED BY <1>3, <2>1, <2>2
<1> QED BY <1>4, <1>5, <1>6 DEF AbortInv, Stage

\* So is the return of a sweep.
LEMMA ReturnsAborts ==
    ASSUME OneSweep, WholeInv, AbortInv, NEW g \in Slot, NEW r \in Result, NEW failed \in BOOLEAN,
           Returns(g, r, failed), sweep[g].pc \notin {"free", "save", "close"},
           UNCHANGED <<store, client>>
    PROVE  AbortInv'
<1> DEFINE s == sweep[g]
           t == [s EXCEPT !.pc = "cleanup", !.res = r, !.failed = failed]
<1>1. s \in Sweep /\ Becomes(g, t)
  BY SweepAt DEF WholeInv, Returns
<1> HIDE DEF s
<1>2. t.pc = "cleanup" /\ t.fan = s.fan /\ t.kind = s.kind /\ t.cancelled = s.cancelled
  BY <1>1 DEF Sweep, Place
<1> HIDE DEF t
<1> QED BY <1>1, <1>2, QuietAborts DEF s, Busy

\* A step of a sweep that checkpoints.
LEMMA CheckpointAborts ==
    ASSUME OneSweep, WholeInv, AbortInv, NEW g \in Slot, NEW s \in Sweep, NEW r \in Result,
           NEW at \in {"step", "down"}, Saves(g, s, r, at),
           sweep[g].pc \notin {"free", "save", "close"},
           s.fan = sweep[g].fan, s.kind = sweep[g].kind, s.cancelled = sweep[g].cancelled,
           UNCHANGED <<stored, client>>
    PROVE  AbortInv'
<1> DEFINE t == [s EXCEPT !.pc = "save", !.out = results', !.after = at]
<1>1. results' = [results EXCEPT ![s.fan] = r] /\ Becomes(g, t)
  BY DEF Saves
<1>2. results' \in [SweptFan -> Result] /\ \A f \in SweptFan : f # s.fan => results'[f] = results[f]
  BY <1>1 DEF WholeInv, RecordsOK, Sweep
<1>3. t.pc = "save" /\ t.after = at /\ t.out = results' /\ t.fan = s.fan /\ t.kind = s.kind /\ t.cancelled = s.cancelled
  BY <1>2 DEF Sweep, Place
<1> HIDE DEF t
<1>4. /\ sweep' = [h \in Slot |-> t] /\ g # Nobody
      /\ \A f \in SweptFan : runs[f] \in {g, Nobody} /\ waiting[f] \in {g, Nobody}
      /\ \A h \in Slot : h = g
  BY <1>1, OneSweepAt DEF OneSweep
<1>5. Stage(t) = at
  BY <1>3 DEF Stage
<1>6. UNCHANGED <<runs, waiting, aborting, stored>>
  BY DEF client
<1>7. \A f \in SweptFan : (runs'[f] # Nobody => Active(f, runs[f])') /\ (waiting'[f] # Nobody => Active(f, waiting[f])')
  BY <1>3, <1>4, <1>6 DEF AbortInv, Active
<1>8. \A h \in Slot : sweep'[h].running => Stage(sweep'[h]) \in Busy
  BY <1>4, <1>5 DEF Busy
<1>9. ASSUME NEW f \in SweptFan, aborting'[f]
      PROVE  IF waiting'[f] = Nobody THEN Ended(f)' ELSE Ending(f, sweep[waiting[f]])'
  <2>1. CASE waiting[f] = Nobody
    <3>1. Ended(f) /\ f # s.fan
      BY <1>6, <1>9, <2>1 DEF AbortInv, Ended, Active
    <3> QED BY <1>2, <1>3, <1>4, <1>6, <2>1, <3>1 DEF Ended, Active
  <2>2. CASE waiting[f] # Nobody
    <3>1. waiting[f] = g /\ Ending(f, sweep[g])
      BY <1>4, <1>6, <1>9, <2>2 DEF AbortInv
    <3> QED BY <1>3, <1>4, <1>5, <1>6, <2>2, <3>1 DEF Ending, Stage
  <2> QED BY <1>6, <2>1, <2>2
<1> QED BY <1>7, <1>8, <1>9 DEF AbortInv, Stage

\* A sample is one, ...
LEMMA SampleAborts ==
    ASSUME OneSweep, WholeInv, AbortInv, NEW g \in Slot, Sample(g)
    PROVE  AbortInv'
<1> DEFINE s == sweep[g]
<1>0. PICK rpm \in BOOLEAN : rpm = Settled(s.fan, duty[s.fan])
  BY DEF Settled, WholeInv, RestOK
<1> DEFINE t == Sampled(s, rpm)
<1>1. s \in Sweep /\ s.pc = "hold" /\ GoodAt(s, "hold")
  BY SweepAt DEF WholeInv, Sample
<1>2. Saves(g, t, Snapshot(t, 0, t.step), "step") /\ UNCHANGED <<stored, client>>
  BY <1>0 DEF Sample, Sampled
<1>3. /\ t \in Sweep /\ t.curve = Ladder(t.min, t.step) /\ t.step \in 0 .. Steps + 1
      /\ t.fan = s.fan /\ t.kind = s.kind /\ t.cancelled = s.cancelled
  BY <1>1, SampledFields
<1> HIDE DEF t
<1>4. Snapshot(t, 0, t.step) \in Result
  BY <1>3, SnapshotIsWhole, NumbersOK DEF WholeRecord
<1> QED BY <1>1, <1>2, <1>3, <1>4, CheckpointAborts

\* ... and so is a step down.
LEMMA GoesOnAborts ==
    ASSUME OneSweep, WholeInv, AbortInv, NEW g \in Slot, GoesOn(g)
    PROVE  AbortInv'
<1> DEFINE s == sweep[g]
           t == [s EXCEPT !.p = @ - 2]
<1>1. s \in Sweep /\ s.pc = "fall" /\ GoodAt(s, "fall") /\ s.p > 0 /\ s.p \in -1 .. Max
  BY SweepAt DEF WholeInv, GoesOn, GoodAt
<1>2. Saves(g, t, Snapshot(s, s.p, Steps + 1), "down") /\ UNCHANGED <<stored, client>>
  BY DEF GoesOn
<1>3. Snapshot(s, s.p, Steps + 1) \in Result
  BY <1>1, DescentIsWhole DEF WholeRecord
<1> HIDE DEF s
<1>4. s.p - 2 \in -1 .. Max
  BY <1>1, NumbersOK
<1>5. t \in Sweep /\ t.fan = s.fan /\ t.kind = s.kind /\ t.cancelled = s.cancelled
  BY <1>1, <1>4 DEF Sweep
<1> HIDE DEF t
<1> QED BY <1>1, <1>2, <1>3, <1>5, CheckpointAborts DEF s

\* The steps of a sweep that touch neither a record nor the file.
LEMMA PlainAborts ==
    ASSUME OneSweep, WholeInv, AbortInv, NEW g \in Slot,
           \/ Unresolved(g) \/ Begin(g) \/ SetSentinel(g) \/ Turn(g) \/ Cleanup(g) \/ StopSentinel(g)
    PROVE  AbortInv'
<1> DEFINE s == sweep[g]
<1>1. s \in Sweep /\ s.pc \in Place /\ (s.running => Stage(s) \in Busy)
  BY SweepAt DEF WholeInv, AbortInv, Sweep
<1>2. UNCHANGED <<store, client>>
  BY DEF Unresolved, Begin, SetSentinel, Turn, Cleanup, StopSentinel
<1>3. CASE Unresolved(g)
  <2> DEFINE t == [s EXCEPT !.pc = "tail", !.failed = TRUE]
  <2>1. Becomes(g, t) /\ s.pc = "launched"
    BY <1>3 DEF Unresolved
  <2> HIDE DEF s
  <2>2. t.pc = "tail" /\ t.fan = s.fan /\ t.kind = s.kind /\ t.cancelled = s.cancelled /\ t.running = s.running
    BY <1>1 DEF Sweep
  <2> HIDE DEF t
  <2>3. ~t.running
    BY <1>1, <2>1, <2>2 DEF Stage, Busy
  <2> QED BY <1>2, <2>1, <2>2, <2>3, QuietAborts DEF s
<1>4. CASE Begin(g)
  <2>1. PICK step, p, start, curve :
          /\ Becomes(g, [s EXCEPT !.pc = "step", !.running = TRUE, !.step = step, !.p = p,
                                  !.start = start, !.curve = curve])
          /\ s.pc = "launched"
    BY <1>4 DEF Begin
  <2> DEFINE t == [s EXCEPT !.pc = "step", !.running = TRUE, !.step = step, !.p = p,
                            !.start = start, !.curve = curve]
  <2> HIDE DEF s
  <2>2. t.pc = "step" /\ t.fan = s.fan /\ t.kind = s.kind /\ t.cancelled = s.cancelled
    BY <1>1 DEF Sweep
  <2>3. Becomes(g, t)
    BY <2>1
  <2> HIDE DEF t
  <2> QED BY <1>2, <2>1, <2>2, <2>3, QuietAborts DEF s, Busy
<1>5. CASE SetSentinel(g)
  <2>1. PICK b : Becomes(g, [s EXCEPT !.pc = "hold", !.armed = b]) /\ s.pc = "set"
    BY <1>5 DEF SetSentinel
  <2> DEFINE t == [s EXCEPT !.pc = "hold", !.armed = b]
  <2> HIDE DEF s
  <2>2. t.pc = "hold" /\ t.fan = s.fan /\ t.kind = s.kind /\ t.cancelled = s.cancelled
    BY <1>1 DEF Sweep
  <2>3. Becomes(g, t)
    BY <2>1
  <2> HIDE DEF t
  <2> QED BY <1>2, <2>1, <2>2, <2>3, QuietAborts DEF s, Busy
<1>6. CASE Turn(g)
  <2>1. PICK p : Becomes(g, [s EXCEPT !.pc = "down", !.p = p]) /\ s.pc = "step"
    BY <1>6 DEF Turn
  <2> DEFINE t == [s EXCEPT !.pc = "down", !.p = p]
  <2> HIDE DEF s
  <2>2. t.pc = "down" /\ t.fan = s.fan /\ t.kind = s.kind /\ t.cancelled = s.cancelled
    BY <1>1 DEF Sweep
  <2>3. Becomes(g, t)
    BY <2>1
  <2> HIDE DEF t
  <2> QED BY <1>2, <2>1, <2>2, <2>3, QuietAborts DEF s, Busy
<1>7. CASE Cleanup(g)
  <2> DEFINE t == [s EXCEPT !.pc = "stopping", !.running = FALSE]
  <2>1. Becomes(g, t) /\ s.pc = "cleanup"
    BY <1>7 DEF Cleanup
  <2> HIDE DEF s
  <2>2. t.pc = "stopping" /\ t.fan = s.fan /\ t.kind = s.kind /\ t.cancelled = s.cancelled /\ ~t.running
    BY <1>1 DEF Sweep
  <2> HIDE DEF t
  <2> QED BY <1>2, <2>1, <2>2, QuietAborts DEF s
<1>8. CASE StopSentinel(g)
  <2> DEFINE t == [s EXCEPT !.pc = "tail", !.armed = FALSE]
  <2>1. Becomes(g, t) /\ s.pc = "stopping"
    BY <1>8 DEF StopSentinel
  <2> HIDE DEF s
  <2>2. t.pc = "tail" /\ t.fan = s.fan /\ t.kind = s.kind /\ t.cancelled = s.cancelled /\ t.running = s.running
    BY <1>1 DEF Sweep
  <2> HIDE DEF t
  <2>3. ~t.running
    BY <1>1, <2>1, <2>2 DEF Stage, Busy
  <2> QED BY <1>2, <2>1, <2>2, <2>3, QuietAborts DEF s
<1> QED BY <1>3, <1>4, <1>5, <1>6, <1>7, <1>8

\* The steps of a ramp that write no record.
LEMMA RampAborts ==
    ASSUME OneSweep, WholeInv, AbortInv, NEW g \in Slot,
           Climb(g) \/ HoldEnds(g) \/ Descend(g) \/ Stalls(g) \/ FallEnds(g)
    PROVE  AbortInv'
<1> DEFINE s == sweep[g]
<1>1. s \in Sweep /\ s.pc \in {"step", "hold", "down", "fall"} /\ GoodAt(s, s.pc) /\ s.p \in -1 .. Max
      /\ s.step \in 0 .. Steps + 1
  BY SweepAt DEF WholeInv, Climb, HoldEnds, Descend, Stalls, FallEnds
<1>2. UNCHANGED <<store, client>>
  BY DEF Climb, HoldEnds, Descend, Stalls, FallEnds
<1>3. ASSUME NEW r \in Result, NEW failed \in BOOLEAN, Returns(g, r, failed)
      PROVE  AbortInv'
  BY <1>1, <1>2, <1>3, ReturnsAborts
<1>4. ASSUME NEW at \in {"set", "fall"}, Becomes(g, [s EXCEPT !.pc = at])
      PROVE  AbortInv'
  <2> DEFINE t == [s EXCEPT !.pc = at]
  <2> HIDE DEF s
  <2>1. t.pc = at /\ t.fan = s.fan /\ t.kind = s.kind /\ t.cancelled = s.cancelled
    BY <1>1 DEF Sweep
  <2>2. Becomes(g, t)
    BY <1>4
  <2> HIDE DEF t
  <2> QED BY <1>1, <1>2, <2>1, <2>2, QuietAborts DEF s, Busy
<1>5. CASE Climb(g)
  <2>1. Snapshot(s, 0, s.step) \in Result
    BY <1>1, <1>5, SnapshotIsWhole, NumbersOK DEF Climb, GoodAt, WholeRecord
  <2> QED BY <1>3, <1>4, <1>5, <2>1 DEF Climb
<1>6. CASE HoldEnds(g)
  <2>1. Snapshot(s, 0, s.step) \in Result /\ Phantom(s) \in Result
    BY <1>1, <1>6, SnapshotIsWhole, PhantomIsWhole, NumbersOK DEF HoldEnds, GoodAt, WholeRecord
  <2> QED BY <1>3, <1>6, <2>1 DEF HoldEnds
<1>7. CASE Descend(g)
  <2>1. Final(s) \in Result
    BY <1>1, FinalFields
  <2>2. s.p > 0 => Snapshot(s, s.p, Steps + 1) \in Result
    BY <1>1, <1>7, DescentIsWhole DEF Descend, WholeRecord
  <2>3. s.p <= 0 \/ (~(s.p <= 0) /\ s.p > 0)
    BY <1>1, NumbersOK
  <2> QED BY <1>3, <1>4, <1>7, <2>1, <2>2, <2>3 DEF Descend
<1>8. CASE Stalls(g)
  <2> DEFINE t == [s EXCEPT !.stop = StopDuty(s.p)]
  <2>1. s.p \in Byte
    BY <1>1, <1>8, NumbersOK DEF Stalls, GoodAt, Byte
  <2>2. StopDuty(s.p) \in Byte
    BY <2>1, StopIsByte
  <2>3. t \in Sweep
    BY <1>1, <2>2 DEF Sweep
  <2>4. Final(t) \in Result
    BY <2>3, FinalFields
  <2> QED BY <1>3, <1>8, <2>4 DEF Stalls
<1>9. CASE FallEnds(g)
  <2>1. Snapshot(s, s.p, Steps + 1) \in Result
    BY <1>1, <1>9, DescentIsWhole DEF FallEnds, GoodAt, WholeRecord
  <2> QED BY <1>3, <1>9, <2>1 DEF FallEnds
<1> QED BY <1>5, <1>6, <1>7, <1>8, <1>9

\* The record of an aborted sweep is marked before it is saved.
LEMMA KeepAborts ==
    ASSUME OneSweep, WholeInv, AbortInv, NEW g \in Slot, Keep(g)
    PROVE  AbortInv'
<1> DEFINE s == sweep[g]
           aborted == s.cancelled /\ (s.kind = "start" \/ s.failed)
           r == IF aborted THEN MarkAborted(s.res) ELSE s.res
<1>1. /\ s \in Sweep /\ s.pc = "tail" /\ s.fan \in SweptFan /\ WholeRecord(s.res)
      /\ s.running => Stage(s) \in Busy
  BY SweepAt DEF WholeInv, Keep, AbortInv
<1>2. ~s.running
  BY <1>1 DEF Stage, Busy
<1>3. r \in Result /\ (aborted => ~r.partial)
  BY <1>1, MarkedIsWhole DEF WholeRecord
<1>4. /\ UNCHANGED <<stored, client>>
      /\ \/ s.kind = "sync" /\ Becomes(g, [s EXCEPT !.pc = "close"]) /\ UNCHANGED results
         \/ Saves(g, s, r, "close")
  BY DEF Keep
<1>5. PICK t : /\ Becomes(g, t) /\ t.pc \in {"save", "close"} /\ Stage(t) = "close" /\ ~t.running
               /\ t.fan = s.fan /\ t.kind = s.kind /\ t.cancelled = s.cancelled
               /\ t.pc = "save" => t.out = results'
               /\ s.kind = "start" => results' = [results EXCEPT ![s.fan] = r] /\ t.pc = "save"
               /\ \A f \in SweptFan : f # s.fan => results'[f] = results[f]
  <2> HIDE DEF s, r
  <2>1. CASE s.kind = "sync" /\ Becomes(g, [s EXCEPT !.pc = "close"]) /\ UNCHANGED results
    <3> DEFINE t == [s EXCEPT !.pc = "close"]
    <3>1. t.pc = "close" /\ t.fan = s.fan /\ t.kind = s.kind /\ t.cancelled = s.cancelled /\ t.running = s.running
      BY <1>1 DEF Sweep
    <3>2. Becomes(g, t)
      BY <2>1
    <3> HIDE DEF t
    <3> QED BY <1>2, <2>1, <3>1, <3>2 DEF Stage
  <2>2. CASE Saves(g, s, r, "close")
    <3> DEFINE t == [s EXCEPT !.pc = "save", !.out = results', !.after = "close"]
    <3>1. results' = [results EXCEPT ![s.fan] = r] /\ Becomes(g, t)
      BY <2>2 DEF Saves
    <3>2. /\ t.pc = "save" /\ t.after = "close" /\ t.out = results' /\ t.fan = s.fan /\ t.kind = s.kind
          /\ t.cancelled = s.cancelled /\ t.running = s.running
      BY <1>1 DEF Sweep
    <3>3. \A f \in SweptFan : f # s.fan => results'[f] = results[f]
      BY <3>1 DEF WholeInv, RecordsOK
    <3> HIDE DEF t
    <3> QED BY <1>2, <3>1, <3>2, <3>3 DEF Stage
  <2> QED BY <1>4, <2>1, <2>2
<1>6. /\ sweep' = [h \in Slot |-> t] /\ g # Nobody
      /\ \A f \in SweptFan : runs[f] \in {g, Nobody} /\ waiting[f] \in {g, Nobody}
      /\ \A h \in Slot : h = g
  BY <1>5, OneSweepAt DEF OneSweep
<1>7. UNCHANGED <<runs, waiting, aborting, stored>>
  BY <1>4 DEF client
<1> HIDE DEF r
<1>8. \A f \in SweptFan : (runs'[f] # Nobody => Active(f, runs[f])') /\ (waiting'[f] # Nobody => Active(f, waiting[f])')
  BY <1>5, <1>6, <1>7 DEF AbortInv, Active
<1>9. \A h \in Slot : sweep'[h].running => Stage(sweep'[h]) \in Busy
  BY <1>5, <1>6
<1>10. ASSUME NEW f \in SweptFan, aborting'[f]
       PROVE  IF waiting'[f] = Nobody THEN Ended(f)' ELSE Ending(f, sweep[waiting[f]])'
  <2>1. CASE waiting[f] = Nobody
    <3>1. Ended(f) /\ f # s.fan
      BY <1>1, <1>6, <1>7, <1>10, <2>1 DEF AbortInv, Ended, Active
    <3> QED BY <1>5, <1>6, <1>7, <2>1, <3>1 DEF Ended, Active
  <2>2. CASE waiting[f] # Nobody
    <3>1. waiting[f] = g /\ Ending(f, s) /\ s.fan = f
      BY <1>6, <1>7, <1>10, <2>2 DEF AbortInv, Active
    <3>2. aborted /\ s.kind = "start"
      BY <3>1 DEF Ending
    <3>3. ~results'[f].partial /\ t.pc = "save" /\ t.out = results'
      BY <1>1, <1>3, <1>5, <3>1, <3>2 DEF WholeInv, RecordsOK
    <3>4. Ending(f, sweep[g])'
      BY <1>5, <1>6, <3>1, <3>3 DEF Ending, Stage
    <3> QED BY <1>7, <2>2, <3>1, <3>4
  <2> QED BY <1>7, <2>1, <2>2
<1> QED BY <1>8, <1>9, <1>10 DEF AbortInv, Stage

\* The file gets what was marshalled, or the abort is no longer promised.
LEMMA SaveAborts ==
    ASSUME OneSweep, WholeInv, AbortInv, NEW g \in Slot, Save(g)
    PROVE  AbortInv'
<1> DEFINE s == sweep[g]
           t == [s EXCEPT !.pc = s.after, !.out = NoSweep.out, !.after = "free"]
<1>1. /\ s \in Sweep /\ s.pc = "save" /\ s.after \in {"step", "down", "close"} /\ s.fan \in SweptFan
      /\ s.running => Stage(s) \in Busy
  BY SweepAt DEF WholeInv, Save, GoodSweep, AbortInv
<1>2. /\ Becomes(g, t) /\ UNCHANGED <<results, runs, waiting>>
      /\ \/ stored' = s.out /\ UNCHANGED aborting
         \/ UNCHANGED stored /\ aborting' = [aborting EXCEPT ![s.fan] = @ /\ s.after # "close"]
  BY DEF Save
<1> HIDE DEF s
<1>3. /\ t.pc = s.after /\ t.fan = s.fan /\ t.kind = s.kind /\ t.cancelled = s.cancelled
      /\ t.running = s.running
  BY <1>1 DEF Sweep
<1> HIDE DEF t
<1>4. Stage(t) = s.after /\ Stage(s) = s.after
  BY <1>1, <1>3 DEF Stage
<1>5. /\ sweep' = [h \in Slot |-> t] /\ g # Nobody
      /\ \A f \in SweptFan : runs[f] \in {g, Nobody} /\ waiting[f] \in {g, Nobody}
      /\ \A h \in Slot : h = g
  BY <1>2, OneSweepAt DEF OneSweep
<1>6. \A f \in SweptFan : (runs'[f] # Nobody => Active(f, runs[f])') /\ (waiting'[f] # Nobody => Active(f, waiting[f])')
  BY <1>1, <1>2, <1>3, <1>5 DEF AbortInv, Active, s
<1>7. \A h \in Slot : sweep'[h].running => Stage(sweep'[h]) \in Busy
  BY <1>1, <1>3, <1>4, <1>5
<1>8. ASSUME NEW f \in SweptFan, aborting'[f]
      PROVE  IF waiting'[f] = Nobody THEN Ended(f)' ELSE Ending(f, sweep[waiting[f]])'
  <2>0. /\ aborting[f]
        /\ stored' = s.out \/ (UNCHANGED stored /\ (f = s.fan => s.after # "close"))
    BY <1>2, <1>8 DEF WholeInv, RestOK
  <2>1. CASE waiting[f] = Nobody
    <3>1. Ended(f) /\ f # s.fan
      BY <1>1, <2>0, <2>1 DEF AbortInv, Ended, Active, s
    <3>2. ~s.out[f].partial
      BY <1>1, <3>1 DEF Ended, s
    <3> QED BY <1>1, <1>2, <1>3, <1>5, <2>0, <2>1, <3>1, <3>2 DEF Ended, Active
  <2>2. CASE waiting[f] # Nobody
    <3>1. waiting[f] = g /\ Ending(f, s) /\ s.fan = f
      BY <1>5, <2>0, <2>2 DEF AbortInv, Active, s
    <3>2. sweep'[g] = t /\ t.cancelled /\ t.kind = "start" /\ Stage(t) \notin {"free", "launched"}
      BY <1>3, <1>4, <1>5, <3>1 DEF Ending
    <3>3. t.pc # "save"
      BY <1>1, <1>3
    <3>4. Stage(t) = "close" => ~results'[f].partial /\ ~stored'[f].partial
      BY <1>1, <1>2, <1>4, <2>0, <3>1 DEF Ending
    <3>5. Ending(f, sweep[g])'
      BY <3>2, <3>3, <3>4 DEF Ending, Stage
    <3> QED BY <1>2, <2>2, <3>1, <3>5
  <2> QED BY <1>2, <2>1, <2>2
<1> QED BY <1>6, <1>7, <1>8 DEF AbortInv, Stage

\* No sweep is not running.
LEMMA NoSweepIsIdle == NoSweep.pc = "free" /\ ~NoSweep.running
<1> DEFINE s == Fresh(CHOOSE f \in SweptFan : TRUE, "start", 0)
<1>1. (CHOOSE f \in SweptFan : TRUE) \in SweptFan /\ 0 \in Byte
  BY CalAssumption DEF Byte, Max
<1>2. s \in Sweep
  BY <1>1, FreshIsGood DEF GoodSweep
<1>3. ~s.running
  BY DEF Fresh
<1>4. NoSweep = [s EXCEPT !.pc = "free"]
  BY DEF NoSweep
<1> HIDE DEF s
<1> QED BY <1>2, <1>3, <1>4, NoSweepIsGood DEF Sweep

\* done is closed: whoever waited finds no checkpoint.
LEMMA CloseAborts ==
    ASSUME OneSweep, WholeInv, AbortInv, NEW g \in Slot, Close(g)
    PROVE  AbortInv'
<1>1. /\ sweep[g].pc = "close" /\ Becomes(g, NoSweep) /\ UNCHANGED <<results, stored, aborting>>
      /\ runs' = [f \in SweptFan |-> IF runs[f] = g THEN Nobody ELSE runs[f]]
      /\ waiting' = [f \in SweptFan |-> IF waiting[f] = g THEN Nobody ELSE waiting[f]]
  BY DEF Close, Closes, store
<1>2. NoSweep.pc = "free" /\ ~NoSweep.running
  BY NoSweepIsIdle
<1>3. /\ sweep' = [h \in Slot |-> NoSweep] /\ g # Nobody
      /\ \A f \in SweptFan : runs[f] \in {g, Nobody} /\ waiting[f] \in {g, Nobody}
      /\ \A h \in Slot : h = g
  BY <1>1, OneSweepAt DEF OneSweep
<1>4. \A f \in SweptFan : runs'[f] = Nobody /\ waiting'[f] = Nobody
  BY <1>1, <1>3
<1>5. ASSUME NEW f \in SweptFan, aborting[f]
      PROVE  ~results[f].partial /\ ~stored[f].partial
  <2>1. CASE waiting[f] = Nobody
    BY <1>5, <2>1 DEF AbortInv, Ended
  <2>2. CASE waiting[f] # Nobody
    BY <1>1, <1>3, <1>5, <2>2 DEF AbortInv, Ending, Stage
  <2> QED BY <2>1, <2>2
<1>6. \A f \in SweptFan : aborting'[f] => Ended(f)'
  BY <1>1, <1>2, <1>3, <1>5 DEF Ended, Active
<1>7. \A h \in Slot : ~sweep'[h].running
  BY <1>2, <1>3
<1> QED BY <1>4, <1>6, <1>7 DEF AbortInv

\* The sentinel writes a duty and no record.
LEMMA EscalateAborts ==
    ASSUME OneSweep, WholeInv, AbortInv, NEW g \in Slot, Escalate(g)
    PROVE  AbortInv'
<1> DEFINE s == sweep[g]
           t == [s EXCEPT !.armed = FALSE]
<1>1. s \in Sweep /\ Becomes(g, t) /\ UNCHANGED <<store, client>>
  BY SweepAt DEF Escalate, WholeInv
<1> HIDE DEF s
<1>2. /\ t.pc = s.pc /\ t.after = s.after /\ t.out = s.out /\ t.fan = s.fan /\ t.kind = s.kind
      /\ t.cancelled = s.cancelled /\ t.running = s.running
  BY <1>1 DEF Sweep, Place
<1> HIDE DEF t
<1>3. /\ sweep' = [h \in Slot |-> t] /\ g # Nobody
      /\ \A f \in SweptFan : runs[f] \in {g, Nobody} /\ waiting[f] \in {g, Nobody}
      /\ \A h \in Slot : h = g
  BY <1>1, OneSweepAt DEF OneSweep
<1>4. UNCHANGED <<runs, waiting, aborting, results, stored>> /\ Stage(t) = Stage(s)
  BY <1>1, <1>2 DEF client, store, Stage
<1>5. \A f \in SweptFan : (runs'[f] # Nobody => Active(f, runs[f])') /\ (waiting'[f] # Nobody => Active(f, waiting[f])')
  BY <1>2, <1>3, <1>4 DEF AbortInv, Active, s
<1>6. \A h \in Slot : sweep'[h].running => Stage(sweep'[h]) \in Busy
  BY <1>2, <1>3, <1>4 DEF AbortInv, s
<1>7. ASSUME NEW f \in SweptFan, aborting'[f]
      PROVE  IF waiting'[f] = Nobody THEN Ended(f)' ELSE Ending(f, sweep[waiting[f]])'
  <2>1. CASE waiting[f] = Nobody
    <3>1. Ended(f)
      BY <1>4, <1>7, <2>1 DEF AbortInv
    <3> QED BY <1>2, <1>3, <1>4, <2>1, <3>1 DEF Ended, Active, s
  <2>2. CASE waiting[f] # Nobody
    <3>1. waiting[f] = g /\ Ending(f, s)
      BY <1>3, <1>4, <1>7, <2>2 DEF AbortInv, s
    <3>2. sweep'[g] = t
      BY <1>3
    <3>3. Ending(f, sweep[g])'
      BY <1>2, <1>4, <3>1, <3>2 DEF Ending, Stage
    <3> QED BY <1>4, <2>2, <3>1, <3>3
  <2> QED BY <1>4, <2>1, <2>2
<1> QED BY <1>5, <1>6, <1>7 DEF AbortInv, Stage

\* The one slot is free, so that no sweep is left for an abort to wait for.
LEMMA RequestAborts ==
    ASSUME OneSweep, WholeInv, AbortInv, NEW f \in SweptFan, NEW k, NEW m, NEW g \in Slot,
           Request(f, k, m, g)
    PROVE  AbortInv'
<1> DEFINE t == Fresh(f, k, m)
<1>1. /\ sweep[g].pc = "free" /\ Becomes(g, t) /\ UNCHANGED <<results, stored, waiting>>
      /\ runs' = [runs EXCEPT ![f] = g] /\ aborting' = [aborting EXCEPT ![f] = FALSE]
  BY DEF Request, store
<1>2. t.pc = "launched" /\ t.fan = f /\ ~t.running
  BY DEF Fresh
<1> HIDE DEF t
<1>3. /\ sweep' = [h \in Slot |-> t] /\ g # Nobody
      /\ \A e \in SweptFan : runs[e] \in {g, Nobody} /\ waiting[e] \in {g, Nobody}
      /\ \A h \in Slot : h = g
  BY <1>1, OneSweepAt DEF OneSweep
<1>4. \A e \in SweptFan : runs[e] = Nobody /\ waiting[e] = Nobody
  BY <1>1, <1>3 DEF AbortInv, Active
<1>5. \A e \in SweptFan : (runs'[e] # Nobody => Active(e, runs[e])') /\ waiting'[e] = Nobody
  BY <1>1, <1>2, <1>3, <1>4 DEF WholeInv, RestOK, Active
<1>6. ASSUME NEW e \in SweptFan, aborting'[e] PROVE Ended(e)'
  <2>1. aborting[e] /\ e # f
    BY <1>1, <1>6 DEF WholeInv, RestOK
  <2>2. Ended(e)
    BY <1>4, <2>1 DEF AbortInv
  <2> QED BY <1>1, <1>2, <1>3, <2>1, <2>2 DEF Ended, Active
<1>7. \A h \in Slot : ~sweep'[h].running
  BY <1>2, <1>3
<1> QED BY <1>5, <1>6, <1>7 DEF AbortInv

\* A running sweep that was requested with Start: its end is what is waited for.
LEMMA AbortAborts ==
    ASSUME OneSweep, WholeInv, AbortInv, NEW f \in SweptFan, Abort(f)
    PROVE  AbortInv'
<1>0. PICK g \in Slot : g = runs[f]
  BY DEF Abort, WholeInv, RestOK
<1> DEFINE s == sweep[g]
           t == [s EXCEPT !.cancelled = TRUE]
           waits == IF s.kind = "start" THEN g ELSE waiting[f]
<1>1. /\ Becomes(g, t) /\ UNCHANGED <<results, stored, runs>>
      /\ waiting' = [waiting EXCEPT ![f] = waits]
      /\ aborting' = [aborting EXCEPT ![f] = s.kind = "start" /\ s.running]
  BY <1>0 DEF Abort, store
<1>2. s \in Sweep /\ Active(f, g) /\ (s.running => Stage(s) \in Busy)
  BY <1>0, SweepAt DEF WholeInv, AbortInv, Abort
<1> HIDE DEF s
<1>3. /\ t.pc = s.pc /\ t.after = s.after /\ t.out = s.out /\ t.fan = s.fan /\ t.kind = s.kind
      /\ t.cancelled /\ t.running = s.running
  BY <1>2 DEF Sweep, Place
<1> HIDE DEF t
<1>4. /\ sweep' = [h \in Slot |-> t] /\ g # Nobody
      /\ \A e \in SweptFan : runs[e] \in {g, Nobody} /\ waiting[e] \in {g, Nobody}
      /\ \A h \in Slot : h = g
  BY <1>1, OneSweepAt DEF OneSweep
<1>5. Stage(t) = Stage(s)
  BY <1>3 DEF Stage
<1>6. \A e \in SweptFan : e # f => waiting[e] = Nobody
  BY <1>2, <1>4 DEF AbortInv, Active
<1>7. /\ \A e \in SweptFan : e # f => waiting'[e] = waiting[e] /\ (aborting'[e] => aborting[e])
      /\ waiting'[f] = waits /\ (aborting'[f] => s.kind = "start" /\ s.running)
  BY <1>1 DEF WholeInv, RestOK
<1>8. \A e \in SweptFan : (runs'[e] # Nobody => Active(e, runs[e])') /\ (waiting'[e] # Nobody => Active(e, waiting[e])')
  <2>1. ASSUME NEW e \in SweptFan, NEW h \in Slot, Active(e, h) PROVE Active(e, h)'
    BY <1>3, <1>4, <2>1 DEF Active, s
  <2>2. \A e \in SweptFan : waiting'[e] \in {waiting[e], IF e = f THEN g ELSE Nobody}
    BY <1>6, <1>7
  <2>3. ASSUME NEW e \in SweptFan PROVE runs'[e] # Nobody => Active(e, runs[e])'
    BY <1>1, <1>4, <2>1 DEF AbortInv
  <2>4. ASSUME NEW e \in SweptFan PROVE waiting'[e] # Nobody => Active(e, waiting[e])'
    <3>1. waiting'[e] # Nobody => waiting'[e] = g /\ Active(e, g)
      BY <1>2, <1>4, <2>2 DEF AbortInv
    <3>2. Active(e, g) => Active(e, g)'
      BY <1>1, <2>1
    <3> QED BY <3>1, <1>3, <1>4 DEF Active, s
  <2> QED BY <2>3, <2>4
<1>9. \A h \in Slot : sweep'[h].running => Stage(sweep'[h]) \in Busy
  BY <1>2, <1>3, <1>4, <1>5
<1>10. ASSUME NEW e \in SweptFan, aborting'[e]
       PROVE  IF waiting'[e] = Nobody THEN Ended(e)' ELSE Ending(e, sweep[waiting[e]])'
  <2>1. CASE e # f
    <3>1. Ended(e) /\ waiting'[e] = Nobody
      BY <1>6, <1>7, <1>10, <2>1 DEF AbortInv
    <3> QED BY <1>1, <1>3, <1>4, <3>1 DEF Ended, Active, s
  <2>2. CASE e = f
    <3>1. s.kind = "start" /\ s.running /\ waiting'[f] = g
      BY <1>7, <1>10, <2>2
    <3>2. sweep'[g] = t /\ t.cancelled /\ t.kind = "start" /\ Stage(t) \in Busy
      BY <1>1, <1>2, <1>3, <1>4, <1>5, <3>1
    <3>3. Stage(t) \notin {"free", "launched", "close"}
      BY <3>2 DEF Busy
    <3>4. sweep'[waiting'[f]] = t /\ waiting'[f] # Nobody
      BY <1>4, <3>1, <3>2
    <3>5. Ending(f, sweep[waiting[f]])'
      BY <3>2, <3>3, <3>4 DEF Ending, Stage
    <3> QED BY <2>2, <3>4, <3>5
  <2> QED BY <2>1, <2>2
<1> QED BY <1>8, <1>9, <1>10 DEF AbortInv, Stage

\* The daemon comes back with what the file says.
LEMMA RestartAborts ==
    ASSUME AbortInv, WholeInv, NEW changed \in BOOLEAN, Restart(changed)
    PROVE  AbortInv'
<1>1. /\ sweep' = [g \in Slot |-> NoSweep] /\ UNCHANGED stored
      /\ results' = (IF changed THEN [f \in SweptFan |-> Blank] ELSE stored)
      /\ \A f \in SweptFan : runs'[f] = Nobody /\ waiting'[f] = Nobody
      /\ \A f \in SweptFan : aborting'[f] => aborting[f] /\ waiting[f] = Nobody
  BY DEF Restart
<1>2. NoSweep.pc = "free" /\ ~NoSweep.running
  BY NoSweepIsIdle
<1>3. ~Blank.partial
  BY DEF Blank
<1>4. ASSUME NEW f \in SweptFan, aborting'[f] PROVE Ended(f)'
  <2>1. Ended(f)
    BY <1>1, <1>4 DEF AbortInv
  <2> QED BY <1>1, <1>2, <1>3, <2>1 DEF Ended, Active
<1> QED BY <1>1, <1>2, <1>4 DEF AbortInv

\* The invariant holds at the start.
LEMMA AbortInvInit == CalInit => AbortInv
<1> SUFFICES ASSUME CalInit PROVE AbortInv
  OBVIOUS
<1> QED BY NoSweepIsIdle DEF CalInit, AbortInv

\* Every step keeps it.
LEMMA AbortInvStep ==
    ASSUME OneSweep
    PROVE  WholeInv /\ AbortInv /\ [CalNext]_calVars => AbortInv'
<1> SUFFICES ASSUME WholeInv, AbortInv, [CalNext]_calVars PROVE AbortInv'
  OBVIOUS
<1>1. CASE UNCHANGED calVars
  BY <1>1 DEF calVars, fans, store, client, AbortInv, Active, Stage, Ended, Ending
<1>2. CASE CalNext
  <2>1. ASSUME NEW g \in Slot, SweepStep(g) \/ Escalate(g) PROVE AbortInv'
    <3>1. CASE \/ Unresolved(g) \/ Begin(g) \/ SetSentinel(g) \/ Turn(g) \/ Cleanup(g) \/ StopSentinel(g)
      BY <3>1, PlainAborts
    <3>2. CASE Climb(g) \/ HoldEnds(g) \/ Descend(g) \/ Stalls(g) \/ FallEnds(g)
      BY <3>2, RampAborts
    <3>3. CASE Sample(g) \/ GoesOn(g) \/ Keep(g) \/ Save(g) \/ Close(g) \/ Escalate(g)
      BY <3>3, SampleAborts, GoesOnAborts, KeepAborts, SaveAborts, CloseAborts, EscalateAborts
    <3> QED BY <2>1, <3>1, <3>2, <3>3 DEF SweepStep
  <2> QED BY <1>2, <2>1, RequestAborts, AbortAborts, RestartAborts DEF CalNext
<1> QED BY <1>1, <1>2

\* Whatever a running sweep was doing when it was aborted: once the abort has
\* returned and the record could be written, neither memory nor the file holds a
\* checkpoint, so that no restart resumes the sweep.  It takes one sweep at a
\* time: the save of another fan writes what it marshalled before.
THEOREM AbortsAreFinal ==
    ASSUME OneSweep
    PROVE  CalSpec => []AbortIsFinal
<1>1. AbortInv => AbortIsFinal
  BY DEF AbortInv, AbortIsFinal, Ended
<1>2. WholeInv /\ AbortInv /\ [CalNext]_calVars => (WholeInv /\ AbortInv)'
  BY WholeInvStep, AbortInvStep
<1>3. CalInit => WholeInv /\ AbortInv
  BY WholeInvInit, AbortInvInit
<1> QED BY <1>1, <1>2, <1>3, PTL DEF CalSpec

-----------------------------------------------------------------------------
(* Aborts come back: what can be said of AbortReturns without fairness.    *)

\* How many steps a cancelled sweep takes at most from each place.
LeftAt(at) ==
    CASE at = "close" -> 1 [] at = "tail" -> 3 [] at = "stopping" -> 4
      [] at = "cleanup" -> 5 [] at = "down" -> 6 [] at = "step" -> 7
      [] at = "fall" -> 8 [] at = "hold" -> 9 [] at = "set" -> 10
      [] at = "launched" -> 11 [] OTHER -> 0

StepsLeft(s) == IF s.pc = "save" THEN LeftAt(s.after) + 1 ELSE LeftAt(s.pc)

\* The last sweep of a fan and the one an Abort of it waits for are sweeps of
\* that fan that have not closed done, and the latter is cancelled.
AwaitInv ==
    \A f \in SweptFan :
      /\ runs[f] # Nobody => sweep[runs[f]].pc # "free" /\ sweep[runs[f]].fan = f
      /\ waiting[f] # Nobody => /\ sweep[waiting[f]].pc # "free"
                                /\ sweep[waiting[f]].fan = f
                                /\ sweep[waiting[f]].cancelled

\* What a step does for the Abort of a fan that waits: the Abort returns, or
\* another takes its place, or its sweep is at most eleven steps from its end, and
\* no further from it than before; a step of the sweep itself brings it nearer.
AbortMovesOn ==
    \A f \in SweptFan : waiting[f] # Nobody =>
        \/ waiting'[f] = Nobody \/ Abort(f)
        \/ LET g == waiting[f] IN
             /\ waiting'[f] = g /\ StepsLeft(sweep'[g]) \in 1 .. StepsLeft(sweep[g])
             /\ StepsLeft(sweep[g]) \in 1 .. 11
             /\ SweepStep(g) => StepsLeft(sweep'[g]) < StepsLeft(sweep[g])

AbortsMoveOn == [][AbortMovesOn]_calVars

\* A sweep goes on to t, nearer to its end if it is cancelled.
Nearer(s, t) ==
    /\ t.fan = s.fan /\ t.cancelled = s.cancelled /\ t.pc # "free"
    /\ s.cancelled => StepsLeft(t) < StepsLeft(s)

\* A sweep that returns goes on to its cleanup, ...
LEMMA ReturnsNearer ==
    ASSUME NEW g \in Slot, sweep[g] \in Sweep, NEW r, NEW failed, Returns(g, r, failed),
           sweep[g].pc \in {"step", "hold", "down", "fall"}
    PROVE  \E t : Becomes(g, t) /\ Nearer(sweep[g], t)
<1> DEFINE t == [sweep[g] EXCEPT !.pc = "cleanup", !.res = r, !.failed = failed]
<1>1. Becomes(g, t)
  BY DEF Returns
<1>2. t.pc = "cleanup" /\ t.fan = sweep[g].fan /\ t.cancelled = sweep[g].cancelled
  BY DEF Sweep
<1> HIDE DEF t
<1>3. Nearer(sweep[g], t)
  BY <1>2 DEF Nearer, StepsLeft, LeftAt
<1> QED BY <1>1, <1>3

\* ... one that checkpoints to its save, ...
LEMMA SavesNearer ==
    ASSUME NEW g \in Slot, sweep[g] \in Sweep, NEW s \in Sweep, NEW r, NEW next, Saves(g, s, r, next),
           s.fan = sweep[g].fan, s.cancelled = sweep[g].cancelled,
           \/ sweep[g].pc = "hold" /\ next = "step"
           \/ sweep[g].pc = "fall" /\ next = "down"
           \/ sweep[g].pc = "tail" /\ next = "close"
    PROVE  \E t : Becomes(g, t) /\ Nearer(sweep[g], t)
<1> DEFINE t == [s EXCEPT !.pc = "save", !.out = results', !.after = next]
<1>1. Becomes(g, t)
  BY DEF Saves
<1>2. t.pc = "save" /\ t.after = next /\ t.fan = s.fan /\ t.cancelled = s.cancelled
  BY DEF Sweep
<1> HIDE DEF t
<1>3. Nearer(sweep[g], t)
  BY <1>2 DEF Nearer, StepsLeft, LeftAt
<1> QED BY <1>1, <1>3

\* ... and the other steps go on by themselves.
LEMMA PlainNearer ==
    ASSUME SweepsOK, NEW g \in Slot,
           \/ Unresolved(g) \/ Begin(g) \/ SetSentinel(g) \/ Save(g) \/ Turn(g)
           \/ Cleanup(g) \/ StopSentinel(g)
    PROVE  \E t : Becomes(g, t) /\ Nearer(sweep[g], t)
<1>0. sweep[g] \in Sweep /\ (sweep[g].pc = "save" => sweep[g].after \in {"step", "down", "close"})
  BY DEF SweepsOK, GoodSweep
<1>1. ASSUME NEW t, Becomes(g, t), t.fan = sweep[g].fan, t.cancelled = sweep[g].cancelled,
             \/ sweep[g].pc = "launched" /\ t.pc \in {"tail", "step"}
             \/ sweep[g].pc = "set" /\ t.pc = "hold"
             \/ sweep[g].pc = "save" /\ t.pc = sweep[g].after
             \/ sweep[g].pc = "step" /\ t.pc = "down"
             \/ sweep[g].pc = "cleanup" /\ t.pc = "stopping"
             \/ sweep[g].pc = "stopping" /\ t.pc = "tail"
      PROVE  \E u : Becomes(g, u) /\ Nearer(sweep[g], u)
  BY <1>0, <1>1 DEF Nearer, StepsLeft, LeftAt
<1>2. CASE Unresolved(g)
  <2> DEFINE t == [sweep[g] EXCEPT !.pc = "tail", !.failed = TRUE]
  <2>1. Becomes(g, t) /\ sweep[g].pc = "launched"
    BY <1>2 DEF Unresolved
  <2>2. t.pc = "tail" /\ t.fan = sweep[g].fan /\ t.cancelled = sweep[g].cancelled
    BY <1>0 DEF Sweep
  <2> QED BY <1>1, <2>1, <2>2
<1>3. CASE Begin(g)
  <2>1. sweep[g].pc = "launched"
    BY <1>3 DEF Begin
  <2>2. PICK a, b, c, d : Becomes(g, [sweep[g] EXCEPT !.pc = "step", !.running = TRUE, !.step = a,
                                                      !.p = b, !.start = c, !.curve = d])
    BY <1>3 DEF Begin
  <2> DEFINE t == [sweep[g] EXCEPT !.pc = "step", !.running = TRUE, !.step = a, !.p = b, !.start = c, !.curve = d]
  <2>3. t.pc = "step" /\ t.fan = sweep[g].fan /\ t.cancelled = sweep[g].cancelled
    BY <1>0 DEF Sweep
  <2>4. Becomes(g, t)
    BY <2>2
  <2> HIDE DEF t
  <2> QED BY <1>1, <2>1, <2>3, <2>4
<1>4. CASE SetSentinel(g)
  <2>1. sweep[g].pc = "set"
    BY <1>4 DEF SetSentinel
  <2>2. PICK a : Becomes(g, [sweep[g] EXCEPT !.pc = "hold", !.armed = a])
    BY <1>4 DEF SetSentinel
  <2> DEFINE t == [sweep[g] EXCEPT !.pc = "hold", !.armed = a]
  <2>3. t.pc = "hold" /\ t.fan = sweep[g].fan /\ t.cancelled = sweep[g].cancelled
    BY <1>0 DEF Sweep
  <2>4. Becomes(g, t)
    BY <2>2
  <2> HIDE DEF t
  <2> QED BY <1>1, <2>1, <2>3, <2>4
<1>5. CASE Save(g)
  <2> DEFINE t == [sweep[g] EXCEPT !.pc = sweep[g].after, !.out = NoSweep.out, !.after = "free"]
  <2>1. Becomes(g, t) /\ sweep[g].pc = "save"
    BY <1>5 DEF Save
  <2>2. t.pc = sweep[g].after /\ t.fan = sweep[g].fan /\ t.cancelled = sweep[g].cancelled
    BY <1>0 DEF Sweep
  <2> QED BY <1>1, <2>1, <2>2
<1>6. CASE Turn(g)
  <2>1. sweep[g].pc = "step"
    BY <1>6 DEF Turn
  <2>2. PICK a : Becomes(g, [sweep[g] EXCEPT !.pc = "down", !.p = a])
    BY <1>6 DEF Turn
  <2> DEFINE t == [sweep[g] EXCEPT !.pc = "down", !.p = a]
  <2>3. t.pc = "down" /\ t.fan = sweep[g].fan /\ t.cancelled = sweep[g].cancelled
    BY <1>0 DEF Sweep
  <2>4. Becomes(g, t)
    BY <2>2
  <2> HIDE DEF t
  <2> QED BY <1>1, <2>1, <2>3, <2>4
<1>7. CASE Cleanup(g)
  <2> DEFINE t == [sweep[g] EXCEPT !.pc = "stopping", !.running = FALSE]
  <2>1. Becomes(g, t) /\ sweep[g].pc = "cleanup"
    BY <1>7 DEF Cleanup
  <2>2. t.pc = "stopping" /\ t.fan = sweep[g].fan /\ t.cancelled = sweep[g].cancelled
    BY <1>0 DEF Sweep
  <2> QED BY <1>1, <2>1, <2>2
<1>8. CASE StopSentinel(g)
  <2> DEFINE t == [sweep[g] EXCEPT !.pc = "tail", !.armed = FALSE]
  <2>1. Becomes(g, t) /\ sweep[g].pc = "stopping"
    BY <1>8 DEF StopSentinel
  <2>2. t.pc = "tail" /\ t.fan = sweep[g].fan /\ t.cancelled = sweep[g].cancelled
    BY <1>0 DEF Sweep
  <2> QED BY <1>1, <2>1, <2>2
<1> QED BY <1>2, <1>3, <1>4, <1>5, <1>6, <1>7, <1>8

\* The two steps of a ramp that write: a cancelled sweep does not reach the write.
LEMMA RampNearer ==
    ASSUME SweepsOK, NEW g \in Slot, Climb(g) \/ Descend(g)
    PROVE  \E t : Becomes(g, t) /\ Nearer(sweep[g], t)
<1> DEFINE s == sweep[g]
<1>0. s \in Sweep
  BY DEF SweepsOK
<1>1. ASSUME NEW place \in Place, place # "free", ~s.cancelled, Becomes(g, [s EXCEPT !.pc = place])
      PROVE  \E t : Becomes(g, t) /\ Nearer(s, t)
  <2> DEFINE t == [s EXCEPT !.pc = place]
  <2>1. t.pc = place /\ t.fan = s.fan /\ t.cancelled = s.cancelled
    BY <1>0 DEF Sweep
  <2> HIDE DEF s
  <2>2. Nearer(s, t)
    BY <1>1, <2>1 DEF Nearer
  <2> QED BY <1>1, <2>2
<1>2. ASSUME NEW r, NEW failed, Returns(g, r, failed), s.pc \in {"step", "down"}
      PROVE  \E t : Becomes(g, t) /\ Nearer(s, t)
  BY <1>0, <1>2, ReturnsNearer
<1>3. CASE Climb(g)
  <2>1. s.pc = "step"
    BY <1>3 DEF Climb
  <2>2. \/ Returns(g, Snapshot(s, 0, s.step), TRUE)
        \/ ~s.cancelled /\ Becomes(g, [s EXCEPT !.pc = "set"])
    BY <1>3 DEF Climb
  <2>3. "set" \in Place
    BY DEF Place
  <2>4. CASE Returns(g, Snapshot(s, 0, s.step), TRUE)
    BY <1>2, <2>1, <2>4
  <2>5. CASE ~s.cancelled /\ Becomes(g, [s EXCEPT !.pc = "set"])
    BY <1>1, <2>3, <2>5
  <2> QED BY <2>2, <2>4, <2>5
<1>4. CASE Descend(g)
  <2>1. s.pc = "down"
    BY <1>4 DEF Descend
  <2>2. \/ Returns(g, Final(s), FALSE) \/ Returns(g, Snapshot(s, s.p, Steps + 1), TRUE)
        \/ ~s.cancelled /\ Becomes(g, [s EXCEPT !.pc = "fall"])
    BY <1>4 DEF Descend
  <2>3. "fall" \in Place
    BY DEF Place
  <2>4. CASE Returns(g, Final(s), FALSE) \/ Returns(g, Snapshot(s, s.p, Steps + 1), TRUE)
    BY <1>2, <2>1, <2>4
  <2>5. CASE ~s.cancelled /\ Becomes(g, [s EXCEPT !.pc = "fall"])
    BY <1>1, <2>3, <2>5
  <2> QED BY <2>2, <2>4, <2>5
<1> QED BY <1>3, <1>4

\* A checkpoint or the last record: a sample, a duty the fan goes on at, the end.
LEMMA CheckpointNearer ==
    ASSUME WholeInv, NEW g \in Slot, Sample(g) \/ GoesOn(g) \/ Keep(g)
    PROVE  \E t : Becomes(g, t) /\ Nearer(sweep[g], t)
<1> DEFINE s == sweep[g]
<1>0. s \in Sweep /\ s.fan \in SweptFan
  BY DEF WholeInv, SweepsOK, Sweep
<1>1. CASE Sample(g)
  <2> DEFINE rpm == Settled(s.fan, duty[s.fan])
             t == Sampled(s, rpm)
  <2>1. s.pc = "hold" /\ Saves(g, t, Snapshot(t, 0, t.step), "step")
    BY <1>1 DEF Sample, Sampled
  <2>2. GoodAt(s, "hold")
    BY <2>1, SweepAt DEF WholeInv
  <2>3. t \in Sweep /\ t.fan = s.fan /\ t.cancelled = s.cancelled
    <3>1. rpm \in BOOLEAN
      BY <1>0 DEF Settled, WholeInv, RestOK
    <3>2. s.min \in Byte /\ s.step <= Steps /\ s.noFan < NoFanSteps
      BY <1>0, <2>2 DEF GoodAt, Sweep
    <3> HIDE DEF s, rpm
    <3> QED BY <1>0, <2>2, <3>1, <3>2, SampledFields
  <2> HIDE DEF t
  <2> QED BY <1>0, <2>1, <2>3, SavesNearer
<1>2. CASE GoesOn(g)
  <2> DEFINE t == [s EXCEPT !.p = @ - 2]
  <2>1. s.pc = "fall" /\ Saves(g, t, Snapshot(s, s.p, Steps + 1), "down")
    BY <1>2 DEF GoesOn
  <2>2. s.p > 0 /\ s.p \in -1 .. Max
    BY <2>1, SweepAt DEF WholeInv, GoodAt
  <2>3. s.p - 2 \in -1 .. Max
    BY <2>2, NumbersOK
  <2>4. t \in Sweep /\ t.fan = s.fan /\ t.cancelled = s.cancelled
    BY <1>0, <2>3 DEF Sweep
  <2> HIDE DEF t
  <2> QED BY <1>0, <2>1, <2>4, SavesNearer
<1>3. CASE Keep(g)
  <2>1. s.pc = "tail"
    BY <1>3 DEF Keep
  <2>2. \/ Becomes(g, [s EXCEPT !.pc = "close"])
        \/ \E r : Saves(g, s, r, "close")
    BY <1>3 DEF Keep
  <2>3. CASE Becomes(g, [s EXCEPT !.pc = "close"])
    <3> DEFINE t == [s EXCEPT !.pc = "close"]
    <3>1. t.pc = "close" /\ t.fan = s.fan /\ t.cancelled = s.cancelled
      BY <1>0 DEF Sweep
    <3> HIDE DEF s
    <3>2. Nearer(s, t)
      BY <2>1, <3>1 DEF Nearer, StepsLeft, LeftAt
    <3> QED BY <2>3, <3>2 DEF s
  <2>4. CASE \E r : Saves(g, s, r, "close")
    BY <1>0, <2>1, <2>4, SavesNearer
  <2> QED BY <2>2, <2>3, <2>4
<1> QED BY <1>1, <1>2, <1>3

\* Every step of a sweep but its last goes on, and leaves the requests alone.
LEMMA SweepsNearer ==
    ASSUME WholeInv, NEW g \in Slot, SweepStep(g)
    PROVE  \/ Closes(g)
           \/ UNCHANGED <<runs, waiting>> /\ \E t : Becomes(g, t) /\ Nearer(sweep[g], t)
<1>0. SweepsOK /\ sweep[g] \in Sweep
  BY DEF WholeInv, SweepsOK
<1>1. CASE HoldEnds(g) \/ Stalls(g) \/ FallEnds(g)
  <2>1. sweep[g].pc \in {"hold", "fall"}
    BY <1>1 DEF HoldEnds, Stalls, FallEnds
  <2>2. \E r, failed : Returns(g, r, failed)
    BY <1>1 DEF HoldEnds, Stalls, FallEnds
  <2>3. UNCHANGED <<runs, waiting>>
    BY <1>1 DEF HoldEnds, Stalls, FallEnds, client
  <2> QED BY <1>0, <2>1, <2>2, <2>3, ReturnsNearer
<1>2. CASE Climb(g) \/ Descend(g)
  <2>1. UNCHANGED <<runs, waiting>>
    BY <1>2 DEF Climb, Descend, client
  <2> QED BY <1>0, <1>2, <2>1, RampNearer
<1>3. CASE Sample(g) \/ GoesOn(g) \/ Keep(g)
  <2>1. UNCHANGED <<runs, waiting>>
    BY <1>3 DEF Sample, GoesOn, Keep, client
  <2> QED BY <1>3, <2>1, CheckpointNearer
<1>4. CASE \/ Unresolved(g) \/ Begin(g) \/ SetSentinel(g) \/ Save(g) \/ Turn(g)
           \/ Cleanup(g) \/ StopSentinel(g)
  <2>1. UNCHANGED <<runs, waiting>>
    BY <1>4 DEF Unresolved, Begin, SetSentinel, Save, Turn, Cleanup, StopSentinel, client
  <2> QED BY <1>0, <1>4, <2>1, PlainNearer
<1>5. CASE Close(g)
  BY <1>5 DEF Close
<1> QED BY <1>1, <1>2, <1>3, <1>4, <1>5 DEF SweepStep

\* A slot that goes on, whether its sweep does or its sentinel fires, keeps the
\* invariant.
LEMMA BecomesAwaits ==
    ASSUME AwaitInv, WholeInv, NEW g \in Slot, NEW t, Becomes(g, t), UNCHANGED <<runs, waiting>>,
           t.fan = sweep[g].fan, sweep[g].cancelled => t.cancelled,
           sweep[g].pc # "free" => t.pc # "free"
    PROVE  AwaitInv'
<1>1. \A h \in Slot : sweep'[h] = IF h = g THEN t ELSE sweep[h]
  BY DEF Becomes, WholeInv, SweepsOK
<1>2. \A f \in SweptFan : runs[f] \in Slot \cup {Nobody} /\ waiting[f] \in Slot \cup {Nobody}
  BY DEF WholeInv, RestOK
<1> QED BY <1>1, <1>2 DEF AwaitInv


\* A cancelled sweep that is going on has between one and eleven steps left.
LEMMA StepsLeftBound ==
    ASSUME SweepsOK, NEW g \in Slot, sweep[g].pc # "free"
    PROVE  StepsLeft(sweep[g]) \in 1 .. 11
<1>1. sweep[g].pc \in Place /\ (sweep[g].pc = "save" => sweep[g].after \in {"step", "down", "close"})
  BY DEF SweepsOK, GoodSweep, Sweep
<1> QED BY <1>1 DEF StepsLeft, LeftAt, Place

\* What every sweep and request keeps while a step is not its own.
LEMMA AwaitTypes ==
    ASSUME WholeInv
    PROVE  /\ sweep \in [Slot -> Sweep] /\ Nobody \notin Slot
           /\ \A f \in SweptFan : runs[f] \in Slot \cup {Nobody} /\ waiting[f] \in Slot \cup {Nobody}
           /\ runs \in [SweptFan -> Slot \cup {Nobody}] /\ waiting \in [SweptFan -> Slot \cup {Nobody}]
  BY CalAssumption DEF WholeInv, RestOK, SweepsOK

\* The last step of a sweep forgets it.
LEMMA CloseAwaits ==
    ASSUME AwaitInv, WholeInv, NEW g \in Slot, Closes(g)
    PROVE  AwaitInv'
<1>1. /\ \A h \in Slot : h # g => sweep'[h] = sweep[h]
      /\ \A f \in SweptFan : /\ runs'[f] = IF runs[f] = g THEN Nobody ELSE runs[f]
                             /\ waiting'[f] = IF waiting[f] = g THEN Nobody ELSE waiting[f]
  BY AwaitTypes DEF Closes, Becomes
<1> QED BY <1>1, AwaitTypes DEF AwaitInv

\* A request takes a slot that no fan knows, and becomes the last of its fan.
LEMMA RequestAwaits ==
    ASSUME AwaitInv, WholeInv, NEW f \in SweptFan, NEW k \in Kinds, NEW m \in Mins, NEW g \in Slot,
           Request(f, k, m, g)
    PROVE  AwaitInv'
<1>1. /\ \A h \in Slot : h # g => sweep'[h] = sweep[h]
      /\ sweep[g].pc = "free" /\ sweep'[g].pc = "launched" /\ sweep'[g].fan = f
      /\ UNCHANGED waiting
      /\ \A h \in SweptFan : runs'[h] = IF h = f THEN g ELSE runs[h]
  <2>1. sweep' = [sweep EXCEPT ![g] = Fresh(f, k, m)] /\ sweep[g].pc = "free" /\ UNCHANGED waiting
        /\ runs' = [runs EXCEPT ![f] = g]
    BY DEF Request, Becomes
  <2>2. sweep'[g] = Fresh(f, k, m) /\ Fresh(f, k, m).pc = "launched" /\ Fresh(f, k, m).fan = f
    BY <2>1, AwaitTypes DEF Fresh
  <2> QED BY <2>1, <2>2, AwaitTypes
<1> QED BY <1>1, AwaitTypes DEF AwaitInv

\* An abort waits for the fan's last sweep, which it has cancelled.
LEMMA AbortAwaits ==
    ASSUME AwaitInv, WholeInv, NEW f \in SweptFan, Abort(f)
    PROVE  /\ AwaitInv'
           /\ runs[f] \in Slot /\ sweep[runs[f]].fan = f
           /\ \A h \in Slot : h # runs[f] => sweep'[h] = sweep[h]
           /\ \A h \in SweptFan : h # f => waiting'[h] = waiting[h]
<1> DEFINE g == runs[f]
           t == [sweep[g] EXCEPT !.cancelled = TRUE]
<1>1. g \in Slot /\ sweep[g].fan = f /\ sweep[g].pc # "free"
  BY AwaitTypes DEF Abort, AwaitInv
<1>2. /\ sweep' = [sweep EXCEPT ![g] = t] /\ UNCHANGED runs
      /\ waiting' = [waiting EXCEPT ![f] = IF sweep[g].kind = "start" THEN g ELSE @]
  BY DEF Abort, Becomes
<1>3. t.pc = sweep[g].pc /\ t.fan = sweep[g].fan /\ t.cancelled
  BY <1>1, AwaitTypes DEF Sweep
<1> HIDE DEF t
<1>4. sweep'[g] = t /\ \A h \in Slot : h # g => sweep'[h] = sweep[h]
  BY <1>1, <1>2, AwaitTypes
<1>5. waiting'[f] \in {g, waiting[f]} /\ \A h \in SweptFan : h # f => waiting'[h] = waiting[h]
  BY <1>2, AwaitTypes
<1> HIDE DEF g
<1>6. ASSUME NEW h \in SweptFan, runs[h] # Nobody
      PROVE  sweep'[runs[h]].pc # "free" /\ sweep'[runs[h]].fan = h
  <2>1. runs[h] \in Slot /\ sweep[runs[h]].pc # "free" /\ sweep[runs[h]].fan = h
    BY <1>6, AwaitTypes DEF AwaitInv
  <2> QED BY <2>1, <1>1, <1>3, <1>4
<1>7. ASSUME NEW h \in SweptFan, waiting'[h] # Nobody
      PROVE  /\ sweep'[waiting'[h]].pc # "free" /\ sweep'[waiting'[h]].fan = h
             /\ sweep'[waiting'[h]].cancelled
  <2>1. CASE h = f /\ waiting'[h] = g
    BY <2>1, <1>1, <1>3, <1>4
  <2>2. CASE waiting'[h] = waiting[h]
    <3>1. /\ waiting[h] \in Slot /\ sweep[waiting[h]].pc # "free" /\ sweep[waiting[h]].fan = h
          /\ sweep[waiting[h]].cancelled
      BY <1>7, <2>2, AwaitTypes DEF AwaitInv
    <3> QED BY <2>2, <3>1, <1>1, <1>3, <1>4
  <2> QED BY <2>1, <2>2, <1>5
<1>8. AwaitInv'
  BY <1>2, <1>6, <1>7 DEF AwaitInv
<1> QED BY <1>1, <1>4, <1>5, <1>8 DEF g

\* The sentinel of a sweep touches nothing the requests look at.
LEMMA EscalateAwaits ==
    ASSUME WholeInv, NEW g \in Slot, Escalate(g)
    PROVE  /\ UNCHANGED <<runs, waiting>>
           /\ \E t : /\ Becomes(g, t) /\ t.fan = sweep[g].fan /\ t.cancelled = sweep[g].cancelled
                     /\ t.pc = sweep[g].pc /\ t.after = sweep[g].after
<1> DEFINE t == [sweep[g] EXCEPT !.armed = FALSE]
<1>1. Becomes(g, t) /\ UNCHANGED <<runs, waiting>>
  BY DEF Escalate, client
<1>2. /\ t.fan = sweep[g].fan /\ t.cancelled = sweep[g].cancelled
      /\ t.pc = sweep[g].pc /\ t.after = sweep[g].after
  BY AwaitTypes DEF Sweep
<1> HIDE DEF t
<1> QED BY <1>1, <1>2

\* The invariant holds at the start, ...
LEMMA AwaitInvInit == CalInit => AwaitInv
  BY DEF CalInit, AwaitInv

\* ... and every step keeps it.
LEMMA AwaitInvStep == AwaitInv /\ WholeInv /\ [CalNext]_calVars => AwaitInv'
<1> SUFFICES ASSUME AwaitInv, WholeInv, [CalNext]_calVars PROVE AwaitInv'
  OBVIOUS
<1>1. CASE UNCHANGED calVars
  BY <1>1 DEF calVars, client, AwaitInv
<1>2. ASSUME NEW g \in Slot, SweepStep(g) PROVE AwaitInv'
  <2>1. CASE Closes(g)
    BY <2>1, CloseAwaits
  <2>2. CASE UNCHANGED <<runs, waiting>> /\ \E t : Becomes(g, t) /\ Nearer(sweep[g], t)
    <3>1. PICK t : Becomes(g, t) /\ Nearer(sweep[g], t)
      BY <2>2
    <3>2. /\ t.fan = sweep[g].fan /\ t.pc # "free"
          /\ sweep[g].cancelled => t.cancelled
      BY <3>1 DEF Nearer
    <3> QED BY <2>2, <3>1, <3>2, BecomesAwaits
  <2> QED BY <1>2, <2>1, <2>2, SweepsNearer
<1>3. ASSUME NEW g \in Slot, Escalate(g) PROVE AwaitInv'
  <2>1. UNCHANGED <<runs, waiting>>
    BY <1>3, EscalateAwaits
  <2>2. PICK t : Becomes(g, t) /\ t.fan = sweep[g].fan /\ t.cancelled = sweep[g].cancelled /\ t.pc = sweep[g].pc
    BY <1>3, EscalateAwaits
  <2> QED BY <2>1, <2>2, BecomesAwaits
<1>4. ASSUME NEW changed \in BOOLEAN, Restart(changed) PROVE AwaitInv'
  BY <1>4 DEF Restart, AwaitInv
<1> QED BY <1>1, <1>2, <1>3, <1>4, RequestAwaits, AbortAwaits DEF CalNext

\* A sweep that goes on, for the fan that waits for it.
LEMMA OwnStep ==
    ASSUME AwaitInv, WholeInv, NEW f \in SweptFan, waiting[f] # Nobody, SweepStep(waiting[f])
    PROVE  \/ waiting'[f] = Nobody
           \/ /\ waiting'[f] = waiting[f] /\ sweep'[waiting[f]].pc # "free"
              /\ StepsLeft(sweep'[waiting[f]]) < StepsLeft(sweep[waiting[f]])
<1>1. PICK g \in Slot : g = waiting[f]
  BY AwaitTypes
<1>2. sweep[g].cancelled
  BY <1>1 DEF AwaitInv
<1>3. CASE Closes(g)
  BY <1>1, <1>3 DEF Closes
<1>4. CASE UNCHANGED <<runs, waiting>> /\ \E t : Becomes(g, t) /\ Nearer(sweep[g], t)
  <2>1. PICK t : Becomes(g, t) /\ Nearer(sweep[g], t)
    BY <1>4
  <2>2. sweep'[g] = t
    BY <2>1, AwaitTypes DEF Becomes
  <2>3. t.pc # "free" /\ StepsLeft(t) < StepsLeft(sweep[g])
    BY <1>2, <2>1 DEF Nearer
  <2> QED BY <1>1, <1>4, <2>2, <2>3
<1> QED BY <1>1, <1>3, <1>4, SweepsNearer

\* Every other step ends the wait, starts another one, or leaves the sweep where
\* it is.
LEMMA OthersStep ==
    ASSUME AwaitInv, WholeInv, NEW f \in SweptFan, waiting[f] # Nobody, ~SweepStep(waiting[f]),
           [CalNext]_calVars
    PROVE  \/ waiting'[f] = Nobody \/ Abort(f)
           \/ /\ waiting'[f] = waiting[f] /\ sweep'[waiting[f]].pc = sweep[waiting[f]].pc
              /\ StepsLeft(sweep'[waiting[f]]) = StepsLeft(sweep[waiting[f]])
<1>1. PICK g \in Slot : g = waiting[f]
  BY AwaitTypes
<1>2. sweep[g].pc # "free" /\ sweep[g].fan = f
  BY <1>1 DEF AwaitInv
<1> DEFINE Stays == waiting'[f] = waiting[f] /\ sweep'[g] = sweep[g]
<1>3. CASE UNCHANGED calVars
  BY <1>1, <1>3 DEF calVars, client
<1>4. ASSUME NEW h \in Slot, SweepStep(h) PROVE Stays
  <2>1. h # g
    BY <1>1, <1>4
  <2>2. CASE Closes(h)
    BY <1>1, <2>1, <2>2, AwaitTypes DEF Closes, Becomes
  <2>3. CASE UNCHANGED <<runs, waiting>> /\ \E t : Becomes(h, t) /\ Nearer(sweep[h], t)
    BY <2>1, <2>3, AwaitTypes DEF Becomes
  <2> QED BY <1>4, <2>2, <2>3, SweepsNearer
<1>5. ASSUME NEW h \in Slot, Escalate(h)
      PROVE  /\ waiting'[f] = waiting[f] /\ sweep'[g].pc = sweep[g].pc
             /\ StepsLeft(sweep'[g]) = StepsLeft(sweep[g])
  <2>1. UNCHANGED waiting
    BY <1>5, EscalateAwaits
  <2>2. PICK t : Becomes(h, t) /\ t.pc = sweep[h].pc /\ t.after = sweep[h].after
    BY <1>5, EscalateAwaits
  <2>3. sweep'[g] = IF g = h THEN t ELSE sweep[g]
    BY <2>2, AwaitTypes DEF Becomes
  <2>4. sweep'[g].pc = sweep[g].pc /\ sweep'[g].after = sweep[g].after
    BY <2>2, <2>3
  <2> QED BY <2>1, <2>4 DEF StepsLeft
<1>6. ASSUME NEW h \in SweptFan, NEW k \in Kinds, NEW m \in Mins, NEW i \in Slot, Request(h, k, m, i)
      PROVE  Stays
  BY <1>2, <1>6, AwaitTypes DEF Request, Becomes
<1>7. ASSUME NEW h \in SweptFan, Abort(h) PROVE h = f \/ Stays
  <2>1. /\ runs[h] \in Slot /\ sweep[runs[h]].fan = h
        /\ \A i \in Slot : i # runs[h] => sweep'[i] = sweep[i]
        /\ \A i \in SweptFan : i # h => waiting'[i] = waiting[i]
    BY <1>7, AbortAwaits
  <2> QED BY <1>2, <2>1
<1>8. ASSUME NEW changed \in BOOLEAN, Restart(changed) PROVE waiting'[f] = Nobody
  BY <1>8 DEF Restart
<1>9. CASE Stays
  BY <1>1, <1>9
<1>10. CASE \E h \in Slot : Escalate(h)
  BY <1>1, <1>5, <1>10
<1> QED BY <1>3, <1>4, <1>6, <1>7, <1>8, <1>9, <1>10 DEF CalNext

\* What a step does for an Abort that waits.
LEMMA AbortStep == AwaitInv /\ WholeInv /\ [CalNext]_calVars => AbortMovesOn
<1> SUFFICES ASSUME AwaitInv, WholeInv, [CalNext]_calVars, NEW f \in SweptFan, waiting[f] # Nobody,
                    waiting'[f] # Nobody, ~Abort(f)
             PROVE  LET g == waiting[f] IN
                      /\ waiting'[f] = g /\ StepsLeft(sweep'[g]) \in 1 .. StepsLeft(sweep[g])
                      /\ StepsLeft(sweep[g]) \in 1 .. 11
                      /\ SweepStep(g) => StepsLeft(sweep'[g]) < StepsLeft(sweep[g])
  BY DEF AbortMovesOn
<1>1. waiting[f] \in Slot /\ sweep[waiting[f]].pc # "free"
  BY AwaitTypes DEF AwaitInv
<1>2. StepsLeft(sweep[waiting[f]]) \in 1 .. 11
  BY <1>1, StepsLeftBound DEF WholeInv
<1>3. CASE SweepStep(waiting[f])
  <2>1. /\ waiting'[f] = waiting[f] /\ sweep'[waiting[f]].pc # "free"
        /\ StepsLeft(sweep'[waiting[f]]) < StepsLeft(sweep[waiting[f]])
    BY <1>3, OwnStep
  <2>2. SweepsOK'
    BY WholeInvStep DEF WholeInv
  <2>3. \A g \in Slot : sweep'[g].pc # "free" => StepsLeft(sweep'[g]) \in 1 .. 11
    BY <2>2 DEF SweepsOK, GoodSweep, Sweep, StepsLeft, LeftAt, Place
  <2> QED BY <1>1, <1>2, <2>1, <2>3
<1>4. CASE ~SweepStep(waiting[f])
  <2>1. waiting'[f] = waiting[f] /\ StepsLeft(sweep'[waiting[f]]) = StepsLeft(sweep[waiting[f]])
    BY <1>4, OthersStep
  <2> QED BY <1>2, <1>4, <2>1
<1> QED BY <1>3, <1>4

\* An Abort that waits for done waits for a sweep that is going on and is
\* cancelled, and wherever the abort met it, however the fan answers, whatever the
\* other sweeps, requests and sentinels do, that sweep closes done within eleven
\* steps of its own.  With a scheduler that runs the sweep, AbortReturns follows.
THEOREM AbortsComeBack == CalSpec => []AwaitInv /\ AbortsMoveOn
<1>1. CalInit => WholeInv /\ AwaitInv
  BY WholeInvInit, AwaitInvInit
<1>2. (WholeInv /\ AwaitInv) /\ [CalNext]_calVars => (WholeInv /\ AwaitInv)'
  BY WholeInvStep, AwaitInvStep
<1>3. (WholeInv /\ AwaitInv) /\ [CalNext]_calVars => [AbortMovesOn]_calVars
  BY AbortStep
<1> QED BY <1>1, <1>2, <1>3, PTL DEF CalSpec, AbortsMoveOn
=============================================================================
