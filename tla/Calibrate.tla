----------------------------- MODULE Calibrate -----------------------------
(***************************************************************************)
(* The calibration manager of internal/calibrate: sweeps of a fan, each a  *)
(* goroutine that steps the duty up and then down, samples the tach after  *)
(* every step and checkpoints to calibration.json, so that a restarted     *)
(* daemon resumes; the requests that start and abort them; the zero-PWM    *)
(* sentinel of a sweep; and the death of the process between any two steps.*)
(*                                                                         *)
(* The fan is a rotor: it starts at a duty of rotor[f], and once it spins  *)
(* it goes on down to StopsAt.  A tach reading tells whether it spins.     *)
(***************************************************************************)
EXTENDS Integers, Sequences

CONSTANTS
    SweptFan,          \* the fans, by pwm path
    Slot,         \* sweep goroutines that can exist at once
    Slots,        \* Slots[f]: those of them that can sweep fan f
    Kinds,        \* how sweeps are requested: "start" (HTTP), "sync" (wizard)
    Bytes,        \* 256: a duty is a byte
    Steps,        \* 20: steps of the up-ramp
    NoFanSteps,   \* 3: silent steps at half duty or more that mean no fan
    Mins,         \* the values the configuration gives MinPWM
    Floor,        \* SafePWMFloor
    RotorStarts,  \* duties at which a fan may start to spin; Bytes: no fan
    StopsAt,      \* the lowest duty at which a spinning fan goes on
    MaxLost,      \* bound: how many writes of calibration.json may fail
    Nobody

Max == Bytes - 1

ASSUME CalAssumption ==
    /\ SweptFan # {} /\ Slots \in [SweptFan -> SUBSET Slot]
    /\ Kinds \subseteq {"start", "sync"}
    /\ Bytes \in Nat /\ Bytes > 2 /\ Steps \in Nat \ {0}
    /\ NoFanSteps \in Nat \ {0} /\ MaxLost \in Nat
    /\ Mins \subseteq 0 .. Max /\ Floor \in 1 .. Max
    /\ RotorStarts \subseteq StopsAt .. Bytes
    /\ StopsAt \in 1 .. Max
    /\ Nobody \notin Slot

VARIABLES
    rotor,        \* rotor[f]: where fan f starts to spin
    spin,         \* whether it spins
    duty,         \* its duty register
    sweep,        \* sweep[g]: the goroutine in slot g, with its run state
    runs,         \* m.runs: the last sweep of each fan that has not ended
    results,      \* m.results
    stored,         \* calibration.json
    lost,         \* how many writes of it have failed
    waiting,      \* waiting[f]: the sweep an Abort of f waits for
    aborting      \* history: f's last sweep was running when it was aborted,
                  \* and no write of its last record has failed

fans == <<rotor, spin, duty>>
store == <<results, stored>>
client == <<runs, waiting, aborting, lost>>
calVars == <<fans, sweep, store, client>>

Byte == 0 .. Max

-----------------------------------------------------------------------------
(* Results.                                                                *)

Result == [start : Byte, stop : Byte, curve : Seq(Byte), partial : BOOLEAN,
           completed : 0 .. Steps + 1, down : Byte, min : Byte,
           aborted : BOOLEAN, phantom : BOOLEAN]

Blank == [start |-> 0, stop |-> 0, curve |-> << >>, partial |-> FALSE,
          completed |-> 0, down |-> 0, min |-> 0, aborted |-> FALSE,
          phantom |-> FALSE]

\* min stands for the fingerprint: what a change of the configuration changes.
Snapshot(s, down, completed) ==
    [start |-> s.start, stop |-> s.stop, curve |-> s.curve, partial |-> TRUE,
     completed |-> completed, down |-> down, min |-> s.min, aborted |-> FALSE,
     phantom |-> FALSE]

Final(s) == [Snapshot(s, 0, 0) EXCEPT !.partial = FALSE]
Phantom(s) == [Final(s) EXCEPT !.phantom = TRUE]

\* Mutant of MarkAborted: the record is labelled and stays a checkpoint.
MarkAbortedOnly(r) == [r EXCEPT !.aborted = TRUE]

MarkAborted(r) ==
    [r EXCEPT !.partial = FALSE, !.aborted = TRUE, !.completed = 0, !.down = 0]

\* Mutant of Resumes: the fingerprint of the checkpoint is not compared.
ResumesAny(prev, min) == prev.partial

Resumes(prev, min) == prev.partial /\ prev.min = min

StepDuty(min, k) == IF k = Steps THEN Max ELSE min + (k * (Max - min)) \div Steps

Settled(f, d) == d >= rotor[f] \/ (spin[f] /\ d >= StopsAt)

-----------------------------------------------------------------------------
(* Sweeps.                                                                 *)

Place == {"free", "launched", "step", "set", "hold", "down", "fall", "save",
          "cleanup", "stopping", "tail", "close"}

Sweep == [pc : Place, fan : SweptFan, kind : {"start", "sync"}, min : Byte,
          running : BOOLEAN, cancelled : BOOLEAN, step : 0 .. Steps + 1,
          p : -1 .. Max, start : Byte, stop : Byte, curve : Seq(Byte),
          noFan : 0 .. NoFanSteps, armed : BOOLEAN, failed : BOOLEAN,
          res : Result, out : [SweptFan -> Result], after : Place]

Fresh(f, k, m) ==
    [pc |-> "launched", fan |-> f, kind |-> k, min |-> m, running |-> FALSE,
     cancelled |-> FALSE, step |-> 0, p |-> 0, start |-> 0, stop |-> 0,
     curve |-> << >>, noFan |-> 0, armed |-> FALSE, failed |-> FALSE,
     res |-> Blank, out |-> [h \in SweptFan |-> Blank], after |-> "free"]

NoSweep ==
    [Fresh(CHOOSE f \in SweptFan : TRUE, "start", 0) EXCEPT !.pc = "free"]

CalTypeOK ==
    /\ rotor \in [SweptFan -> RotorStarts] /\ spin \in [SweptFan -> BOOLEAN]
    /\ duty \in [SweptFan -> Byte]
    /\ sweep \in [Slot -> Sweep]
    /\ runs \in [SweptFan -> Slot \cup {Nobody}]
    /\ results \in [SweptFan -> Result] /\ stored \in [SweptFan -> Result]
    /\ waiting \in [SweptFan -> Slot \cup {Nobody}]
    /\ aborting \in [SweptFan -> BOOLEAN] /\ lost \in 0 .. MaxLost

CalInit ==
    /\ rotor \in [SweptFan -> RotorStarts]
    /\ spin = [f \in SweptFan |-> FALSE] /\ duty = [f \in SweptFan |-> Max]
    /\ sweep = [g \in Slot |-> NoSweep]
    /\ runs = [f \in SweptFan |-> Nobody]
    /\ results = [f \in SweptFan |-> Blank] /\ stored = results
    /\ waiting = runs /\ aborting = [f \in SweptFan |-> FALSE] /\ lost = 0

Becomes(g, s) == sweep' = [sweep EXCEPT ![g] = s]

\* runSync returns res; failed: with an error.
Returns(g, res, failed) ==
    Becomes(g, [sweep[g] EXCEPT !.pc = "cleanup", !.res = res, !.failed = failed])

\* checkpoint and save: the marshalled results are written in a later step.
Saves(g, s, r, next) ==
    /\ results' = [results EXCEPT ![s.fan] = r]
    /\ Becomes(g, [s EXCEPT !.pc = "save", !.out = results', !.after = next])

Commands(f, d) == duty' = [duty EXCEPT ![f] = d] /\ UNCHANGED <<rotor, spin>>
Spins(f, now) == spin' = [spin EXCEPT ![f] = now] /\ UNCHANGED <<rotor, duty>>

-----------------------------------------------------------------------------
(* Requests.                                                               *)

Running(f) == runs[f] # Nobody /\ sweep[runs[f]].running

\* Start or RunSync: refused while the fan's last sweep is running.
Request(f, k, m, g) ==
    /\ ~Running(f)
    /\ g \in Slots[f] /\ sweep[g].pc = "free"
    /\ Becomes(g, Fresh(f, k, m))
    /\ runs' = [runs EXCEPT ![f] = g]
    /\ aborting' = [aborting EXCEPT ![f] = FALSE]
    /\ UNCHANGED <<fans, store, waiting, lost>>

\* Abort cancels the sweep's context, and waits for done if it has one.
Abort(f) ==
    LET g == runs[f] IN
    /\ g # Nobody /\ ~sweep[g].cancelled
    /\ Becomes(g, [sweep[g] EXCEPT !.cancelled = TRUE])
    /\ waiting' = [waiting EXCEPT ![f] = IF sweep[g].kind = "start" THEN g ELSE @]
    /\ aborting' = [aborting EXCEPT ![f] = sweep[g].kind = "start" /\ sweep[g].running]
    /\ UNCHANGED <<fans, store, runs, lost>>

-----------------------------------------------------------------------------
(* A sweep.                                                                *)

\* The fan resolves to no channel: runSyncPWM returns before it has begun.
Unresolved(g) ==
    /\ sweep[g].pc = "launched"
    /\ Becomes(g, [sweep[g] EXCEPT !.pc = "tail", !.failed = TRUE])
    /\ UNCHANGED <<fans, store, client>>

\* The sweep resumes from the fan's checkpoint, if there is one for this
\* configuration.  Whoever drove the fan until now left it spinning or not.
Begin(g) ==
    LET s == sweep[g]
        prev == results[s.fan]
        from == IF Resumes(prev, s.min) THEN prev ELSE Blank
    IN  /\ s.pc = "launched"
        /\ Becomes(g, [s EXCEPT !.pc = "step", !.running = TRUE,
                                !.step = from.completed, !.p = from.down,
                                !.start = from.start, !.curve = from.curve])
        /\ \E now \in BOOLEAN : (now => rotor[s.fan] # Bytes) /\ Spins(s.fan, now)
        /\ UNCHANGED <<store, client>>

\* The up-ramp has ended: all steps done, or no fan.
Climbed(s) == s.step > Steps \/ s.noFan = NoFanSteps

\* The write of a step; the sentinel learns of it when it has succeeded.
Climb(g) ==
    LET s == sweep[g] IN
    /\ s.pc = "step" /\ ~Climbed(s)
    /\ IF s.cancelled THEN Returns(g, Snapshot(s, 0, s.step), TRUE) /\ UNCHANGED fans
       ELSE \/ /\ Commands(s.fan, StepDuty(s.min, s.step))
               /\ Becomes(g, [s EXCEPT !.pc = "set"])
            \/ Returns(g, Snapshot(s, 0, s.step), TRUE) /\ UNCHANGED fans
    /\ UNCHANGED <<store, client>>

\* sentinel.Set: zero starts the timer, anything else stops it.
SetSentinel(g) ==
    LET s == sweep[g] IN
    /\ s.pc = "set"
    /\ Becomes(g, [s EXCEPT !.pc = "hold", !.armed = StepDuty(s.min, s.step) = 0])
    /\ UNCHANGED <<fans, store, client>>

\* The timer fires, once, and not after the sentinel was stopped.
Escalate(g) ==
    LET s == sweep[g] IN
    /\ s.armed
    /\ Becomes(g, [s EXCEPT !.armed = FALSE])
    /\ Commands(s.fan, Floor) \/ UNCHANGED fans
    /\ UNCHANGED <<store, client>>

\* The step's hold is over: the tach is sampled and the step checkpointed.
Sample(g) ==
    LET s == sweep[g]
        f == s.fan
        d == StepDuty(s.min, s.step)
        rpm == Settled(f, duty[f])
        start == IF rpm /\ s.start = 0 THEN d ELSE s.start
        next == [s EXCEPT !.start = start, !.curve = Append(@, d), !.step = @ + 1,
                          !.noFan = IF start = 0 /\ d >= Max \div 2 THEN @ + 1 ELSE 0]
    IN  /\ s.pc = "hold"
        /\ Spins(f, rpm)
        /\ Saves(g, next, Snapshot(next, 0, next.step), "step")
        /\ UNCHANGED <<stored, client>>

\* The hold is interrupted, or the tach gives nothing but sentinel values.
HoldEnds(g) ==
    LET s == sweep[g] IN
    /\ s.pc = "hold"
    /\ \/ s.cancelled /\ Returns(g, Snapshot(s, 0, s.step), TRUE)
       \/ Returns(g, Phantom(s), FALSE)
    /\ UNCHANGED <<fans, store, client>>

\* The file is replaced by what was marshalled; a failure is only logged.
Save(g) ==
    LET s == sweep[g] IN
    /\ s.pc = "save"
    /\ \/ stored' = s.out /\ UNCHANGED <<aborting, lost>>
       \/ /\ lost < MaxLost /\ lost' = lost + 1
          /\ aborting' = [aborting EXCEPT ![s.fan] = @ /\ s.after # "close"]
          /\ UNCHANGED stored
    /\ Becomes(g, [s EXCEPT !.pc = s.after, !.out = NoSweep.out, !.after = "free"])
    /\ UNCHANGED <<fans, results, runs, waiting>>

\* The down-ramp starts where the fan started, or below the last checkpoint.
Turn(g) ==
    LET s == sweep[g] IN
    /\ s.pc = "step" /\ Climbed(s)
    /\ Becomes(g, [s EXCEPT !.pc = "down", !.p = IF @ > 0 THEN @ - 2 ELSE s.start])
    /\ UNCHANGED <<fans, store, client>>

\* A write that fails ends the down-ramp without a stop duty.
Descend(g) ==
    LET s == sweep[g] IN
    /\ s.pc = "down"
    /\ IF s.p <= 0 THEN Returns(g, Final(s), FALSE) /\ UNCHANGED fans
       ELSE IF s.cancelled
         THEN Returns(g, Snapshot(s, s.p, Steps + 1), TRUE) /\ UNCHANGED fans
       ELSE \/ Commands(s.fan, s.p) /\ Becomes(g, [s EXCEPT !.pc = "fall"])
            \/ Returns(g, Final(s), FALSE) /\ UNCHANGED fans
    /\ UNCHANGED <<store, client>>

\* Mutant of StopDuty: the duty the fan stalled at.
StalledDuty(p) == p

\* The last duty that kept the fan spinning, in a byte.
StopDuty(p) == (p + 2) % Bytes

\* A tach that gives nothing reads as a stalled fan.
Stalls(g) ==
    LET s == sweep[g] IN
    /\ s.pc = "fall"
    /\ \/ Settled(s.fan, duty[s.fan]) /\ UNCHANGED fans
       \/ ~Settled(s.fan, duty[s.fan]) /\ Spins(s.fan, FALSE)
    /\ Returns(g, Final([s EXCEPT !.stop = StopDuty(s.p)]), FALSE)
    /\ UNCHANGED <<store, client>>

GoesOn(g) ==
    LET s == sweep[g] IN
    /\ s.pc = "fall"
    /\ Settled(s.fan, duty[s.fan]) /\ Spins(s.fan, TRUE)
    /\ Saves(g, [s EXCEPT !.p = @ - 2], Snapshot(s, s.p, Steps + 1), "down")
    /\ UNCHANGED <<stored, client>>

FallEnds(g) ==
    LET s == sweep[g] IN
    /\ s.pc = "fall" /\ s.cancelled
    /\ Returns(g, Snapshot(s, s.p, Steps + 1), TRUE)
    /\ UNCHANGED <<fans, store, client>>

\* The deferred write of MinPWM, which may fail; the fan is no longer calibrating.
Cleanup(g) ==
    LET s == sweep[g] IN
    /\ s.pc = "cleanup"
    /\ Commands(s.fan, s.min) \/ UNCHANGED fans
    /\ Becomes(g, [s EXCEPT !.pc = "stopping", !.running = FALSE])
    /\ UNCHANGED <<store, client>>

StopSentinel(g) ==
    /\ sweep[g].pc = "stopping"
    /\ Becomes(g, [sweep[g] EXCEPT !.pc = "tail", !.armed = FALSE])
    /\ UNCHANGED <<fans, store, client>>

\* What run and RunSync keep of the result: run everything, RunSync nothing of
\* an error that was not a cancellation.
Keep(g) ==
    LET s == sweep[g]
        aborted == s.cancelled /\ (s.kind = "start" \/ s.failed)
    IN  /\ s.pc = "tail"
        /\ IF s.kind = "sync" /\ s.failed /\ ~s.cancelled
             THEN Becomes(g, [s EXCEPT !.pc = "close"]) /\ UNCHANGED results
             ELSE Saves(g, s, IF aborted THEN MarkAborted(s.res) ELSE s.res, "close")
        /\ UNCHANGED <<fans, stored, client>>

\* done is closed: whoever waits for it returns.
Closes(g) ==
    /\ Becomes(g, NoSweep)
    /\ runs' = [f \in SweptFan |-> IF runs[f] = g THEN Nobody ELSE runs[f]]
    /\ waiting' = [f \in SweptFan |-> IF waiting[f] = g THEN Nobody ELSE waiting[f]]
    /\ UNCHANGED <<fans, store, aborting, lost>>

\* Mutant of Close: done stays open when the sweep failed.
CloseOnSuccess(g) == sweep[g].pc = "close" /\ ~sweep[g].failed /\ Closes(g)

Close(g) == sweep[g].pc = "close" /\ Closes(g)

-----------------------------------------------------------------------------
\* The process dies and is restarted.  New loads the file, and drops the
\* records when the hardware has changed.
Restart(changed) ==
    /\ sweep' = [g \in Slot |-> NoSweep]
    /\ runs' = [f \in SweptFan |-> Nobody] /\ waiting' = runs'
    /\ results' = IF changed THEN [f \in SweptFan |-> Blank] ELSE stored
    /\ aborting' = [f \in SweptFan |-> aborting[f] /\ waiting[f] = Nobody]
    /\ UNCHANGED <<fans, stored, lost>>

SweepStep(g) ==
    \/ Unresolved(g) \/ Begin(g) \/ Climb(g) \/ SetSentinel(g) \/ Sample(g)
    \/ HoldEnds(g) \/ Save(g) \/ Turn(g) \/ Descend(g) \/ Stalls(g)
    \/ GoesOn(g) \/ FallEnds(g) \/ Cleanup(g) \/ StopSentinel(g) \/ Keep(g)
    \/ Close(g)

CalNext ==
    \/ \E f \in SweptFan, k \in Kinds, m \in Mins, g \in Slot : Request(f, k, m, g)
    \/ \E f \in SweptFan : Abort(f)
    \/ \E g \in Slot : SweepStep(g) \/ Escalate(g)
    \/ \E changed \in BOOLEAN : Restart(changed)

CalSpec == CalInit /\ [][CalNext]_calVars

\* A sweep's goroutine goes on: its waits have timeouts, its writes return.
LiveCal == CalSpec /\ \A g \in Slot : WF_calVars(SweepStep(g))

-----------------------------------------------------------------------------
(* Properties.                                                             *)

Ladder(min, n) == [k \in 1 .. n |-> StepDuty(min, k - 1)]

\* However often a sweep was interrupted, resumed, failed or restarted under
\* another configuration: the curve of a checkpoint holds one sample for each
\* completed step of its own configuration, in order, and a finished sweep
\* that found a fan has them all.
CurveIsWhole ==
    /\ CalTypeOK
    /\ \A f \in SweptFan : \A r \in {results[f], stored[f]} :
         /\ r.partial => r.curve = Ladder(r.min, r.completed)
         /\ ~r.partial /\ ~r.aborted /\ ~r.phantom /\ r.start > 0 =>
              r.curve = Ladder(r.min, Steps + 1)

\* The stop duty of a finished sweep keeps a spinning fan spinning, wherever
\* it was interrupted and whichever reading failed, so that what relies on it
\* never stalls the fan: "lowest PWM that keeps a spinning fan spinning".  Left
\* out are a start duty above Max - 2, where StopDuty can wrap, and one below a
\* floor the fan goes on at: the sentinel may write the floor between a step's
\* write and the Set that stops it, and the step then samples the floor.
StopHolds ==
    \A f \in SweptFan : LET r == results[f] IN
        /\ ~r.partial /\ r.stop > 0 /\ r.start <= Max - 2
        /\ r.start < Floor => Floor < StopsAt
        => r.stop >= StopsAt

\* What a sweep leaves, however it was interrupted: a whole curve and a stop
\* duty that can be relied on.
CurveIsSound == CurveIsWhole /\ StopHolds

\* Once the abort of a running sweep has returned and its record could be
\* written, no restart resumes it: "the user's cancellation is honoured across
\* daemon restarts".  This is of one sweep at a time: save writes what was
\* marshalled before, so that the save of another fan's sweep can put the
\* aborted fan's checkpoint back.
AbortIsFinal ==
    \A f \in SweptFan : aborting[f] /\ waiting[f] = Nobody =>
        ~stored[f].partial /\ ~results[f].partial

\* An abort returns, wherever it meets the sweep (the main loop calls it, and
\* serves nothing while it waits).
AbortReturns == \A f \in SweptFan : waiting[f] # Nobody ~> waiting[f] = Nobody

\* What Start promises, and a second Start that comes before the first sweep
\* has begun does not find out: it "Returns an error if a calibration is already
\* in progress for this fan".
SweepsAreExclusive ==
    \A g, h \in Slot :
        sweep[g].running /\ sweep[h].running /\ sweep[g].fan = sweep[h].fan => g = h

=============================================================================
