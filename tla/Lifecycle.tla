----------------------------- MODULE Lifecycle -----------------------------
(***************************************************************************)
(* The life of a ventd process around its watchdog: start-up (run and      *)
(* runDaemonInternal), the controller goroutines, calibration sweeps and   *)
(* the first-boot polarity probe as concurrent writers, the drain and the  *)
(* deferred Restore of an orderly exit, sudden death, systemd's restart,   *)
(* and the ventd-recover one-shot that OnFailure= starts beside it.        *)
(*                                                                         *)
(* Every action takes one step of the Watchdog module or leaves its state  *)
(* alone, so Spec implements the watchdog's specification.                 *)
(***************************************************************************)
EXTENDS Watchdog

CONSTANTS
    Main,       \* the caller of the deferred wd.Restore in run()
    Fan,        \* the channels of cfg.Fans
    Control,    \* the fans of cfg.Controls: one controller goroutine each
    ProbeList,  \* the channels of the polarity probe, in order
    Sweepable,  \* channels a calibration sweep can be started on
    Slow        \* channels whose restore can outlast the restore budget

ASSUME LifecycleAssumption ==
    /\ Fan \subseteq Channel
    /\ Control \subseteq Fan
    /\ Sweepable \subseteq Channel
    /\ Slow \subseteq Channel
    /\ ProbeList \in Seq(Channel)
    /\ Main \notin Control
    /\ Caller = Control \cup {Main}

VARIABLES
    main,       \* where run() stands
    todo,       \* the channels a start-up loop has not reached
    failed,     \* the process ended, or is ending, with an error
    probe,      \* the polarity goroutine: program counter and position
    polarity,   \* the polarity classification is in the store
    sweep,      \* sweep[c]: the calibration goroutine of c
    late,       \* history: channels swept after main stopped serving
    recover     \* the channels ventd-recover has not reached

process == <<main, todo, failed, probe, polarity, sweep, late, recover>>
lifeVars == <<vars, process>>

MainState == {"down", "registering", "reconciling", "serving", "draining",
              "joining", "restoring"}
ProbeState == {"off", "registering", "probing", "restoring", "popping", "done"}
SweepState == {"idle", "sweeping", "closing"}

NoProbe == [pc |-> "off", at |-> 1]

LifeTypeOK ==
    /\ TypeOK
    /\ main \in MainState
    /\ todo \subseteq Channel
    /\ failed \in BOOLEAN
    /\ probe \in [pc : ProbeState, at : Nat]
    /\ probe.pc \notin {"off", "done"} => probe.at \in DOMAIN ProbeList
    /\ polarity \in BOOLEAN
    /\ sweep \in [Channel -> SweepState]
    /\ late \subseteq Channel
    /\ recover \subseteq Channel

LifeInit ==
    /\ Init
    /\ main = "down"
    /\ todo = {}
    /\ failed = FALSE
    /\ probe = NoProbe
    /\ polarity = FALSE
    /\ sweep = [c \in Channel |-> "idle"]
    /\ late = {}
    /\ recover = {}

\* A channel whose I/O cannot fail beats the read deadline and is saved.
Reliable(c, ok) == c \in Faulty \/ ok

Registers(c) ==
    /\ Len(entries) < MaxEntries
    /\ \E readOk, saved \in BOOLEAN :
          /\ Reliable(c, readOk /\ saved)
          /\ Register(c, readOk, saved)

-----------------------------------------------------------------------------
(* Start-up.                                                               *)

\* run(): the watchdog, then the polarity goroutine when nothing is stored,
\* then runDaemonInternal.
Start ==
    /\ main = "down"
    /\ main' = "registering"
    /\ todo' = Fan
    /\ failed' = FALSE
    /\ late' = {}
    /\ probe' = [NoProbe EXCEPT !.pc = IF polarity \/ ProbeList = << >>
                                         THEN "done" ELSE "registering"]
    /\ UNCHANGED <<vars, polarity, sweep, recover>>

RegisterFan(c) ==
    /\ main = "registering"
    /\ c \in todo
    /\ Registers(c)
    /\ todo' = todo \ {c}
    /\ UNCHANGED <<main, failed, probe, polarity, sweep, late, recover>>

\* The channels ReconcileUnmanagedManual scans: the siblings, on the chips
\* ventd controls, of the channels it controls.
ChipOf(c) == <<Device[c].chip, BusAddr(Device[c])>>

\* Mutant of Unmanaged: only the configured fans are looked at.
UnmanagedFans ==
    {c \in Fan \ Control : \E k \in Control \cap EnablePath : ChipOf(k) = ChipOf(c)}

Unmanaged == {c \in EnablePath \ Control :
                 \E k \in Control \cap EnablePath : ChipOf(k) = ChipOf(c)}

FansRegistered ==
    /\ main = "registering"
    /\ todo = {}
    /\ main' = "reconciling"
    /\ todo' = Unmanaged
    /\ UNCHANGED <<vars, failed, probe, polarity, sweep, late, recover>>

\* A stranded sibling is handed back before any controller starts.
ReconcileChannel(c) ==
    /\ main = "reconciling"
    /\ c \in todo
    /\ todo' = todo \ {c}
    /\ IF enable[c] = Manual THEN RecoverChannel(c) ELSE UNCHANGED vars
    /\ UNCHANGED <<main, failed, probe, polarity, sweep, late, recover>>

\* The cohort is spawned and systemd told READY.
Serve ==
    /\ main = "reconciling"
    /\ todo = {}
    /\ main' = "serving"
    /\ UNCHANGED <<vars, todo, failed, probe, polarity, sweep, late, recover>>

-----------------------------------------------------------------------------
(* The controllers.                                                        *)

\* A write of a controller or a sweep: the backend takes manual mode on the
\* first write, after EBUSY and when its read-back finds the mode reverted; the
\* other writes are of the duty byte alone.
Drive(c) == TakeManual(c) \/ WriteDuty(c)

\* A controller has not left its loop until it calls Restore in Run's defer.
Looping(c) ==
    /\ main \in {"serving", "draining", "joining", "restoring"}
    /\ call[c].open = "idle"

\* One tick that writes: it yields to a sweep of the same path, and the
\* polarity guard refuses a channel the probe has not classified.
ControllerTick(c) ==
    /\ Looping(c)
    /\ sweep[c] # "sweeping"
    /\ polarity \/ c \notin Range(ProbeList)
    /\ Drive(c)
    /\ UNCHANGED process

\* Run returns, on the cancelled cohort context or on a panic or fatal error
\* while main still serves; either way its defer restores every entry of the
\* watchdog, the other controllers' fans included.
ControllerLeaves(c) ==
    /\ Looping(c)
    /\ RestoreCall(c)
    /\ UNCHANGED process

-----------------------------------------------------------------------------
(* The polarity probe goroutine: register all, pulse, then per channel     *)
(* RestoreOne and Deregister as two steps.                                 *)

Probed == ProbeList[probe.at]

\* Mutant of Advance: the position is not reset for the next loop.
AdvanceOnly(next) ==
    probe' = [pc |-> IF probe.at = Len(ProbeList) THEN next ELSE probe.pc,
              at |-> probe.at + 1]

Advance(next) ==
    probe' = IF probe.at = Len(ProbeList) THEN [pc |-> next, at |-> 1]
                                          ELSE [probe EXCEPT !.at = @ + 1]

ProbeRegisters ==
    /\ probe.pc = "registering"
    /\ Registers(Probed)
    /\ Advance("probing")
    /\ UNCHANGED <<main, todo, failed, polarity, sweep, late, recover>>

\* A pulse writes the duty byte and never the enable file.
ProbeWrites(c) ==
    /\ probe.pc = "probing"
    /\ WriteDuty(c)
    /\ UNCHANGED process

\* ProbeAll returns: classified, failed, or cancelled by the exit of main.
ProbeReturns ==
    /\ probe.pc = "probing"
    /\ probe' = [pc |-> "restoring", at |-> 1]
    /\ UNCHANGED <<vars, main, todo, failed, polarity, sweep, late, recover>>

ProbeRestores ==
    /\ probe.pc = "restoring"
    /\ \E saved \in BOOLEAN :
          Reliable(Probed, saved) /\ RestoreOne(Probed, saved)
    /\ probe' = [probe EXCEPT !.pc = "popping"]
    /\ UNCHANGED <<main, todo, failed, polarity, sweep, late, recover>>

\* After the last channel the results are persisted, unless the probe failed.
ProbePops ==
    /\ probe.pc = "popping"
    /\ Deregister(Probed)
    /\ IF probe.at < Len(ProbeList)
         THEN /\ probe' = [pc |-> "restoring", at |-> probe.at + 1]
              /\ UNCHANGED polarity
         ELSE /\ probe' = [pc |-> "done", at |-> 1]
              /\ polarity' \in BOOLEAN
    /\ UNCHANGED <<main, todo, failed, sweep, late, recover>>

-----------------------------------------------------------------------------
(* Calibration sweeps: goroutines of the web API and the setup wizard on a *)
(* background context, which no exit path cancels or waits for.            *)

Serving == main = "serving"
Swept(c) == late' = IF Serving THEN late ELSE late \cup {c}

\* runSyncPWM marks the run, registers the channel and starts its ramp.  The
\* wizard goes on to its next fan whatever main is doing.
SweepStarts(c) ==
    /\ main \in {"serving", "draining", "joining", "restoring"}
    /\ c \in Sweepable
    /\ sweep[c] = "idle"
    /\ Registers(c)
    /\ sweep' = [sweep EXCEPT ![c] = "sweeping"]
    /\ Swept(c)
    /\ UNCHANGED <<main, todo, failed, probe, polarity, recover>>

SweepWrites(c) ==
    /\ sweep[c] = "sweeping"
    /\ Drive(c)
    /\ Swept(c)
    /\ UNCHANGED <<main, todo, failed, probe, polarity, sweep, recover>>

\* The ramp is over or failed: the deferred cleanup writes MinPWM through the
\* same backend and clears running.  A failed write is ignored.
SweepCleansUp(c) ==
    /\ sweep[c] = "sweeping"
    /\ Drive(c) \/ (io[c] # "ok" /\ UNCHANGED vars)
    /\ sweep' = [sweep EXCEPT ![c] = "closing"]
    /\ Swept(c)
    /\ UNCHANGED <<main, todo, failed, probe, polarity, recover>>

\* ... and the outer defer pops the sweep's registration.
SweepPops(c) ==
    /\ sweep[c] = "closing"
    /\ Deregister(c)
    /\ sweep' = [sweep EXCEPT ![c] = "idle"]
    /\ Swept(c)
    /\ UNCHANGED <<main, todo, failed, probe, polarity, recover>>

-----------------------------------------------------------------------------
(* Exit paths.                                                             *)

\* SIGTERM, SIGINT or a cancelled context: the cohort is cancelled.
Stop ==
    /\ Serving
    /\ main' = "draining"
    /\ UNCHANGED <<vars, todo, failed, probe, polarity, sweep, late, recover>>

\* The error of a controller that has left is read from errCh.
SeeFailure(c) ==
    /\ Serving
    /\ call[c].open = "returned"
    /\ main' = "draining"
    /\ failed' = TRUE
    /\ UNCHANGED <<vars, todo, probe, polarity, sweep, late, recover>>

\* Mutant of Drained: the cohort is cancelled and not waited for.
DrainedEarly ==
    /\ main = "draining"
    /\ main' = "joining"
    /\ UNCHANGED <<vars, todo, failed, probe, polarity, sweep, late, recover>>

\* drainCohort has waited for every controller.
Drained ==
    /\ main = "draining"
    /\ \A c \in Control : call[c].open = "returned"
    /\ main' = "joining"
    /\ UNCHANGED <<vars, todo, failed, probe, polarity, sweep, late, recover>>

\* The deferred polarityWG.Wait, then the deferred wd.Restore.
MainRestores ==
    /\ main = "joining"
    /\ probe.pc = "done"
    /\ RestoreCall(Main)
    /\ main' = "restoring"
    /\ UNCHANGED <<todo, failed, probe, polarity, sweep, late, recover>>

\* The end of the process: its goroutines and its registry are gone.
ProcessEnds ==
    /\ ProcessDies
    /\ main' = "down"
    /\ todo' = {}
    /\ probe' = NoProbe
    /\ sweep' = [c \in Channel |-> "idle"]
    /\ UNCHANGED <<polarity, late>>

\* OnFailure= starts ventd-recover, which walks every enable file.
Exit ==
    /\ main = "restoring"
    /\ call[Main].open = "returned"
    /\ ProcessEnds
    /\ recover' = IF failed THEN EnablePath ELSE recover
    /\ UNCHANGED failed

\* SIGKILL, OOM, a systemd watchdog timeout, a panic outside the defers.
Kill ==
    /\ main # "down"
    /\ ProcessEnds
    /\ failed' = TRUE
    /\ recover' = EnablePath

-----------------------------------------------------------------------------
(* The watchdog's goroutines, ventd-recover and the machine.               *)

RestoreStep(r) ==
    /\ \/ \E i \in call[r].left, saved \in BOOLEAN :
             /\ Reliable(call[r].snap[i].path, saved)
             /\ RestoreEntry(r, i, saved)
       \/ \E i \in call[r].left : RestoreSkip(r, i)
       \/ RestoreDone(r)
    /\ UNCHANGED process

\* Mutant of RestoreTimesOut: Restore waits for its goroutines without a budget.
RestoreWaits(r) == FALSE /\ RestoreDeadline(r) /\ UNCHANGED process

\* The budget is long enough for every channel that is not slow.
RestoreTimesOut(r) ==
    /\ \A i \in call[r].left : call[r].snap[i].path \in Slow
    /\ RestoreDeadline(r)
    /\ UNCHANGED process

RecoverStep(c) ==
    /\ c \in recover
    /\ RecoverChannel(c)
    /\ recover' = recover \ {c}
    /\ UNCHANGED <<main, todo, failed, probe, polarity, sweep, late>>

Machine ==
    /\ \/ \E c \in Channel, m \in FirmwareMode : FirmwareReasserts(c, m)
       \/ \E c \in Faulty, o \in IoOutcome : IoChanges(c, o)
    /\ UNCHANGED process

-----------------------------------------------------------------------------
LifeNext ==
    \/ Start \/ FansRegistered \/ Serve
    \/ \E c \in Channel : RegisterFan(c) \/ ReconcileChannel(c)
    \/ \E c \in Control : ControllerTick(c) \/ ControllerLeaves(c)
    \/ ProbeRegisters \/ ProbeReturns \/ ProbeRestores \/ ProbePops
    \/ \E c \in Range(ProbeList) : ProbeWrites(c)
    \/ \E c \in Channel : \/ SweepStarts(c) \/ SweepWrites(c)
                          \/ SweepCleansUp(c) \/ SweepPops(c)
    \/ Stop \/ Drained \/ MainRestores \/ Exit \/ Kill
    \/ \E c \in Control : SeeFailure(c)
    \/ \E r \in Caller : RestoreStep(r) \/ RestoreTimesOut(r)
    \/ \E c \in Channel : RecoverStep(c)
    \/ Machine

LifeSpec == LifeInit /\ [][LifeNext]_lifeVars

\* systemd runs the one-shot to its end; the scheduler runs the goroutines of
\* an exiting process, but a goroutine inside a write to a slow channel may
\* never come back; the budget timer fires.
Prompt(r) == RestoreStep(r) /\ \A i \in call[r].left \ call'[r].left :
                                  call[r].snap[i].path \notin Slow

Fairness ==
    /\ \A c \in Channel : WF_lifeVars(RecoverStep(c))
    /\ \A c \in Control \ Slow :
          WF_lifeVars(main = "draining" /\ ControllerLeaves(c))
    /\ \A r \in Caller : WF_lifeVars(Prompt(r)) /\ WF_lifeVars(RestoreTimesOut(r))
    /\ WF_lifeVars(ProbeRegisters \/ ProbeReturns \/ ProbeRestores \/ ProbePops)
    /\ WF_lifeVars(Drained \/ MainRestores \/ Exit)

LiveSpec == LifeSpec /\ Fairness

-----------------------------------------------------------------------------
(* Properties.                                                             *)

HeldNow(c) == Held(c, enable[c], duty[c])

\* The chip takes what the handback walk can write, and so answers it.
Takes(c) ==
    /\ c \notin Faulty
    /\ c \in EnablePath => FirstAccepted(c, SafePreDaemonEnableSequence) # Unknown

\* It also takes what Restore can write, within the budget.
Restorable(c) ==
    /\ Takes(c) /\ c \notin Slow
    /\ c \in EnablePath => FirmwareMode \subseteq Accepts[c]

\* How many actors hold a registration of c: the daemon from its start-up loop
\* on, a sweep until it pops, the probe until it pops.
Registrations(c) == Cardinality({i \in DOMAIN entries : entries[i].path = c})

DaemonOwns(c) ==
    c \in Fan /\ main # "down" /\ (main = "registering" => c \notin todo)

ProbeOwns(i) ==
    \/ probe.pc = "registering" /\ i < probe.at
    \/ probe.pc = "probing"
    \/ probe.pc \in {"restoring", "popping"} /\ i >= probe.at

Owners(c) ==
    (IF DaemonOwns(c) THEN 1 ELSE 0) + (IF sweep[c] # "idle" THEN 1 ELSE 0)
    + Cardinality({i \in DOMAIN ProbeList : ProbeList[i] = c /\ ProbeOwns(i)})

\* Pushes and pops of concurrent owners never cross: Deregister takes the most
\* recent entry of the path, whoever pushed it, and still every owner of a
\* channel finds one entry of its own, so no writer is ever uncovered.
EntriesAreOwned == \A c \in Channel : Registrations(c) = Owners(c)

\* An orderly exit leaves no configured fan at a ventd duty byte: no writer the
\* exit path waits for can write after the restore that is final for its fan.
\* Channels swept while the process was going down are not waited for.
ExitHandsBack ==
    [][Exit => \A c \in Fan \ late : Restorable(c) => ~HeldNow(c)]_lifeVars

\* "The daemon walks every fan it has touched and restores pwm_enable"
\* (docs/safety.md, Graceful exit), a fan swept during the exit included.
SweptFanIsHandedBack ==
    [][Exit => \A c \in Fan : Restorable(c) => ~HeldNow(c)]_lifeVars

\* No sibling of a controlled channel is left in manual mode, at a duty byte
\* of an earlier process, when the controllers start.  A sibling of the probe's
\* that refuses what its BIOS set is left there by the probe's own restore.
NoStrandedSibling ==
    [][Serve => \A c \in EnablePath \ Control, k \in Control \cap EnablePath :
          Takes(c) /\ ChipOf(k) = ChipOf(c)
          /\ (c \in Range(ProbeList) => FirmwareMode \subseteq Accepts[c])
            => enable[c] # Manual]_lifeVars

\* An exit ends, however long the sysfs writes of a slow channel hang.
ExitEnds == main = "draining" ~> main = "down"

\* The abstract promise, for the channels with an enable file.
Authority == INSTANCE FanAuthority WITH
    Channel <- {c \in EnablePath : Restorable(c)},
    owner <- [c \in {k \in EnablePath : Restorable(k)} |->
                IF ~HeldNow(c) THEN "firmware"
                ELSE IF main = "down" THEN "orphan" ELSE "ventd"],
    alive <- main # "down",
    owed <- {c \in recover : Restorable(c)},
    excused <- late \cup (Channel \ Fan)

ImplementsAuthority == Authority!Spec
=============================================================================
