----------------------------- MODULE SetupWizard -----------------------------
(***************************************************************************)
(* The first-boot wizard: internal/setup/setup.go (Manager), the phases of *)
(* internal/setup/orchestrator with their checkpoint file, the bridge      *)
(* between them, and the web handlers that reset and abort a run.          *)
(*                                                                         *)
(* The phases before the probe are one, "prepare".  A phase's artifact is  *)
(* a function of the fans.  Of a fan's registers only pwm_enable is kept.  *)
(***************************************************************************)
EXTENDS Naturals, FiniteSets, Sequences

CONSTANTS
    Fans,       \* the hwmon channels with a pwm_enable
    Paired,     \* those with a tach of the same index
    MaxStarts, MaxDeaths, MaxResets, MaxFaults   \* bounds

ASSUME WizardAssumption == Paired \subseteq Fans

VARIABLES
    disk,       \* state.json: phase -> outcome
    mem,        \* Run's local copy of it
    args,       \* what the running phase loaded from it
    config,     \* config.yaml
    marker,     \* .setup-applied
    enable,     \* fan -> pwm_enable: "auto" (the firmware's) or "manual"
    driving,    \* the fans with a controller
    pc, ph,     \* where the setup goroutine is, and its phase
    left, work, \* the fans the phase has yet to visit, and its results
    out,        \* the outcome to be recorded
    cancelled,  \* Abort was called
    done,       \* Manager.done
    applied,    \* Manager.phase is "applied"
    starts, deaths, resets, faults

machine == <<config, marker, driving, deaths, resets>>
wizVars == <<disk, mem, args, config, marker, enable, driving, pc, ph, left, work, out,
             cancelled, done, applied, starts, deaths, resets, faults>>

Phases == <<"prepare", "probe", "rpm_detect", "polarity", "calibrate", "apply">>
Names == {Phases[i] : i \in 1..6}

Nothing == [f \in Fans |-> "none"]
Pending == [status |-> "pending", art |-> Nothing]
Failed  == [status |-> "failed", art |-> Nothing]
Success(art) == [status |-> "success", art |-> art]
NoConfig == [fans |-> Fans, controlled |-> FALSE, exists |-> FALSE]
Fresh == [p \in Names |-> Pending]

WizardInit ==
    /\ disk = Fresh /\ mem = Fresh /\ args = Fresh
    /\ config = NoConfig /\ marker = FALSE
    /\ enable = [f \in Fans |-> "auto"] /\ driving = {}
    /\ pc = "idle" /\ ph = 1 /\ left = {} /\ work = Nothing /\ out = Pending
    /\ cancelled = FALSE /\ done = FALSE /\ applied = FALSE
    /\ starts = 0 /\ deaths = 0 /\ resets = 0 /\ faults = 0

Fault == faults < MaxFaults /\ faults' = faults + 1
NoFault == UNCHANGED faults

-----------------------------------------------------------------------------
(* Manager.Start and Orchestrator.Run *)

Start ==
    /\ pc = "idle" /\ ~done /\ starts < MaxStarts
    /\ starts' = starts + 1 /\ pc' = "load" /\ cancelled' = FALSE
    /\ UNCHANGED <<machine, disk, mem, args, enable, ph, left, work, out, done, applied, faults>>

Load ==
    /\ pc = "load" /\ mem' = disk /\ ph' = 1 /\ pc' = "next"
    /\ UNCHANGED <<machine, disk, args, enable, left, work, out, cancelled, done, applied,
                   starts, faults>>

CarriedForward == ph <= 6 /\ mem[Phases[ph]].status = "success"

Carry ==
    /\ pc = "next" /\ CarriedForward /\ ph' = ph + 1
    /\ UNCHANGED <<machine, disk, mem, args, enable, pc, left, work, out, cancelled, done,
                   applied, starts, faults>>

\* A phase starts: it reads its predecessors' artifacts from the file, and
\* those that work on fans fail without the probe's.
Begin ==
    /\ pc = "next" /\ ph <= 6 /\ ~CarriedForward
    /\ args' = disk /\ work' = Nothing
    /\ IF ph > 2 /\ disk["probe"].status # "success"
       THEN pc' = "save" /\ out' = Failed /\ left' = {}
       ELSE pc' = Phases[ph] /\ left' = Fans /\ UNCHANGED out
    /\ UNCHANGED <<machine, disk, mem, enable, ph, cancelled, done, applied, starts, faults>>

EndPhase(o) ==
    /\ out' = o /\ pc' = "save" /\ left' = {}
    /\ UNCHANGED <<machine, disk, mem, args, ph, work, cancelled, done, applied, starts>>

\* A phase visits one fan: v is its entry.
Visit(f, v, more) ==
    /\ work' = [work EXCEPT ![f] = v] /\ left' = more
    /\ UNCHANGED <<machine, disk, mem, args, pc, ph, out, cancelled, done, applied, starts, faults>>

\* Mutant of SavedState: the file is read again before the entry is added.
SavedOver == [disk EXCEPT ![Phases[ph]] = out]

SavedState == [mem EXCEPT ![Phases[ph]] = out]

\* Mutant of Ends: a failed phase is tried again.
EndsNever(saved) == ~saved \/ cancelled

\* The run stops on a failed save, a failed phase or a cancelled context.
Ends(saved) == ~saved \/ out.status = "failed" \/ cancelled

Save ==
    /\ pc = "save" /\ mem' = SavedState
    /\ \E saved \in BOOLEAN :
          /\ IF saved THEN disk' = SavedState /\ NoFault ELSE Fault /\ UNCHANGED disk
          /\ IF Ends(saved)
             THEN pc' = "idle" /\ done' = TRUE /\ UNCHANGED ph
             ELSE /\ pc' = "next" /\ UNCHANGED done
                  /\ ph' = IF out.status = "success" THEN ph + 1 ELSE ph
    /\ UNCHANGED <<machine, args, enable, left, work, out, cancelled, applied, starts>>

-----------------------------------------------------------------------------
(* The phases *)

\* inventory, conflict_hunt, driver_plan, driver_install, nvml
Prepare ==
    /\ pc = "prepare" /\ \E o \in {Success(Nothing), Failed} : EndPhase(o)
    /\ UNCHANGED enable /\ NoFault

\* ProbePhase: the pwm_enable to restore; "unread" is its zero.
Probe ==
    /\ pc = "probe" /\ UNCHANGED enable
    /\ \/ EndPhase(Success(enable)) /\ NoFault
       \/ \E f \in Fans : EndPhase(Success([enable EXCEPT ![f] = "unread"])) /\ Fault

\* The artifact a later phase loads: nothing unless the phase succeeded.
Art(p) == IF args[p].status = "success" THEN args[p].art ELSE Nothing

Phantoms == {"phantom", "no_tach"}

\* Mutant of Restored: what the probe could not read is written back too.
RestoredBlind(f) == Art("probe")[f]

\* restoreEnable: what a fan's pwm_enable becomes when it is handed back.
Restored(f) == IF Art("probe")[f] # "unread" THEN Art("probe")[f] ELSE enable[f]

\* RPMDetectPhase: drives the fans without a tach and leaves them manual.
RPMDetect ==
    /\ pc = "rpm_detect"
    /\ \/ \E f \in left :
            IF f \in Paired \/ Art("polarity")[f] \in Phantoms
            THEN Visit(f, "skipped", left \ {f}) /\ UNCHANGED enable
            ELSE \E v \in {"found", "uncontrollable", "error"} :
                    Visit(f, v, left \ {f}) /\ enable' = [enable EXCEPT ![f] = "manual"]
       \/ left = {} /\ EndPhase(Success(work)) /\ UNCHANGED enable /\ NoFault

\* ProbeChannel: a fan without the probe's own tach is phantom, for want of
\* one ("no_tach"); the duty is put back and pwm_enable is not touched.
Verdicts(f) == IF f \notin Paired THEN {"no_tach"}
               ELSE {"normal", "inverted", "phantom"} \cup (IF cancelled THEN {"unknown"} ELSE {})

\* What PolarityPhase restores when it ends: the fans that are not normal.
Rejected(f) == work[f] \in Phantoms \cup {"inverted", "unknown"}

Polarity ==
    /\ pc = "polarity"
    /\ \/ \E f \in left : \E v \in Verdicts(f) :
            Visit(f, v, IF cancelled THEN {} ELSE left \ {f}) /\ UNCHANGED enable
       \/ /\ left = {} /\ EndPhase(Success(work)) /\ NoFault
          /\ enable' = [f \in Fans |->
                IF Rejected(f) THEN Restored(f) ELSE enable[f]]

\* CalibratePhase: sweepOne on every fan that is not phantom, in any order
\* (one goroutine per chip); it leaves the fan manual at duty 0.  After Abort
\* no further sweep starts and a running one ends aborted.
Calibrate ==
    /\ pc = "calibrate"
    /\ \/ \E f \in left :
            IF Art("polarity")[f] \in Phantoms
            THEN Visit(f, "skipped", left \ {f}) /\ UNCHANGED enable
            ELSE \E v \in IF cancelled THEN {"aborted"} ELSE {"good", "phantom", "mismatch"} :
                    Visit(f, v, left \ {f}) /\ enable' = [enable EXCEPT ![f] = "manual"]
       \/ /\ left = {} \/ cancelled
          /\ EndPhase(IF work = Nothing THEN Failed ELSE Success(work))
          /\ UNCHANGED enable /\ NoFault

\* buildConfig: which fans make it into the configuration.
Admitted(f) ==
    /\ Art("polarity")[f] \notin Phantoms
    /\ Art("calibrate")[f] \notin {"phantom", "mismatch"}
    /\ Art("rpm_detect")[f] # "uncontrollable"

\* Mutant of HandedBack: a monitor-only outcome restores only what it excludes.
HandedBackExcluded(f, controlled) == ~Admitted(f)

\* ApplyPhase restores what the configuration leaves out, and everything
\* when it controls nothing.
HandedBack(f, controlled) == ~controlled \/ ~Admitted(f)

\* The configuration is written first, so a failed write restores nothing.
Apply ==
    /\ pc = "apply"
    /\ \/ EndPhase(Failed) /\ UNCHANGED enable /\ Fault
       \/ \E sensor \in BOOLEAN :
            LET admitted == {f \in Fans : Admitted(f)}
                controlled == sensor /\ admitted # {}
            IN  /\ config' = [fans |-> admitted, controlled |-> controlled, exists |-> TRUE]
                /\ enable' = [f \in Fans |->
                      IF HandedBack(f, controlled) THEN Restored(f) ELSE enable[f]]
                /\ out' = Success(work) /\ pc' = "save" /\ NoFault
                /\ UNCHANGED <<disk, mem, args, marker, driving, ph, left, work, cancelled,
                               done, applied, starts, deaths, resets>>

-----------------------------------------------------------------------------
(* Completion, and what happens around a run *)

Controlled(c) == IF c.exists /\ c.controlled THEN c.fans ELSE {}
Driven(fans) == [f \in Fans |-> IF f \in fans THEN "manual" ELSE enable[f]]

\* onApplyPhaseSuccess: reload, "applied", the marker.  A reload that finds
\* no file keeps the controllers there are.
Complete ==
    /\ pc = "next" /\ ph > 6
    /\ driving' = IF config.exists THEN Controlled(config) ELSE driving
    /\ enable' = Driven(driving')
    /\ applied' = TRUE /\ marker' = TRUE /\ done' = TRUE /\ pc' = "idle"
    /\ UNCHANGED <<disk, mem, args, config, ph, left, work, out, cancelled, starts, deaths,
                   resets, faults>>

\* handleSetupCalibrateAbort: Manager.Abort cancels the run's context.
Abort ==
    /\ pc # "idle" /\ ~cancelled /\ cancelled' = TRUE
    /\ UNCHANGED <<machine, disk, mem, args, enable, pc, ph, left, work, out, done, applied,
                   starts, faults>>

\* handleSetupReset, at any time; a failed wipe is only logged.
Reset ==
    /\ resets < MaxResets /\ resets' = resets + 1
    /\ config' = NoConfig /\ marker' = FALSE
    /\ \/ disk' = Fresh /\ NoFault
       \/ UNCHANGED disk /\ Fault
    /\ UNCHANGED <<mem, args, enable, driving, pc, ph, left, work, out, cancelled, done,
                   applied, starts, deaths>>

\* The daemon is killed and started again, after a reboot or not.
DaemonDies ==
    /\ deaths < MaxDeaths /\ deaths' = deaths + 1
    /\ pc' = "idle" /\ done' = FALSE /\ applied' = FALSE /\ cancelled' = FALSE
    /\ driving' = Controlled(config)
    /\ \/ enable' = Driven(driving')
       \/ enable' = [f \in Fans |-> IF f \in driving' THEN "manual" ELSE "auto"]
    /\ mem' = Fresh /\ args' = Fresh /\ left' = {} /\ work' = Nothing /\ out' = Pending /\ ph' = 1
    /\ UNCHANGED <<disk, config, marker, starts, resets, faults>>

WizardStep == Load \/ Carry \/ Begin \/ Save \/ Prepare \/ Probe \/ RPMDetect \/ Polarity
              \/ Calibrate \/ Apply \/ Complete

WizardNext == Start \/ WizardStep \/ Abort \/ Reset \/ DaemonDies

-----------------------------------------------------------------------------
WizardTypeOK ==
    /\ \A p \in Names : disk[p].status \in {"pending", "success", "failed"}
    /\ pc \in Names \cup {"idle", "load", "next", "save"} /\ ph \in 1..7
    /\ driving \subseteq Fans /\ enable \in [Fans -> {"auto", "manual"}]
    /\ marker => applied \/ deaths > 0

\* When the wizard has applied a configuration, every fan is under a
\* controller or back with the firmware that had it before the first run,
\* however often the run was killed and resumed (RULE-SETUP-NO-ORPHANED-
\* CHANNELS; a fan whose pwm_enable the probe could not read is left out).
AppliedOrphansNobody ==
    applied /\ config.exists /\ resets = 0 =>
        \A f \in Fans : \/ f \in driving \/ enable[f] = "auto"
                        \/ disk["probe"].art[f] = "unread"

\* The checkpoint is a run of successes from the first phase on, followed by
\* at most one failure: a run killed, aborted, resumed or reset while it goes
\* on never leaves a later phase without the ones it builds on.
CheckpointIsPrefix ==
    \A i \in 1..6, j \in 1..6 :
        i < j /\ disk[Phases[j]].status # "pending" => disk[Phases[i]].status = "success"

\* What a killed, resumed, aborted or reset wizard keeps: no orphaned fan and
\* no phase without its predecessors.
WizardIsSafe == AppliedOrphansNobody /\ CheckpointIsPrefix

\* A run that was started ends.
RunEnds == pc # "idle" ~> pc = "idle"

\* A fan whose tach RPMDetectPhase found is not left out for want of a tach
\* (apply.go:508, "Prefer RPMDetectPhase's detected path").
FoundTachIsUsed ==
    pc = "apply" => \A f \in Fans :
        Art("rpm_detect")[f] = "found" => Art("polarity")[f] # "no_tach"
=============================================================================
