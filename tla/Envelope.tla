----------------------------- MODULE Envelope ------------------------------
(***************************************************************************)
(* internal/envelope: the background probe that steps one fan down a table *)
(* of duties (envelope C) and, when the machine gets hot or somebody else  *)
(* writes the register, up from its baseline (envelope D).  It saves its   *)
(* state after each step and resumes from it in the next process.          *)
(***************************************************************************)
EXTENDS Integers, Sequences

CONSTANTS Ladder,      \* PWMSteps, descending
          TopDuty,
          EnvPolarities,
          MaxLives,    \* bound: processes
          MaxHot,      \* bound: holds in which a thermal gate fires
          MaxContests, \* bound: writes of a controller or firmware
          MaxEnvErrors \* bound: step writes that fail, saves that are lost

ASSUME EnvelopeAssumption ==
    /\ TopDuty \in Nat /\ Ladder \in Seq(0 .. TopDuty)
    /\ EnvPolarities \subseteq {"normal", "inverted"}
    /\ {MaxLives, MaxHot, MaxContests, MaxEnvErrors} \subseteq Nat

VARIABLES
    reg,        \* the fan's duty register
    facing,     \* its polarity
    saved,      \* the channel's record in the KV store
    epc,        \* where the pass of this process stands
    note,       \* kv, the record in memory
    base,       \* runProbeC's baseline
    inC,        \* runProbeC is on the stack: its deferred write is to come
    rung,       \* index of the step in hand
    goal,       \* runProbeD's baseline
    found,      \* history: the duties the passes found before they wrote
    held,       \* history: the steps of C that were held to their end
    strayed,    \* history: C began in what D left, or a process died with its abort unsaved
    lives, hots, contests, errors

eVars == <<reg, facing, saved, epc, note, base, inC, rung, goal, found, held,
           strayed, lives, hots, contests, errors>>
pass == <<note, base, inC, rung, goal>>
counts == <<lives, hots, contests, errors>>
past == <<found, held, strayed>>

EnvDuty == 0 .. TopDuty
Rung == DOMAIN Ladder
States == {"none", "probing", "aborted_C", "complete_C", "probing_D", "complete_D"}
Blank == [state |-> "none", count |-> 0, base |-> 0]
Kv == [state : States, count : 0 .. Len(Ladder), base : EnvDuty]

EnvTypeOK ==
    /\ reg \in EnvDuty /\ facing \in EnvPolarities
    /\ saved \in Kv /\ note \in Kv /\ base \in EnvDuty /\ goal \in EnvDuty
    /\ epc \in {"off", "start", "step", "check", "hold", "ended", "aborting",
                "stepD", "holdD", "leaveD", "leaveC", "over"}
    /\ inC \in BOOLEAN /\ strayed \in BOOLEAN /\ rung \in 1 .. Len(Ladder) + 1
    /\ found \subseteq EnvDuty /\ held \subseteq Rung
    /\ lives \in 0 .. MaxLives /\ hots \in 0 .. MaxHot
    /\ contests \in 0 .. MaxContests /\ errors \in 0 .. MaxEnvErrors

EnvInit ==
    /\ reg \in EnvDuty /\ facing \in EnvPolarities
    /\ saved = Blank /\ note = Blank /\ epc = "off" /\ base = 0 /\ inC = FALSE
    /\ rung = 1 /\ goal = 0 /\ found = {} /\ held = {} /\ strayed = FALSE
    /\ lives = 0 /\ hots = 0 /\ contests = 0 /\ errors = 0

\* PersistChannelKV, whose error nobody looks at.
Saves(kv) ==
    /\ note' = kv
    /\ \/ saved' = kv /\ UNCHANGED errors
       \/ errors < MaxEnvErrors /\ errors' = errors + 1 /\ UNCHANGED saved

\* polarity.WritePWM; a write that fails ends the probe.
StepWrite(d, ok, failed) ==
    \/ /\ reg' = (IF facing = "inverted" THEN TopDuty - d ELSE d)
       /\ epc' = ok /\ UNCHANGED errors
    \/ /\ errors < MaxEnvErrors /\ errors' = errors + 1
       /\ epc' = failed /\ UNCHANGED reg

-----------------------------------------------------------------------------
\* A new process; the idle gate has cleared.
LaunchProbe ==
    /\ epc = "off" /\ lives < MaxLives /\ lives' = lives + 1
    /\ epc' = "start" /\ note' = Blank /\ inC' = FALSE /\ rung' = 1
    /\ UNCHANGED <<reg, facing, saved, base, goal, past, hots, contests, errors>>

\* probeOne, which skips a channel that is complete.
SkipComplete ==
    /\ epc = "start" /\ saved.state \in {"complete_C", "complete_D"}
    /\ epc' = "over"
    /\ UNCHANGED <<reg, facing, saved, pass, past, counts>>

\* Mutant of FirstStep: the step that was interrupted counts as done.
FirstStepAfter == IF saved.state = "probing" THEN saved.count + 2 ELSE 1

\* startStep, from one.
FirstStep == IF saved.state = "probing" THEN saved.count + 1 ELSE 1

\* runProbeC reads its baseline and saves the record it resumes.
BeginC ==
    /\ epc = "start" /\ saved.state \notin {"complete_C", "complete_D", "aborted_C"}
    /\ base' = reg /\ inC' = TRUE /\ rung' = FirstStep
    /\ found' = found \cup {reg}
    /\ strayed' = (strayed \/ saved.state = "probing_D")
    /\ Saves([saved EXCEPT !.state = "probing", !.base = reg])
    /\ epc' = "step"
    /\ UNCHANGED <<reg, facing, goal, held, lives, hots, contests>>

\* ... or cannot read it, and ends before its deferred write is set.
NoBaseline ==
    /\ epc = "start" /\ saved.state \notin {"complete_C", "complete_D", "aborted_C"}
    /\ errors < MaxEnvErrors /\ errors' = errors + 1 /\ epc' = "over"
    /\ UNCHANGED <<reg, facing, saved, pass, past, lives, hots, contests>>

StepsAbove(d) == {i \in Rung : Ladder[i] > d}

\* runProbeD, for a baseline and from runProbeC or from the saved state: it
\* goes through the table's order.
EntersD(d) ==
    /\ goal' = d /\ rung' = 1
    /\ IF StepsAbove(d) = {}
         THEN epc' = (IF inC THEN "leaveC" ELSE "over") /\ UNCHANGED <<saved, note, errors>>
         ELSE epc' = "stepD" /\ Saves([state |-> "probing_D", count |-> 0, base |-> d])

ResumeD ==
    /\ epc = "start" /\ saved.state = "aborted_C"
    /\ EntersD(saved.base) /\ found' = found \cup {reg}
    /\ UNCHANGED <<reg, facing, base, inC, held, strayed, lives, hots, contests>>

WriteC ==
    /\ epc = "step" /\ rung <= Len(Ladder)
    /\ StepWrite(Ladder[rung], "check", "leaveC")
    /\ UNCHANGED <<facing, saved, pass, past, lives, hots, contests>>

\* The read-back, of the register as it is: another writer's value, or any
\* value of an inverted fan that is not its own mirror image, aborts; a
\* register that cannot be read does not.
ReadBackC ==
    /\ epc = "check"
    /\ \/ reg = Ladder[rung] /\ epc' = "hold" /\ UNCHANGED <<saved, note, errors>>
       \/ /\ reg # Ladder[rung] /\ epc' = "aborting"
          /\ Saves([note EXCEPT !.state = "aborted_C"])
       \/ /\ errors < MaxEnvErrors /\ errors' = errors + 1
          /\ epc' = "hold" /\ UNCHANGED <<saved, note>>
    /\ UNCHANGED <<reg, facing, base, inC, rung, goal, past, lives, hots, contests>>

\* The hold ends in time, or a thermal gate fires; the step counts either way.
HoldC(hot) ==
    /\ epc = "hold" /\ (hot => hots < MaxHot)
    /\ hots' = hots + (IF hot THEN 1 ELSE 0)
    /\ Saves([note EXCEPT !.count = rung])
    /\ held' = (IF hot THEN held ELSE held \cup {rung})
    /\ epc' = (IF hot THEN "ended" ELSE "step")
    /\ rung' = (IF hot THEN rung ELSE rung + 1)
    /\ UNCHANGED <<reg, facing, base, inC, goal, found, strayed, lives, contests>>

\* ... and the abort is saved after it.
AbortC ==
    /\ epc = "ended" /\ epc' = "aborting" /\ Saves([note EXCEPT !.state = "aborted_C"])
    /\ UNCHANGED <<reg, facing, base, inC, rung, goal, past, lives, hots, contests>>

FallBack ==
    /\ epc = "aborting" /\ EntersD(base)
    /\ UNCHANGED <<reg, facing, base, inC, past, lives, hots, contests>>

CompleteC ==
    /\ epc = "step" /\ rung > Len(Ladder)
    /\ Saves([note EXCEPT !.state = "complete_C"]) /\ epc' = "leaveC"
    /\ UNCHANGED <<reg, facing, base, inC, rung, goal, past, lives, hots, contests>>

SkipD ==
    /\ epc = "stepD" /\ rung \in Rung /\ Ladder[rung] <= goal /\ rung' = rung + 1
    /\ UNCHANGED <<reg, facing, saved, epc, note, base, inC, goal, past, counts>>

WriteD ==
    /\ epc = "stepD" /\ rung \in Rung /\ Ladder[rung] > goal
    /\ StepWrite(Ladder[rung], "holdD", "leaveD")
    /\ UNCHANGED <<facing, saved, pass, past, lives, hots, contests>>

HoldD ==
    /\ epc = "holdD" /\ epc' = "stepD" /\ rung' = rung + 1
    /\ Saves([note EXCEPT !.count = @ + 1])
    /\ UNCHANGED <<reg, facing, base, inC, goal, past, lives, hots, contests>>

CompleteD ==
    /\ epc = "stepD" /\ rung > Len(Ladder)
    /\ Saves([note EXCEPT !.state = "complete_D"]) /\ epc' = "leaveD"
    /\ UNCHANGED <<reg, facing, base, inC, rung, goal, past, lives, hots, contests>>

\* The shutdown's cancel, at the next select.
Cancelled ==
    /\ epc \in {"step", "hold", "stepD", "holdD"}
    /\ epc' = (IF epc \in {"step", "hold"} THEN "leaveC" ELSE "leaveD")
    /\ UNCHANGED <<reg, facing, saved, pass, past, counts>>

\* The deferred writes of the baseline, D's and then C's: raw, as it was read.
LeaveD ==
    /\ epc = "leaveD" /\ reg' = goal /\ epc' = (IF inC THEN "leaveC" ELSE "over")
    /\ UNCHANGED <<facing, saved, pass, past, counts>>

LeaveC ==
    /\ epc = "leaveC" /\ reg' = base /\ inC' = FALSE /\ epc' = "over"
    /\ UNCHANGED <<facing, saved, note, base, rung, goal, past, counts>>

\* A controller's tick or the firmware.
Contest ==
    /\ epc \notin {"off", "over"} /\ contests < MaxContests /\ contests' = contests + 1
    /\ reg' \in EnvDuty \ {reg}
    /\ UNCHANGED <<facing, saved, epc, pass, past, lives, hots, errors>>

\* The process ends: killed, or without waiting for the goroutine it has
\* cancelled.  The register keeps its value.
EndOfLife ==
    /\ epc # "off" /\ epc' = "off"
    /\ strayed' = \/ strayed \/ epc = "ended"
                  \/ note.state \in {"aborted_C", "probing_D", "complete_D"} /\ saved.state = "probing"
    /\ UNCHANGED <<reg, facing, saved, pass, found, held, counts>>

EnvStep ==
    \/ SkipComplete \/ BeginC \/ NoBaseline \/ ResumeD \/ WriteC \/ ReadBackC
    \/ (\E hot \in BOOLEAN : HoldC(hot)) \/ AbortC \/ FallBack \/ CompleteC
    \/ SkipD \/ WriteD \/ HoldD \/ CompleteD \/ LeaveD \/ LeaveC

EnvNext == LaunchProbe \/ EnvStep \/ Cancelled \/ Contest \/ EndOfLife

-----------------------------------------------------------------------------
\* A pass that ends in its process leaves the register as a pass found it:
\* this one, or an interrupted one before it whose baseline it resumed,
\* whichever way it ends (RULE-ENVELOPE-02).  A channel that is skipped keeps
\* what the process before left.
EnvelopeRestores == epc = "over" /\ note # Blank => reg \in found

\* A record that says complete_C stands for a ladder whose every step was held
\* to its end, over crashes, lost saves and resumes (RULE-ENVELOPE-09) -- unless
\* a process died inside D, whose count of steps the next C takes for its own,
\* or between the two saves of an abort, or with the second of them lost.
CompleteIsSwept == saved.state = "complete_C" /\ ~strayed => held = Rung

EnvelopeIsSound == EnvelopeRestores /\ CompleteIsSwept
=============================================================================
