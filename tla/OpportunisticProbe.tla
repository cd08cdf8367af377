------------------------- MODULE OpportunisticProbe -------------------------
(***************************************************************************)
(* internal/probe/opportunistic: the scheduler that, when the host is      *)
(* idle, drives one fan at a time at a duty nobody has observed lately,    *)
(* watches the temperatures, puts the old duty back and logs a record.     *)
(*                                                                         *)
(* Beside it run the controllers, which write the same files and log       *)
(* records of their own, configuration changes, fans that go, the ageing   *)
(* of the records, and a shutdown.  The idle gate (internal/idle) is a     *)
(* choice: it opens or it does not.                                        *)
(***************************************************************************)
EXTENDS Integers, FiniteSets

CONSTANTS
    ProbeFans,
    Top,          \* 255
    Grid,         \* buildProbeGrid
    Floor,        \* fan -> its MinPWM
    Polarities,
    MaxAborts,    \* MaxAbortsPerBin
    Consecutive,  \* SlopeAbortConsecutive
    MaxDrives, MaxGone, MaxAges, MaxFlips, MaxErrors   \* bounds

ASSUME OppAssumption ==
    /\ IsFiniteSet(ProbeFans) /\ ProbeFans # {}
    /\ Top \in Nat /\ Grid \subseteq 0..Top /\ Floor \in [ProbeFans -> 0..Top]
    /\ MaxAborts \in Nat \ {0} /\ Consecutive \in Nat \ {0}

VARIABLES
    raw,        \* fan -> what its pwm file holds
    opol,       \* ControllableChannel.Polarity
    present,    \* its pwm file exists
    fresh, stale,   \* the newer and the older half of the window's records
    order,      \* order[f]: the rank of f by LastProbeAt, the oldest first
    spc,        \* "idle", "baseline", "gap", "hold", "restore", "record", "stopped"
    pick,       \* the fan and the duty of the probe
    baseline,   \* what readPWM returned
    steep,      \* SlopeAbortGate.consec
    aborted,    \* ENVELOPE_C_ABORT
    stopping,   \* the context is cancelled
    off,        \* NeverActivelyProbeAfterInstall, or a control with a ManualPWM
    drives, gone, ages, flips, ofaults

probe == <<order, pick, baseline, steep, aborted>>
world == <<off, opol, present>>
obounds == <<drives, gone, ages, flips, ofaults>>
oVars == <<raw, fresh, stale, spc, stopping, probe, world, obounds>>

Unseen == [f \in ProbeFans |-> [b \in Grid |-> [ok |-> FALSE, bad |-> 0]]]

\* polarity.WritePWM of a value, as the byte that reaches the file.
Adjusted(f, v) == IF opol[f] = "inverted" THEN Top - v ELSE v

FanCount == Cardinality(ProbeFans)

OppInit ==
    /\ raw = [f \in ProbeFans |-> Top] /\ opol \in [ProbeFans -> Polarities]
    /\ present = [f \in ProbeFans |-> TRUE]
    /\ fresh = Unseen /\ stale = Unseen
    /\ order \in [ProbeFans -> 1..FanCount] /\ \A f, g \in ProbeFans : order[f] = order[g] => f = g
    /\ spc = "idle" /\ pick = <<CHOOSE f \in ProbeFans : TRUE, Top>> /\ baseline = 0 /\ steep = 0
    /\ aborted = FALSE /\ stopping = FALSE /\ off = FALSE
    /\ drives = 0 /\ gone = 0 /\ ages = 0 /\ flips = 0 /\ ofaults = 0

-----------------------------------------------------------------------------
(* Detector.Gaps, and the scheduler's filter and choice. *)

Bad(f, b) == fresh[f][b].bad + stale[f][b].bad
Visited(f, b) == fresh[f][b].ok \/ stale[f][b].ok

Tired(f, b) == Bad(f, b) >= MaxAborts

\* Mutant of Gaps: an aborted bin stays a gap.
GapsUncapped(f) == {b \in Grid : b >= Floor[f] /\ ~Visited(f, b)}

Gaps(f) == {b \in Grid : b >= Floor[f] /\ ~Visited(f, b) /\ ~Tired(f, b)}

WithGaps == {f \in ProbeFans : Gaps(f) # {}}

\* pickChannel: the largest gap set, then the oldest probe.
Best == {f \in WithGaps : \A g \in WithGaps : Cardinality(Gaps(g)) <= Cardinality(Gaps(f))}
Winner == CHOOSE f \in Best : \A g \in Best : order[f] <= order[g]
Lowest(S) == CHOOSE b \in S : \A c \in S : b <= c

\* tick, up to FireOne: the gate opened.
SchedulerTick ==
    /\ spc = "idle" /\ ~stopping /\ ~off /\ WithGaps # {}
    /\ pick' = <<Winner, Lowest(Gaps(Winner))>>
    /\ spc' = "baseline" /\ steep' = 0 /\ aborted' = FALSE
    /\ UNCHANGED <<raw, fresh, stale, stopping, order, baseline, world, obounds>>

fan == pick[1]
duty == pick[2]

\* The rest of tick: SetLastProbe whatever FireOne returned.
Probed(f) ==
    order' = [g \in ProbeFans |-> IF g = f THEN FanCount
                                 ELSE IF order[g] > order[f] THEN order[g] - 1 ELSE order[g]]

-----------------------------------------------------------------------------
(* FireOne. *)

\* readPWM; a fan that is gone ends the probe before its deferred function.
ReadBaseline ==
    /\ spc = "baseline"
    /\ \/ present[fan] /\ spc' = "gap" /\ baseline' = raw[fan] /\ UNCHANGED order
       \/ ~present[fan] /\ spc' = (IF stopping THEN "stopped" ELSE "idle") /\ Probed(fan)
          /\ UNCHANGED baseline
    /\ UNCHANGED <<raw, fresh, stale, stopping, pick, steep, aborted, world, obounds>>

\* A write to the file: it lands, or it fails.
Lands(f, v) ==
    \/ present[f] /\ raw' = [raw EXCEPT ![f] = v] /\ UNCHANGED ofaults
    \/ ~present[f] /\ UNCHANGED <<raw, ofaults>>
    \/ ofaults < MaxErrors /\ ofaults' = ofaults + 1 /\ UNCHANGED raw

WriteGap ==
    /\ spc = "gap" /\ Lands(fan, Adjusted(fan, duty))
    /\ spc' = IF present[fan] /\ ofaults' = ofaults THEN "hold" ELSE "restore"
    /\ UNCHANGED <<fresh, stale, stopping, probe, world, drives, gone, ages, flips>>

Trips(s) == s >= Consecutive

\* One turn of the hold: a sample, or the context's end.  "cool" resets the
\* slope gate, "hot" is over the absolute ceiling.
Sample ==
    /\ spc = "hold"
    /\ \E t \in {"cool", "steep", "hot"} :
          /\ steep' = IF t = "steep" THEN steep + 1 ELSE 0
          /\ aborted' = (t = "hot" \/ Trips(steep'))
          /\ \/ spc' = "restore"
             \/ ~aborted' /\ t # "cool" /\ spc' = "hold"
    /\ UNCHANGED <<raw, fresh, stale, stopping, order, pick, baseline, world, drives, gone,
                   ages, flips, ofaults>>

Cancelled ==
    /\ spc = "hold" /\ stopping /\ spc' = "restore"
    /\ UNCHANGED <<raw, fresh, stale, stopping, probe, world, obounds>>

\* Mutant of Restore: only a probe that was not aborted restores.
RestoreUnlessAborted ==
    /\ spc = "restore" /\ spc' = "record"
    /\ IF aborted THEN UNCHANGED <<raw, ofaults>> ELSE Lands(fan, Adjusted(fan, baseline))
    /\ UNCHANGED <<fresh, stale, stopping, probe, world, drives, gone, ages, flips>>

\* The deferred function: polarity.WritePWM of the baseline ...
Restore ==
    /\ spc = "restore" /\ spc' = "record"
    /\ Lands(fan, Adjusted(fan, baseline))
    /\ UNCHANGED <<fresh, stale, stopping, probe, world, drives, gone, ages, flips>>

\* ... and one record, on every path, with the abort flag or without.  Aborts
\* past the cap are not told apart.
Record ==
    /\ spc = "record" /\ spc' = IF stopping THEN "stopped" ELSE "idle"
    /\ fresh' = IF aborted THEN [fresh EXCEPT ![fan][duty].bad = IF @ > MaxAborts THEN @ ELSE @ + 1]
                ELSE [fresh EXCEPT ![fan][duty].ok = TRUE]
    /\ Probed(fan) /\ baseline' = 0 /\ steep' = 0 /\ aborted' = FALSE
    /\ UNCHANGED <<raw, stale, stopping, pick, world, obounds>>

FireStep == ReadBaseline \/ WriteGap \/ Sample \/ Cancelled \/ Restore \/ Record

-----------------------------------------------------------------------------
(* The rest of the daemon and the host. *)

\* A controller writes its fan and logs a record of the duty.
ControllerDrives(f) ==
    /\ drives < MaxDrives /\ drives' = drives + 1 /\ present[f] /\ spc # "stopped"
    /\ \E d \in {0, Top} \cup Grid :
          /\ raw' = [raw EXCEPT ![f] = Adjusted(f, d)]
          /\ fresh' = IF d \in Grid THEN [fresh EXCEPT ![f][d].ok = TRUE] ELSE fresh
    /\ UNCHANGED <<stale, spc, stopping, probe, world, gone, ages, flips, ofaults>>

FanGoes(f) ==
    /\ gone < MaxGone /\ gone' = gone + 1 /\ present' = [present EXCEPT ![f] = ~@]
    /\ UNCHANGED <<raw, fresh, stale, spc, stopping, probe, off, opol, drives,
                   ages, flips, ofaults>>

\* Half of CooldownWindow passes.
HalfWindow ==
    /\ ages < MaxAges /\ ages' = ages + 1 /\ stale' = fresh /\ fresh' = Unseen
    /\ UNCHANGED <<raw, spc, stopping, probe, world, drives, gone, flips, ofaults>>

ConfigFlips ==
    /\ flips < MaxFlips /\ flips' = flips + 1
    /\ off' = ~off
    /\ UNCHANGED <<raw, fresh, stale, spc, stopping, probe, opol, present, drives, gone, ages,
                   ofaults>>

Shutdown ==
    /\ ~stopping /\ stopping' = TRUE
    /\ spc' = IF spc = "idle" THEN "stopped" ELSE spc
    /\ UNCHANGED <<raw, fresh, stale, probe, world, obounds>>

OppNext ==
    \/ SchedulerTick \/ FireStep \/ HalfWindow \/ ConfigFlips \/ Shutdown
    \/ \E f \in ProbeFans : ControllerDrives(f) \/ FanGoes(f)

-----------------------------------------------------------------------------
OppTypeOK ==
    /\ raw \in [ProbeFans -> 0..Top]
    /\ order \in [ProbeFans -> 1..FanCount] /\ \A f, g \in ProbeFans : order[f] = order[g] => f = g
    /\ spc \in {"idle", "baseline", "gap", "hold", "restore", "record", "stopped"}
    /\ spc \notin {"idle", "stopped"} => duty \in Grid /\ duty >= Floor[fan]

\* Every duty of every fan is observed or given up in the end, unless probing
\* is off: one that keeps aborting does not keep the scheduler from the others
\* (detector.go:84, MaxAbortsPerBin).  The gate must open again and again, and
\* every fan be there: one that has gone is picked for ever.
GapsGetVisited ==
    \A f \in ProbeFans :
        <>[](Gaps(f) = {} \/ off \/ spc = "stopped" \/ \E g \in ProbeFans : ~present[g])

\* A probe that has driven a fan ends by putting back what it read from the
\* file (RULE-OPP-PROBE-10, prober.go:224 "this is the controller's writeback
\* we want to preserve"), if the write does not fail.
ProbeRestores ==
    [][spc = "restore" /\ spc' = "record" /\ present[fan] /\ ofaults' = ofaults
        => raw'[fan] = baseline]_oVars
=============================================================================
