------------------------------ MODULE LiveProofs ------------------------------
(***************************************************************************)
(* What holds of the setup wizard and of the channel that follows a curve of *)
(* its own, for any number of fans, curves and anchors.                    *)
(***************************************************************************)
EXTENDS MCLive, FiniteSetTheorems, WellFoundedInduction, TLAPS

(* The channel that follows a curve.                                       *)

\* The anchors written so far are those of the curve being written.
StagedSoFar == at # 0 => writing \in Curves /\ \A i \in 1 .. Anchors : i < at => staged[i] = writing

\* The inductive invariant of CurveSink: what is staged is of one curve.
CurveInv ==
    /\ bound \in Curves \cup {NoCurve} /\ at \in 0 .. Anchors + 1 /\ staged \in AnchorSets
    /\ StagedSoFar /\ ObeysOneCurve

\* A whole curve is a set of anchors the device can hold.
LEMMA WholeIsSet ==
    ASSUME NEW c \in Curves \cup {Factory, Theirs}
    PROVE  Whole(c) \in AnchorSets
BY DEF Whole, AnchorSets

\* It holds when the channel is found.
LEMMA CurveInvInit == CurveInit => CurveInv
<1>1. CurveInit => staged \in AnchorSets
  BY WholeIsSet DEF CurveInit
<1>2. CurveInit => ObeysOneCurve
  BY DEF CurveInit, ObeysOneCurve
<1>3. CurveInit => bound \in Curves \cup {NoCurve} /\ at = 0
  BY DEF CurveInit
<1> QED BY <1>1, <1>2, <1>3, CurveAssumption DEF CurveInv, StagedSoFar

\* Every step of the sink, of the operator and of the device keeps it.
LEMMA CurveInvStep == CurveInv /\ [CurveNext]_cVars => CurveInv'
<1> SUFFICES ASSUME CurveInv, [CurveNext]_cVars PROVE CurveInv'
  OBVIOUS
<1> USE CurveAssumption DEF CurveInv, StagedSoFar, ObeysOneCurve
<1>1. CASE UNCHANGED <<bound, writing, at, staged, obeys>>
  BY <1>1
<1>2. CASE SinkStarts
  BY <1>2 DEF SinkStarts, Due, live, device
<1>3. CASE WriteAnchor
  BY <1>3 DEF WriteAnchor, AnchorSets, live
<1>4. CASE Commit
  <2>1. staged = Whole(writing)
    BY <1>4 DEF Commit, AnchorSets, Whole
  <2> QED BY <1>4, <2>1 DEF Commit, live
<1>5. CASE CommandFails
  BY <1>5 DEF CommandFails, Refused, live, device
<1>6. CASE SinkStops
  BY <1>6 DEF SinkStops, live
<1>7. CASE SinkDies
  BY <1>7 DEF SinkDies, live, device
<1>8. ASSUME NEW c \in Curves \cup {NoCurve}, NEW s \in BOOLEAN,
             EditCurve(c) \/ ReloadFile(c, s)
      PROVE  CurveInv'
  BY <1>8 DEF EditCurve, ReloadFile, device
<1>9. SinkShadows \/ SinkSpawns \/ UNCHANGED cVars
      => UNCHANGED <<bound, writing, at, staged, obeys>>
  BY DEF SinkShadows, SinkSpawns, cVars, live, device
<1> QED BY <1>1, <1>2, <1>3, <1>4, <1>5, <1>6, <1>7, <1>8, <1>9 DEF CurveNext, SinkStep

\* Through reloads, refused commands, restarts and deaths between two anchors,
\* the device obeys one whole curve: the one it was left with, or one that was
\* committed.
THEOREM CurveIsOne == CurveSpec => []ObeysOneCurve
<1>1. CurveInv => ObeysOneCurve
  BY DEF CurveInv
<1> QED BY <1>1, CurveInvInit, CurveInvStep, PTL DEF CurveSpec

\* What a running controller remembers as programmed is what the firmware follows,
\* except where shadow mode recorded it.
MemoryIsTrue == sink = "running" /\ programmed /\ ~masked => obeys = Whole(lastPoints)

\* A command that failed, a stop or a death ends the memory with the curve.
LEMMA MemoryStep == CurveInv /\ MemoryIsTrue /\ [CurveNext]_cVars => MemoryIsTrue'
<1> SUFFICES ASSUME CurveInv, MemoryIsTrue, [CurveNext]_cVars PROVE MemoryIsTrue'
  OBVIOUS
<1>0. ASSUME UNCHANGED <<sink, programmed, masked, lastPoints, obeys>> PROVE MemoryIsTrue'
  BY <1>0 DEF MemoryIsTrue, Whole
<1>1. CASE SinkShadows
  BY <1>1 DEF SinkShadows, MemoryIsTrue
<1>2. CASE Commit
  <2>1. staged = Whole(writing)
    BY <1>2, CurveAssumption DEF Commit, CurveInv, StagedSoFar, AnchorSets, Whole
  <2> QED BY <1>2, <2>1 DEF Commit, MemoryIsTrue, Whole
<1>3. CASE CommandFails \/ SinkSpawns
  BY <1>3 DEF CommandFails, Refused, SinkSpawns, MemoryIsTrue
<1>4. CASE SinkStops \/ SinkDies
  BY <1>4 DEF SinkStops, SinkDies, MemoryIsTrue
<1>5. SinkStarts \/ WriteAnchor => UNCHANGED <<sink, programmed, masked, lastPoints, obeys>>
  BY DEF SinkStarts, WriteAnchor, memory, device
<1>6. ASSUME NEW c \in Curves \cup {NoCurve}, NEW s \in BOOLEAN
      PROVE  EditCurve(c) \/ ReloadFile(c, s) => UNCHANGED <<sink, programmed, masked, lastPoints, obeys>>
  BY DEF EditCurve, ReloadFile, memory, device
<1>7. UNCHANGED cVars => UNCHANGED <<sink, programmed, masked, lastPoints, obeys>>
  BY DEF cVars, memory, device
<1> QED BY <1>0, <1>1, <1>2, <1>3, <1>4, <1>5, <1>6, <1>7 DEF CurveNext, SinkStep

\* A controller with nothing left to program: the safety half of SinkConverges.
SinkRestsOnItsCurve ==
    sink = "running" /\ at = 0 /\ bound # NoCurve /\ ~Due /\ ~masked => obeys = Whole(bound)

\* A controller of a curve-following channel rests only when the firmware follows
\* the curve of the live configuration, whichever commands failed, whatever was
\* edited while it wrote, and however it was stopped, killed and started again
\* (internal/controller/curvesink.go); a curve recorded in shadow mode is left out.
THEOREM SinkRests == LiveParts => []SinkRestsOnItsCurve
<1>1. LiveInit => CurveInv /\ MemoryIsTrue
  BY CurveInvInit DEF LiveInit, CurveInit, MemoryIsTrue
<1>2. [LiveNext]_liveVars => [CurveNext]_cVars
  BY DEF LiveNext, OnlyWizard, OnlyProber, OnlySink, liveVars
<1>3. CurveInv /\ MemoryIsTrue /\ [LiveNext]_liveVars => (CurveInv /\ MemoryIsTrue)'
  BY <1>2, CurveInvStep, MemoryStep
<1>4. MemoryIsTrue => SinkRestsOnItsCurve
  BY DEF MemoryIsTrue, SinkRestsOnItsCurve, Due
<1> QED BY <1>1, <1>3, <1>4, PTL DEF LiveParts

\* The flags and the points of the curve-following channel have their types; those
\* of what it writes are a part of CurveInv.
CurveFlags ==
    /\ shadow \in BOOLEAN /\ session \in BOOLEAN /\ programmed \in BOOLEAN /\ masked \in BOOLEAN
    /\ sink \in {"running", "drained", "dead"}
CurvePoints ==
    /\ bound \in Curves \cup {NoCurve}
    /\ lastPoints \in Curves \cup {NoCurve} /\ writing \in Curves \cup {NoCurve}

\* They have them at the start.
LEMMA CurveTypesInit == CurveInit => CurveFlags /\ CurvePoints
<1>1. CurveInit => CurveFlags
  BY Zenon DEF CurveInit, CurveFlags
<1> QED BY <1>1 DEF CurveInit, CurvePoints

\* They keep them.
LEMMA CurveTypesStep ==
    ASSUME CurveFlags, CurvePoints, [CurveNext]_cVars
    PROVE  CurveFlags' /\ CurvePoints'
<1>1. CASE SinkShadows
  <2>1. CurveFlags'
    BY <1>1, Zenon DEF SinkShadows, CurveFlags, live
  <2> QED BY <1>1, <2>1 DEF SinkShadows, Due, CurvePoints, live
<1>2. CASE SinkStarts
  BY <1>2, Zenon DEF SinkStarts, Due, live, memory, CurveFlags, CurvePoints
<1>3. CASE WriteAnchor
  BY <1>3 DEF WriteAnchor, live, memory, CurveFlags, CurvePoints
<1>4. CASE Commit
  <2>1. CurveFlags'
    BY <1>4, Zenon DEF Commit, CurveFlags, live
  <2> QED BY <1>4, <2>1 DEF Commit, CurvePoints, live
<1>5. CASE CommandFails
  <2>1. CurveFlags'
    BY <1>5, Zenon DEF CommandFails, Refused, CurveFlags, live
  <2> QED BY <1>5, <2>1 DEF CommandFails, Refused, CurvePoints, live
<1>6. CASE SinkStops
  BY <1>6 DEF SinkStops, live, memory, CurveFlags, CurvePoints
<1>7. CASE SinkDies
  BY <1>7 DEF SinkDies, live, memory, CurveFlags, CurvePoints
<1>8. CASE SinkSpawns
  <2>1. CurveFlags'
    BY <1>8, Zenon DEF SinkSpawns, CurveFlags
  <2> QED BY <1>8, <2>1 DEF SinkSpawns, CurvePoints
<1>9. ASSUME NEW c \in Curves \cup {NoCurve}, NEW s \in BOOLEAN,
             EditCurve(c) \/ ReloadFile(c, s)
      PROVE  CurveFlags' /\ CurvePoints'
  BY <1>9 DEF EditCurve, ReloadFile, memory, CurveFlags, CurvePoints
<1>10. CASE UNCHANGED cVars
  BY <1>10 DEF cVars, live, memory, CurveFlags, CurvePoints
<1> QED BY <1>1, <1>2, <1>3, <1>4, <1>5, <1>6, <1>7, <1>8, <1>9, <1>10 DEF CurveNext, SinkStep

\* With them and CurveInv, all types are right.
LEMMA CurveTypesHold == CurveInv /\ CurveFlags /\ CurvePoints => CurveTypeOK
<1>1. ASSUME ObeysOneCurve PROVE obeys \in AnchorSets
  BY <1>1, WholeIsSet DEF ObeysOneCurve
<1> QED BY <1>1 DEF CurveInv, CurveFlags, CurvePoints, CurveTypeOK

-----------------------------------------------------------------------------
(* The setup wizard.                                                       *)

\* The wizard without fairness.
WizardSpec == WizardInit /\ [][WizardNext]_wizVars

\* What a phase can have come to.
Statuses == {"pending", "success", "failed"}

\* A checkpoint: what is recorded, of every phase.
IsRecord(s) == s = [p \in Names |-> s[p]] /\ \A p \in Names : s[p].status \in Statuses

\* Phase i has succeeded.
Succeeded(s, i) == s[Phases[i]].status = "success"

\* The phases that have been tried follow phases that have succeeded.
IsInOrder(s) == \A i \in 1..6, j \in 1..6 :
                  i < j /\ s[Phases[j]].status # "pending" => Succeeded(s, i)

\* The checkpoint part of the inductive invariant: the file and the copy of the
\* run are in order, and the run is at the first phase that has not succeeded.
CheckpointInv ==
    /\ IsRecord(disk) /\ IsRecord(mem) /\ IsInOrder(disk) /\ IsInOrder(mem)
    /\ ph \in 1..7
    /\ pc \in {"next", "save"} \cup Names => \A i \in 1..6 : i < ph => Succeeded(mem, i)
    /\ pc \in {"save"} \cup Names => ph \in 1..6 /\ ~Succeeded(mem, ph)
    /\ pc = "save" => out.status \in {"success", "failed"}
    /\ pc \in Names => pc = Phases[ph]

\* The phases are six, and none is a place of the orchestrator.
LEMMA PhasesDiffer ==
    /\ \A i \in 1..6 : Phases[i] \in Names
    /\ \A i \in 1..6, j \in 1..6 : Phases[i] = Phases[j] => i = j
    /\ \A p \in Names : p \notin {"next", "save", "load", "idle"}
    /\ \A p \in Names : \E i \in 1..6 : p = Phases[i]
<1>1. /\ Phases[1] = "prepare" /\ Phases[2] = "probe" /\ Phases[3] = "rpm_detect"
      /\ Phases[4] = "polarity" /\ Phases[5] = "calibrate" /\ Phases[6] = "apply"
  BY DEF Phases
<1>2. \A i \in 1..6 : i = 1 \/ i = 2 \/ i = 3 \/ i = 4 \/ i = 5 \/ i = 6
  OBVIOUS
<1>3. \A i \in 1..6 : Phases[i] \in Names
  BY DEF Names
<1>4. \A i \in 1..6, j \in 1..6 : Phases[i] = Phases[j] => i = j
  BY <1>1, <1>2
<1>5. \A p \in Names : p \notin {"next", "save", "load", "idle"}
  BY <1>1, <1>2 DEF Names
<1> QED BY <1>3, <1>4, <1>5 DEF Names

\* The phases in their order.
LEMMA PhaseNames ==
    /\ "prepare" = Phases[1] /\ "probe" = Phases[2] /\ "rpm_detect" = Phases[3]
    /\ "polarity" = Phases[4] /\ "calibrate" = Phases[5] /\ "apply" = Phases[6]
  BY DEF Phases

\* Saving the outcome of the first phase that has not succeeded leaves them in order.
LEMMA SavedIsInOrder ==
    ASSUME NEW s, NEW i \in 1..6, NEW o, IsRecord(s), IsInOrder(s), o.status \in Statuses,
           \A k \in 1..6 : k < i => Succeeded(s, k), ~Succeeded(s, i)
    PROVE  /\ IsRecord([s EXCEPT ![Phases[i]] = o]) /\ IsInOrder([s EXCEPT ![Phases[i]] = o])
           /\ \A k \in 1..6 : k < i => Succeeded([s EXCEPT ![Phases[i]] = o], k)
           /\ Succeeded([s EXCEPT ![Phases[i]] = o], i) <=> o.status = "success"
<1> DEFINE t == [s EXCEPT ![Phases[i]] = o]
<1>1. t = [p \in Names |-> IF p = Phases[i] THEN o ELSE s[p]]
  BY PhasesDiffer DEF IsRecord
<1>2. \A k \in 1..6 : t[Phases[k]] = IF k = i THEN o ELSE s[Phases[k]]
  BY <1>1, PhasesDiffer
<1>3. IsRecord(t)
  BY <1>1 DEF IsRecord
<1>4. \A k \in 1..6 : i < k => s[Phases[k]].status = "pending"
  BY DEF IsInOrder, Succeeded
<1> HIDE DEF t
<1>5. IsInOrder(t)
  BY <1>2, <1>4 DEF IsInOrder, Succeeded
<1>6. \A k \in 1..6 : k < i => Succeeded(t, k)
  BY <1>2 DEF Succeeded
<1>7. Succeeded(t, i) <=> o.status = "success"
  BY <1>2 DEF Succeeded
<1> QED BY <1>3, <1>5, <1>6, <1>7 DEF t

\* A fresh checkpoint is one.
LEMMA FreshIsInOrder == IsRecord(Fresh) /\ IsInOrder(Fresh)
  BY PhasesDiffer DEF Fresh, Pending, IsRecord, IsInOrder, Statuses

\* It holds at the start.
LEMMA CheckpointInit == WizardInit => CheckpointInv
  BY FreshIsInOrder, PhasesDiffer DEF WizardInit, CheckpointInv

\* Every step keeps it, resets included.
LEMMA CheckpointStep == CheckpointInv /\ [WizardNext]_wizVars => CheckpointInv'
<1> SUFFICES ASSUME CheckpointInv, [WizardNext]_wizVars PROVE CheckpointInv'
  OBVIOUS
<1> USE DEF machine
<1>1. CASE Start
  BY <1>1, PhasesDiffer DEF Start, CheckpointInv
<1>2. CASE Load
  BY <1>2, PhasesDiffer DEF Load, CheckpointInv
<1>3. CASE Carry
  <2>1. /\ ph \in 1..6 /\ Succeeded(mem, ph) /\ ph' = ph + 1 /\ pc = "next"
        /\ UNCHANGED <<disk, mem, pc, out>>
    BY <1>3 DEF Carry, CarriedForward, CheckpointInv, Succeeded
  <2>2. \A i \in 1..6 : i < ph + 1 => Succeeded(mem, i)
    BY <2>1 DEF CheckpointInv
  <2> QED BY <2>1, <2>2, PhasesDiffer DEF CheckpointInv, Succeeded
<1>4. CASE Begin
  <2>1. /\ ph \in 1..6 /\ ~Succeeded(mem, ph) /\ pc = "next"
        /\ UNCHANGED <<disk, mem, ph>>
    BY <1>4 DEF Begin, CarriedForward, CheckpointInv, Succeeded
  <2>2. (pc' = "save" /\ out'.status = "failed") \/ pc' = Phases[ph]
    BY <1>4 DEF Begin, Failed
  <2> QED BY <2>1, <2>2, PhasesDiffer DEF CheckpointInv, Succeeded
<1>5. CASE Save
  <2>1. /\ pc = "save" /\ mem' = SavedState /\ disk' \in {SavedState, disk}
        /\ ph \in 1..6 /\ ~Succeeded(mem, ph) /\ out.status \in {"success", "failed"}
        /\ \A i \in 1..6 : i < ph => Succeeded(mem, i)
    BY <1>5, PhasesDiffer DEF Save, CheckpointInv
  <2>2. \/ pc' = "idle" /\ ph' = ph
        \/ pc' = "next" /\ out.status = "success" /\ ph' = ph + 1
    BY <1>5, <2>1 DEF Save, Ends
  <2>3. /\ IsRecord(SavedState) /\ IsInOrder(SavedState)
        /\ \A i \in 1..6 : i < ph => Succeeded(SavedState, i)
        /\ out.status = "success" => Succeeded(SavedState, ph)
    BY <2>1, SavedIsInOrder DEF SavedState, CheckpointInv, Statuses
  <2>4. out.status = "success" => \A i \in 1..6 : i < ph + 1 => Succeeded(SavedState, i)
    BY <2>3, <2>1
  <2> HIDE DEF SavedState
  <2>5. IsRecord(disk)' /\ IsRecord(mem)' /\ IsInOrder(disk)' /\ IsInOrder(mem)'
    BY <2>1, <2>3 DEF CheckpointInv
  <2>6. pc' = "next" => \A i \in 1..6 : i < ph' => Succeeded(mem', i)
    BY <2>1, <2>2, <2>4
  <2> QED BY <2>1, <2>2, <2>5, <2>6, PhasesDiffer DEF CheckpointInv
<1>6. CASE Prepare \/ Probe \/ RPMDetect \/ Polarity \/ Calibrate \/ Apply
  <2>1. /\ UNCHANGED <<disk, mem, ph>> /\ pc \in Names
        /\ \/ pc' = pc
           \/ pc' = "save" /\ out'.status \in {"success", "failed"}
    BY <1>6, PhasesDiffer, PhaseNames
       DEF Prepare, Probe, RPMDetect, Polarity, Calibrate, Apply, EndPhase, Visit, Success, Failed
  <2> QED BY <2>1, PhasesDiffer DEF CheckpointInv, Succeeded
<1>7. CASE Complete
  BY <1>7, PhasesDiffer DEF Complete, CheckpointInv
<1>8. CASE Abort
  BY <1>8, PhasesDiffer DEF Abort, CheckpointInv, Succeeded
<1>9. CASE Reset
  BY <1>9, PhasesDiffer, FreshIsInOrder DEF Reset, CheckpointInv, Succeeded
<1>10. CASE DaemonDies
  BY <1>10, PhasesDiffer, FreshIsInOrder DEF DaemonDies, CheckpointInv
<1>11. CASE UNCHANGED wizVars
  BY <1>11, PhasesDiffer DEF wizVars, CheckpointInv, Succeeded
<1> QED BY <1>1, <1>2, <1>3, <1>4, <1>5, <1>6, <1>7, <1>8, <1>9, <1>10, <1>11
        DEF WizardNext, WizardStep

\* Every fan is under the configuration, with the firmware, or was unreadable.
HandedOver ==
    /\ config.exists
    /\ \A f \in Fans : \/ f \in Controlled(config) \/ enable[f] = "auto"
                       \/ disk["probe"].art[f] = "unread"

\* No fan has been touched, and there is no configuration.
IsUntouched == enable = [f \in Fans |-> "auto"] /\ ~config.exists

\* The probe found every fan under the firmware, or could not read it.
IsBaseline(art) == \A f \in Fans : art[f] \in {"auto", "unread"}

\* In a run that nobody reset: its copy is the file's, ...
RunIsCurrent ==
    /\ pc \in {"next", "save"} \cup Names => mem = disk
    /\ pc \in Names /\ ph > 2 => args["probe"] = disk["probe"] /\ Succeeded(disk, 2)
    /\ pc = "save" /\ ph > 2 /\ out.status = "success" => Succeeded(disk, 2)

\* ... nobody touches a fan before the probe's artifact is saved, ...
ProbeComesFirst ==
    /\ enable = [f \in Fans |-> enable[f]]
    /\ Succeeded(disk, 2) => IsBaseline(disk["probe"].art)
    /\ ~Succeeded(disk, 2) => IsUntouched
    /\ pc = "save" /\ ph = 2 /\ out.status = "success" => IsBaseline(out.art)

\* ... and nobody after the apply phase.
ApplyComesLast ==
    /\ pc = "save" /\ ph = 6 /\ out.status = "success" => HandedOver
    /\ Succeeded(disk, 6) => HandedOver
    /\ applied => /\ done /\ pc = "idle" /\ Succeeded(disk, 6)
                  /\ config.exists => driving = Controlled(config)

\* The hand-over part of the inductive invariant: what holds until the operator
\* resets a wizard that runs.
HandoverInv == RunIsCurrent /\ ProbeComesFirst /\ ApplyComesLast

\* The inductive invariant of SetupWizard.
WizardInv == CheckpointInv /\ resets \in Nat /\ (resets = 0 => HandoverInv)

\* The hand-over part holds at the start.
LEMMA HandoverInit == WizardInit => HandoverInv
  BY PhasesDiffer, PhaseNames
  DEF WizardInit, HandoverInv, RunIsCurrent, ProbeComesFirst, ApplyComesLast,
      Succeeded, Fresh, Pending, IsUntouched, NoConfig

\* Saving a phase keeps it, whether or not the file could be written.
LEMMA SaveHandsOver == CheckpointInv /\ HandoverInv /\ Save /\ UNCHANGED resets => HandoverInv'
<1> SUFFICES ASSUME CheckpointInv, HandoverInv, Save PROVE HandoverInv'
  OBVIOUS
<1> USE DEF machine
<1>1. /\ pc = "save" /\ mem' = SavedState /\ disk' \in {SavedState, disk}
      /\ ph \in 1..6 /\ ~Succeeded(disk, ph) /\ out.status \in {"success", "failed"}
      /\ mem = disk /\ ~applied
      /\ UNCHANGED <<enable, config, driving, applied>>
  BY PhasesDiffer DEF Save, CheckpointInv, HandoverInv, RunIsCurrent, ApplyComesLast
<1>2. pc' = "idle" \/ (pc' = "next" /\ disk' = SavedState)
  BY <1>1 DEF Save, Ends
<1>3. \A i \in 1..6 : SavedState[Phases[i]] = IF i = ph THEN out ELSE disk[Phases[i]]
  BY <1>1, PhasesDiffer DEF SavedState, CheckpointInv, IsRecord
<1> HIDE DEF SavedState
<1>4. RunIsCurrent'
  BY <1>1, <1>2, PhasesDiffer DEF RunIsCurrent
<1>5. pc' # "save" /\ pc' \notin Names
  BY <1>2, PhasesDiffer
<1>6. Phases[2] = "probe" /\ Phases[6] = "apply" /\ 2 \in 1..6 /\ 6 \in 1..6
  BY PhaseNames
<1>7. ProbeComesFirst'
  <2>1. CASE ph = 2
    <3>1. ~Succeeded(disk, 2) /\ IsUntouched
      BY <2>1, <1>1 DEF HandoverInv, ProbeComesFirst
    <3>2. disk'["probe"] \in {out, disk["probe"]}
      BY <2>1, <1>1, <1>3, <1>6
    <3>3. Succeeded(disk, 2)' => disk'["probe"] = out /\ out.status = "success"
      BY <3>1, <3>2, <1>6 DEF Succeeded
    <3> QED BY <3>1, <3>3, <2>1, <1>1, <1>5, <1>6
            DEF HandoverInv, ProbeComesFirst, IsUntouched, IsBaseline
  <2>2. CASE ph # 2
    <3>1. disk'["probe"] = disk["probe"]
      BY <2>2, <1>1, <1>3, <1>6
    <3> QED BY <3>1, <1>1, <1>5, <1>6 DEF HandoverInv, ProbeComesFirst, IsUntouched, Succeeded
  <2> QED BY <2>1, <2>2
<1>8. ApplyComesLast'
  <2>1. SUFFICES ASSUME Succeeded(disk, 6)' PROVE HandedOver'
    BY <1>1, <1>5 DEF ApplyComesLast
  <2>2. CASE Succeeded(disk, 6)
    <3>1. ph # 6
      BY <2>2, <1>1
    <3>2. HandedOver /\ Succeeded(disk, 2)
      BY <2>2, <1>6 DEF HandoverInv, ApplyComesLast, CheckpointInv, IsInOrder, Succeeded
    <3>3. ph # 2
      BY <3>2, <1>1
    <3>4. disk'["probe"] = disk["probe"]
      BY <3>3, <1>1, <1>3, <1>6
    <3> QED BY <3>2, <3>4, <1>1 DEF HandedOver, Controlled
  <2>3. CASE ~Succeeded(disk, 6)
    <3>1. ph = 6 /\ out.status = "success" /\ disk' = SavedState
      BY <2>1, <2>3, <1>1, <1>3, <1>6 DEF Succeeded
    <3>2. HandedOver
      BY <3>1, <1>1 DEF HandoverInv, ApplyComesLast
    <3>3. disk'["probe"] = disk["probe"]
      BY <3>1, <1>3, <1>6
    <3> QED BY <3>2, <3>3, <1>1 DEF HandedOver, Controlled
  <2> QED BY <2>2, <2>3
<1> QED BY <1>4, <1>7, <1>8 DEF HandoverInv

\* What a phase of the run may touch.
LEMMA PhaseHandsOver ==
    ASSUME CheckpointInv, HandoverInv, pc \in Names, UNCHANGED <<disk, mem, args, ph, done, applied, driving>>,
           pc' = pc \/ pc' = "save",
           enable' = [f \in Fans |-> enable'[f]],
           ph = 2 => enable' = enable /\ (pc' = "save" => IsBaseline(out'.art)),
           ph < 6 => config' = config,
           ph < 3 => enable' = enable,
           pc' = "save" /\ ph = 6 /\ out'.status = "success" => HandedOver'
    PROVE  HandoverInv'
<1>1. /\ ph \in 1..6 /\ ~Succeeded(disk, ph) /\ mem = disk /\ ~applied
      /\ ph > 2 => Succeeded(disk, 2) /\ args["probe"] = disk["probe"]
  BY PhasesDiffer DEF CheckpointInv, HandoverInv, RunIsCurrent, ApplyComesLast
<1>2. ~Succeeded(disk, 6)
  <2>1. CASE ph = 6
    BY <2>1, <1>1
  <2>2. CASE ph # 6
    <3>1. ph < 6
      BY <2>2, <1>1
    <3> QED BY <3>1, <1>1 DEF CheckpointInv, IsInOrder, Succeeded
  <2> QED BY <2>1, <2>2
<1>3. RunIsCurrent'
  BY <1>1, PhasesDiffer DEF RunIsCurrent, Succeeded
<1>4. ProbeComesFirst'
  <2>1. CASE Succeeded(disk, 2)
    BY <2>1, <1>1 DEF HandoverInv, ProbeComesFirst, Succeeded
  <2>2. CASE ~Succeeded(disk, 2)
    <3>1. ph < 3 /\ ph < 6
      BY <2>2, <1>1
    <3> QED BY <3>1, <2>2 DEF HandoverInv, ProbeComesFirst, Succeeded, IsUntouched
  <2> QED BY <2>1, <2>2
<1>5. ApplyComesLast'
  BY <1>1, <1>2 DEF ApplyComesLast, Succeeded
<1> QED BY <1>3, <1>4, <1>5 DEF HandoverInv

\* The apply phase keeps it, whichever fan it skips or fails to hand back.
LEMMA ApplyHandsOver ==
    ASSUME CheckpointInv, HandoverInv, Apply, out'.status = "success"
    PROVE  HandedOver'
<1>1. /\ pc = "apply" /\ pc \in Names /\ ph = 6
  BY PhasesDiffer, PhaseNames DEF Apply, CheckpointInv
<1>2. /\ args["probe"] = disk["probe"] /\ Succeeded(disk, 2) /\ IsBaseline(disk["probe"].art)
  BY <1>1 DEF HandoverInv, RunIsCurrent, ProbeComesFirst
<1>3. Art("probe") = disk["probe"].art
  BY <1>2, PhaseNames DEF Art, Succeeded
<1>4. PICK sensor \in BOOLEAN :
         LET admitted == {f \in Fans : Admitted(f)}
             controlled == sensor /\ admitted # {}
         IN  /\ config' = [fans |-> admitted, controlled |-> controlled, exists |-> TRUE]
             /\ enable' = [f \in Fans |->
                   IF HandedBack(f, controlled) THEN Restored(f) ELSE enable[f]]
             /\ disk' = disk
  BY DEF Apply, EndPhase, Failed
<1> DEFINE admitted == {f \in Fans : Admitted(f)}
           controlled == sensor /\ admitted # {}
<1>5. /\ config' = [fans |-> admitted, controlled |-> controlled, exists |-> TRUE]
      /\ enable' = [f \in Fans |->
                   IF HandedBack(f, controlled) THEN Restored(f) ELSE enable[f]]
      /\ disk' = disk
  BY <1>4
<1>6. \A f \in Fans : HandedBack(f, controlled) <=> (~controlled \/ f \notin admitted)
  BY DEF HandedBack
<1>7. \A f \in Fans : disk["probe"].art[f] = "unread" \/ Restored(f) = "auto"
  BY <1>2, <1>3 DEF IsBaseline, Restored
<1> HIDE DEF admitted, controlled
<1>8. controlled => Controlled(config') = admitted
  BY <1>5 DEF Controlled
<1> QED BY <1>5, <1>6, <1>7, <1>8 DEF HandedOver, Controlled

\* Every step but a reset keeps it.
LEMMA HandoverStep ==
    ASSUME CheckpointInv, HandoverInv, [WizardNext]_wizVars, resets \in Nat, resets' = 0
    PROVE  HandoverInv'
<1> USE DEF machine
<1>1. CASE Start
  BY <1>1, PhasesDiffer
  DEF Start, HandoverInv, RunIsCurrent, ProbeComesFirst, ApplyComesLast, HandedOver, Controlled, IsUntouched, Succeeded
<1>2. CASE Load
  BY <1>2, PhasesDiffer
  DEF Load, HandoverInv, RunIsCurrent, ProbeComesFirst, ApplyComesLast, HandedOver, Controlled, IsUntouched, Succeeded
<1>3. CASE Carry
  BY <1>3, PhasesDiffer
  DEF Carry, HandoverInv, RunIsCurrent, ProbeComesFirst, ApplyComesLast, HandedOver, Controlled, IsUntouched, Succeeded
<1>4. CASE Begin
  <2>1. /\ pc = "next" /\ ph \in 1..6 /\ ~Succeeded(mem, ph) /\ args' = disk /\ mem = disk
        /\ UNCHANGED <<disk, mem, ph, enable, config, done, applied, driving>> /\ ~applied
    BY <1>4 DEF Begin, CarriedForward, CheckpointInv, Succeeded, HandoverInv, RunIsCurrent, ApplyComesLast
  <2>2. \/ pc' = "save" /\ out'.status = "failed"
        \/ pc' = Phases[ph] /\ (ph > 2 => Succeeded(disk, 2))
    BY <1>4, PhaseNames DEF Begin, Failed, Succeeded
  <2>3. pc' = "save" \/ (pc' \in Names /\ pc' # "save")
    BY <2>1, <2>2, PhasesDiffer
  <2> QED BY <2>1, <2>2, <2>3, PhasesDiffer
          DEF HandoverInv, RunIsCurrent, ProbeComesFirst, ApplyComesLast, HandedOver, Controlled, IsUntouched, Succeeded
<1>5. CASE Save
  <2>1. UNCHANGED resets
    BY <1>5 DEF Save
  <2> QED BY <2>1, <1>5, SaveHandsOver
<1>6. CASE Prepare \/ Probe
  <2>1. /\ pc \in Names /\ ph \in {1, 2} /\ (ph = 2 <=> pc = "probe") /\ pc # "save"
    BY <1>6, PhasesDiffer, PhaseNames DEF Prepare, Probe, CheckpointInv
  <2>2. /\ UNCHANGED <<disk, mem, args, ph, done, applied, driving, enable, config>> /\ pc' = "save"
    BY <1>6 DEF Prepare, Probe, EndPhase
  <2>3. ph = 2 => IsBaseline(out'.art)
    <3>1. SUFFICES ASSUME ph = 2 PROVE IsBaseline(out'.art)
      OBVIOUS
    <3>2. ~Succeeded(disk, 2) /\ mem = disk
      BY <3>1, <2>1 DEF CheckpointInv, HandoverInv, RunIsCurrent, Succeeded
    <3>3. enable = [f \in Fans |-> "auto"]
      BY <3>2 DEF HandoverInv, ProbeComesFirst, IsUntouched
    <3>4. out'.art = enable \/ \E f \in Fans : out'.art = [enable EXCEPT ![f] = "unread"]
      BY <1>6, <2>1, <3>1 DEF Prepare, Probe, EndPhase, Success
    <3> QED BY <3>3, <3>4 DEF IsBaseline
  <2> QED BY <2>1, <2>2, <2>3, PhaseHandsOver DEF HandoverInv, ProbeComesFirst
<1>7. CASE RPMDetect \/ Polarity \/ Calibrate
  <2>1. /\ pc \in Names /\ ph \in 3..5
    BY <1>7, PhasesDiffer, PhaseNames DEF RPMDetect, Polarity, Calibrate, CheckpointInv
  <2>2. /\ UNCHANGED <<disk, mem, args, ph, done, applied, driving, config>> /\ (pc' = pc \/ pc' = "save")
        /\ enable' = [f \in Fans |-> enable'[f]]
    BY <1>7 DEF RPMDetect, Polarity, Calibrate, EndPhase, Visit, HandoverInv, ProbeComesFirst
  <2> QED BY <2>1, <2>2, PhaseHandsOver
<1>8. CASE Apply
  <2>1. /\ pc \in Names /\ ph = 6
    BY <1>8, PhasesDiffer, PhaseNames DEF Apply, CheckpointInv
  <2>2. /\ UNCHANGED <<disk, mem, args, ph, done, applied, driving>> /\ pc' = "save"
        /\ enable' = [f \in Fans |-> enable'[f]]
    BY <1>8 DEF Apply, EndPhase, HandoverInv, ProbeComesFirst
  <2> QED BY <2>1, <2>2, <1>8, PhaseHandsOver, ApplyHandsOver
<1>9. CASE Complete
  <2>1. /\ pc = "next" /\ ph = 7 /\ mem = disk
    BY <1>9 DEF Complete, CheckpointInv, HandoverInv, RunIsCurrent
  <2>2. Succeeded(disk, 6) /\ HandedOver /\ Succeeded(disk, 2)
    <3>1. Succeeded(disk, 6) /\ Succeeded(disk, 2)
      BY <2>1 DEF CheckpointInv
    <3> QED BY <3>1 DEF HandoverInv, ApplyComesLast
  <2>3. /\ UNCHANGED <<disk, config>> /\ applied' /\ done' /\ pc' = "idle"
        /\ enable' = [f \in Fans |-> IF f \in driving' THEN "manual" ELSE enable[f]]
        /\ config.exists => driving' = Controlled(config)
    BY <1>9 DEF Complete, Driven
  <2>4. HandedOver'
    BY <2>2, <2>3 DEF HandedOver, Controlled
  <2> QED BY <2>1, <2>2, <2>3, <2>4, PhasesDiffer
          DEF HandoverInv, RunIsCurrent, ProbeComesFirst, ApplyComesLast, Succeeded, IsUntouched
<1>10. CASE Abort
  BY <1>10, PhasesDiffer
  DEF Abort, HandoverInv, RunIsCurrent, ProbeComesFirst, ApplyComesLast, HandedOver, Controlled, IsUntouched, Succeeded
<1>11. CASE Reset
  BY <1>11 DEF Reset
<1>12. CASE DaemonDies
  <2>1. /\ UNCHANGED <<disk, config>> /\ pc' = "idle" /\ ~applied'
        /\ driving' = Controlled(config)
        /\ \/ enable' = [f \in Fans |-> IF f \in driving' THEN "manual" ELSE enable[f]]
           \/ enable' = [f \in Fans |-> IF f \in driving' THEN "manual" ELSE "auto"]
    BY <1>12 DEF DaemonDies, Driven
  <2>2. IsUntouched => IsUntouched'
    BY <2>1 DEF IsUntouched, Controlled
  <2>3. HandedOver => HandedOver'
    BY <2>1 DEF HandedOver, Controlled
  <2> QED BY <2>1, <2>2, <2>3, PhasesDiffer
          DEF HandoverInv, RunIsCurrent, ProbeComesFirst, ApplyComesLast, Succeeded
<1>13. CASE UNCHANGED wizVars
  BY <1>13 DEF wizVars, HandoverInv, RunIsCurrent, ProbeComesFirst, ApplyComesLast, HandedOver, Controlled,
               IsUntouched, Succeeded
<1> QED BY <1>1, <1>2, <1>3, <1>4, <1>5, <1>6, <1>7, <1>8, <1>9, <1>10, <1>11, <1>12, <1>13
        DEF WizardNext, WizardStep

\* The invariant holds at the start.
LEMMA WizardInvInit == WizardInit => WizardInv
<1>1. WizardInit => resets \in Nat
  BY DEF WizardInit
<1> QED BY <1>1, CheckpointInit, HandoverInit DEF WizardInv

\* Every step keeps it.
LEMMA WizardInvStep == WizardInv /\ [WizardNext]_wizVars => WizardInv'
<1> SUFFICES ASSUME WizardInv, [WizardNext]_wizVars PROVE WizardInv'
  OBVIOUS
<1>1. resets' = resets \/ resets' = resets + 1
  BY DEF WizardNext, WizardStep, wizVars, machine, Start, Load, Carry, Begin, Save, Prepare, Probe,
         RPMDetect, Polarity, Calibrate, Apply, Complete, Abort, Reset, DaemonDies, EndPhase, Visit
<1>2. CheckpointInv'
  BY CheckpointStep DEF WizardInv
<1>3. resets' = 0 => HandoverInv'
  BY <1>1, HandoverStep DEF WizardInv
<1> QED BY <1>1, <1>2, <1>3 DEF WizardInv

\* It gives the properties of the run.
LEMMA WizardInvIsSafe == WizardInv => WizardIsSafe
<1> SUFFICES ASSUME WizardInv PROVE WizardIsSafe
  OBVIOUS
<1>1. CheckpointIsPrefix
  BY DEF WizardInv, CheckpointInv, IsInOrder, Succeeded, CheckpointIsPrefix
<1>2. AppliedOrphansNobody
  BY DEF WizardInv, HandoverInv, ApplyComesLast, HandedOver, AppliedOrphansNobody
<1> QED BY <1>1, <1>2 DEF WizardIsSafe

\* However often the wizard is started, aborted or dies between two phases: a phase
\* is only tried after those before it succeeded, and once the wizard has applied
\* its configuration (and nobody reset it), every fan is under the configuration or
\* with the firmware, whatever its baseline was.
THEOREM WizardStaysSafe == WizardSpec => []WizardIsSafe
<1> QED BY WizardInvInit, WizardInvStep, WizardInvIsSafe, PTL DEF WizardSpec

\* The places of a phase, in their order.
Leg(place) == IF place = "next" THEN 1 ELSE IF place = "save" THEN 3 ELSE 2

\* The goroutine of a run goes on: to a later phase, a later place of its phase, to
\* fewer fans that are left, or to its end.
MovesOn ==
    \/ pc' = "idle"
    \/ pc = "load" /\ pc' = "next"
    \/ pc # "load" /\ ph' = ph + 1
    \/ pc # "load" /\ ph' = ph /\ Leg(pc') > Leg(pc)
    \/ pc \in Names /\ ph' = ph /\ pc' = pc /\ left' \subseteq left /\ left' # left

\* The safety half of RunEnds: of the six phases none is started twice in a run,
\* and within a phase no fan is visited twice, so that a run is over after at most
\* six times as many steps as there are fans, and a few for each phase.
RunsMoveOn ==
    [][pc # "idle" => IF WizardStep THEN MovesOn ELSE pc' = "idle" \/ UNCHANGED <<pc, ph, left>>]_wizVars

\* Every step of the goroutine is one forward.
LEMMA StepsMoveOn == CheckpointInv /\ WizardStep => MovesOn
<1> SUFFICES ASSUME CheckpointInv, WizardStep PROVE MovesOn
  OBVIOUS
<1> USE DEF machine
<1>0. /\ Leg("next") = 1 /\ Leg("save") = 3 /\ \A p \in Names : Leg(p) = 2
      /\ \A p \in Names : p \notin {"next", "save", "load", "idle"}
  BY PhasesDiffer DEF Leg
<1>1. CASE Load \/ Complete
  BY <1>1 DEF Load, Complete, MovesOn
<1>2. CASE Carry
  BY <1>2 DEF Carry, MovesOn
<1>3. CASE Begin
  <2>1. pc = "next" /\ ph' = ph /\ ph \in 1..6 /\ (pc' = "save" \/ pc' = Phases[ph])
    BY <1>3 DEF Begin, CheckpointInv
  <2>2. Phases[ph] \in Names
    BY <2>1, PhasesDiffer
  <2> QED BY <1>0, <2>1, <2>2 DEF MovesOn
<1>4. CASE Save
  <2>1. pc = "save" /\ out.status \in {"success", "failed"}
    BY <1>4 DEF Save, CheckpointInv
  <2>2. pc' = "idle" \/ ph' = ph + 1
    BY <1>4, <2>1 DEF Save, Ends
  <2> QED BY <2>1, <2>2 DEF MovesOn
<1>5. CASE Prepare \/ Probe \/ RPMDetect \/ Polarity \/ Calibrate \/ Apply
  <2>1. /\ pc \in Names /\ ph' = ph
        /\ \/ pc' = "save"
           \/ pc' = pc /\ \E f \in left : left' = left \ {f} \/ left' = {}
    <3>0. pc \in Names
      BY <1>5, PhasesDiffer, PhaseNames DEF Prepare, Probe, RPMDetect, Polarity, Calibrate, Apply
    <3>1. ASSUME NEW o, EndPhase(o) PROVE pc' = "save" /\ ph' = ph
      BY <3>1 DEF EndPhase
    <3>2. ASSUME NEW f, NEW v, NEW more, Visit(f, v, more) PROVE pc' = pc /\ ph' = ph /\ left' = more
      BY <3>2 DEF Visit
    <3>3. CASE Prepare \/ Probe
      BY <3>0, <3>1, <3>3 DEF Prepare, Probe
    <3>4. CASE RPMDetect
      BY <3>0, <3>1, <3>2, <3>4 DEF RPMDetect
    <3>5. CASE Polarity
      <4>1. ASSUME NEW f \in left, NEW v \in Verdicts(f), Visit(f, v, IF cancelled THEN {} ELSE left \ {f})
            PROVE  pc' = pc /\ ph' = ph /\ (left' = left \ {f} \/ left' = {})
        BY <3>2, <4>1
      <4> QED BY <3>0, <3>1, <3>5, <4>1 DEF Polarity
    <3>6. CASE Calibrate
      <4>1. \/ \E f \in left : \E v : Visit(f, v, left \ {f})
            \/ \E o : EndPhase(o)
        BY <3>6, Zenon DEF Calibrate
      <4>2. CASE \E f \in left : \E v : Visit(f, v, left \ {f})
        <5>1. PICK f \in left : \E v : Visit(f, v, left \ {f})
          BY <4>2
        <5> QED BY <3>0, <3>2, <5>1
      <4> QED BY <3>0, <3>1, <4>1, <4>2
    <3>7. CASE Apply
      BY <3>0, <3>1, <3>7 DEF Apply
    <3> QED BY <1>5, <3>3, <3>4, <3>5, <3>6, <3>7
  <2>2. CASE pc' = "save"
    BY <1>0, <2>1, <2>2 DEF MovesOn
  <2>3. CASE \E f \in left : left' = left \ {f} \/ left' = {}
    <3>1. left' \subseteq left /\ left' # left
      BY <2>3
    <3> QED BY <2>1, <2>2, <3>1 DEF MovesOn
  <2> QED BY <2>1, <2>2, <2>3
<1> QED BY <1>1, <1>2, <1>3, <1>4, <1>5 DEF WizardStep

\* A run of the wizard goes on and never round in a circle (internal/setup/
\* orchestrator): a failed phase, a failed save or an abort ends it, and nothing
\* but its own steps, or the death of the daemon, moves it.
THEOREM RunsGoForward == LiveParts => RunsMoveOn
<1>1. LiveInit => CheckpointInv
  BY CheckpointInit DEF LiveInit
<1>2. [LiveNext]_liveVars => [WizardNext]_wizVars
  BY DEF LiveNext, OnlyWizard, OnlyProber, OnlySink, liveVars
<1>3. CheckpointInv /\ [LiveNext]_liveVars => CheckpointInv'
  BY <1>2, CheckpointStep
<1>4. CheckpointInv /\ [LiveNext]_liveVars
      => [pc # "idle" => IF WizardStep THEN MovesOn ELSE pc' = "idle" \/ UNCHANGED <<pc, ph, left>>]_wizVars
  <2> SUFFICES ASSUME CheckpointInv, WizardNext, pc # "idle", ~WizardStep
               PROVE  pc' = "idle" \/ UNCHANGED <<pc, ph, left>>
    BY <1>2, StepsMoveOn
  <2> QED BY DEF WizardNext, Start, Abort, Reset, DaemonDies
<1> QED BY <1>1, <1>3, <1>4, PTL DEF LiveParts, RunsMoveOn

\* What the probe may have read of the fans.
Readings == [Fans -> {"auto", "manual", "unread"}]

\* The probe's artifact in a checkpoint is a reading.
HoldsReading(s) == Succeeded(s, 2) => s["probe"].art \in Readings

\* The part of the wizard's types that the checkpoint part leaves out: what it writes
\* to a fan is what the probe read.
MachineInv ==
    /\ enable \in [Fans -> {"auto", "manual"}]
    /\ pc \in Names \cup {"idle", "load", "next", "save"}
    /\ HoldsReading(disk) /\ HoldsReading(mem)
    /\ pc \in Names /\ ph > 2 => HoldsReading(args) /\ Succeeded(args, 2)
    /\ pc = "save" /\ ph = 2 /\ out.status = "success" => out.art \in Readings
    /\ config.fans \subseteq Fans /\ driving \subseteq Fans
    /\ deaths \in Nat /\ (marker => applied \/ deaths > 0)

\* It holds at the start.
LEMMA MachineInvInit == WizardInit => MachineInv
  BY PhaseNames, PhasesDiffer DEF WizardInit, MachineInv, HoldsReading, Succeeded, Fresh, Pending, NoConfig

\* What a fan is handed back with is what it had, or what the probe read.
LEMMA RestoredIsRead ==
    ASSUME MachineInv, CheckpointInv, pc \in Names, ph > 2, NEW f \in Fans
    PROVE  Restored(f) \in {"auto", "manual"}
<1>1. args["probe"].status = "success" /\ args["probe"].art \in Readings
  BY PhaseNames DEF MachineInv, HoldsReading, Succeeded
<1> QED BY <1>1 DEF Restored, Art, MachineInv, Readings

\* Every step keeps it.
LEMMA MachineInvStep == CheckpointInv /\ MachineInv /\ [WizardNext]_wizVars => MachineInv'
<1> SUFFICES ASSUME CheckpointInv, MachineInv, [WizardNext]_wizVars PROVE MachineInv'
  OBVIOUS
<1> USE DEF machine
<1>1. CASE Start
  BY <1>1, PhasesDiffer DEF Start, MachineInv, HoldsReading, Succeeded
<1>2. CASE Load
  BY <1>2, PhasesDiffer DEF Load, MachineInv, HoldsReading, Succeeded
<1>3. CASE Carry
  BY <1>3, PhasesDiffer DEF Carry, MachineInv, HoldsReading, Succeeded
<1>4. CASE Begin
  <2>1. /\ args' = disk /\ ph \in 1..6
        /\ UNCHANGED <<disk, mem, enable, ph, config, driving, deaths, marker, applied>>
    BY <1>4 DEF Begin, CheckpointInv
  <2>2. \/ pc' = "save" /\ out'.status = "failed"
        \/ pc' = Phases[ph] /\ (ph > 2 => Succeeded(disk, 2))
    BY <1>4, PhaseNames DEF Begin, Failed, Succeeded
  <2> QED BY <2>1, <2>2, PhasesDiffer DEF MachineInv, HoldsReading, Succeeded
<1>5. CASE Save
  <2>1. /\ pc = "save" /\ mem' = SavedState /\ disk' \in {SavedState, disk} /\ ph \in 1..6
        /\ UNCHANGED <<args, enable, config, driving, deaths, marker, applied>>
        /\ pc' \in {"idle", "next"}
    BY <1>5, PhasesDiffer DEF Save, CheckpointInv
  <2>2. SavedState["probe"] = IF ph = 2 THEN out ELSE mem["probe"]
    BY <2>1, PhasesDiffer, PhaseNames DEF SavedState, CheckpointInv, IsRecord
  <2>3. HoldsReading(SavedState)
    BY <2>1, <2>2, PhaseNames DEF HoldsReading, Succeeded, MachineInv
  <2> HIDE DEF SavedState
  <2>4. HoldsReading(disk)' /\ HoldsReading(mem)'
    BY <2>1, <2>3 DEF MachineInv, HoldsReading, Succeeded
  <2> QED BY <2>1, <2>4, PhasesDiffer DEF MachineInv
<1>6. CASE Prepare \/ Probe
  <2>1. /\ pc \in Names /\ ph \in {1, 2} /\ (ph = 2 <=> pc = "probe") /\ pc # "save"
    BY <1>6, PhasesDiffer, PhaseNames DEF Prepare, Probe, CheckpointInv
  <2>2. /\ UNCHANGED <<disk, mem, args, ph, applied, marker, deaths, driving, enable, config>>
        /\ pc' = "save"
    BY <1>6 DEF Prepare, Probe, EndPhase
  <2>3. ph = 2 => out'.art \in Readings
    BY <1>6, <2>1 DEF Prepare, Probe, EndPhase, Success, Readings, MachineInv
  <2> QED BY <2>1, <2>2, <2>3, PhasesDiffer DEF MachineInv, HoldsReading, Succeeded
<1>7. CASE RPMDetect \/ Polarity \/ Calibrate
  <2>1. pc \in Names /\ ph \in 3..5
    BY <1>7, PhasesDiffer, PhaseNames DEF RPMDetect, Polarity, Calibrate, CheckpointInv
  <2>2. /\ UNCHANGED <<disk, mem, args, ph, applied, marker, deaths, driving, config>>
        /\ (pc' = pc \/ pc' = "save")
    BY <1>7 DEF RPMDetect, Polarity, Calibrate, EndPhase, Visit
  <2>3. \A f \in Fans : Restored(f) \in {"auto", "manual"}
    BY <2>1, RestoredIsRead
  <2>4. enable' \in [Fans -> {"auto", "manual"}]
    BY <1>7, <2>3 DEF RPMDetect, Polarity, Calibrate, MachineInv
  <2> QED BY <2>1, <2>2, <2>4, PhasesDiffer DEF MachineInv, HoldsReading, Succeeded
<1>8. CASE Apply
  <2>1. pc \in Names /\ ph = 6
    BY <1>8, PhasesDiffer, PhaseNames DEF Apply, CheckpointInv
  <2>2. /\ UNCHANGED <<disk, mem, args, ph, applied, marker, deaths, driving>> /\ pc' = "save"
        /\ config'.fans \subseteq Fans
    BY <1>8 DEF Apply, EndPhase, MachineInv
  <2>3. \A f \in Fans : Restored(f) \in {"auto", "manual"}
    BY <2>1, RestoredIsRead
  <2>4. enable' \in [Fans -> {"auto", "manual"}]
    BY <1>8, <2>3 DEF Apply, EndPhase, MachineInv
  <2> QED BY <2>1, <2>2, <2>4, PhasesDiffer DEF MachineInv, HoldsReading, Succeeded
<1>9. CASE Complete
  BY <1>9, PhasesDiffer DEF Complete, Driven, Controlled, MachineInv, HoldsReading, Succeeded
<1>10. CASE Abort
  BY <1>10, PhasesDiffer DEF Abort, MachineInv, HoldsReading, Succeeded
<1>11. CASE Reset
  <2>1. HoldsReading(Fresh)
    BY PhasesDiffer, PhaseNames DEF HoldsReading, Succeeded, Fresh, Pending
  <2> QED BY <1>11, <2>1 DEF Reset, NoConfig, MachineInv, HoldsReading, Succeeded
<1>12. CASE DaemonDies
  <2>1. HoldsReading(Fresh)
    BY PhasesDiffer, PhaseNames DEF HoldsReading, Succeeded, Fresh, Pending
  <2> QED BY <1>12, <2>1, PhasesDiffer
          DEF DaemonDies, Driven, Controlled, MachineInv, HoldsReading, Succeeded
<1>13. CASE UNCHANGED wizVars
  BY <1>13 DEF wizVars, MachineInv, HoldsReading, Succeeded
<1> QED BY <1>1, <1>2, <1>3, <1>4, <1>5, <1>6, <1>7, <1>8, <1>9, <1>10, <1>11, <1>12, <1>13
        DEF WizardNext, WizardStep

\* The types of the wizard's state follow.
LEMMA MachineIsTyped == CheckpointInv /\ MachineInv => WizardTypeOK
  BY DEF CheckpointInv, MachineInv, WizardTypeOK, IsRecord, Statuses

-----------------------------------------------------------------------------
(* The opportunistic prober.                                               *)

\* The prober without fairness.
OppSpec == OppInit /\ [][OppNext]_oVars

\* The inductive invariant of the prober: a probe is of a fan there is, at a duty that
\* was a gap of its grid.
OppInv ==
    /\ raw \in [ProbeFans -> 0..Top] /\ opol \in [ProbeFans -> Polarities]
    /\ order \in [ProbeFans -> 1..FanCount] /\ \A f, g \in ProbeFans : order[f] = order[g] => f = g
    /\ baseline \in 0..Top /\ ofaults \in Nat
    /\ spc \in {"idle", "baseline", "gap", "hold", "restore", "record", "stopped"}
    /\ spc \notin {"idle", "stopped"} =>
          fan \in ProbeFans /\ duty \in Grid /\ duty >= Floor[fan]

\* The number of fans is one.
LEMMA FanCountIsNat == FanCount \in Nat
  BY OppAssumption, FS_CardinalityType DEF FanCount

\* A set of numbers that is not empty has a least one.
LEMMA LeastNumber ==
    ASSUME NEW T \in SUBSET Nat, T # {}
    PROVE  \E x \in T : \A y \in T : x <= y
<1>1. \E x \in T : \A y \in T : ~(<<y, x>> \in OpToRel(<, Nat))
  BY NatLessThanWellFounded, WFMin, Zenon
<1>2. ASSUME NEW x \in T, NEW y \in T, ~(<<y, x>> \in OpToRel(<, Nat)) PROVE x <= y
  BY <1>2 DEF OpToRel
<1> QED BY <1>1, <1>2

\* No fan has more gaps than the grid has duties.
LEMMA GapsAreFew ==
    ASSUME NEW f \in ProbeFans
    PROVE  Gaps(f) \in SUBSET Nat /\ Cardinality(Gaps(f)) \in 0 .. Top + 1
<1>1. Gaps(f) \subseteq 0..Top
  BY OppAssumption DEF Gaps
<1>2. IsFiniteSet(0..Top) /\ Cardinality(0..Top) = Top + 1
  BY OppAssumption, FS_Interval
<1>3. Cardinality(Gaps(f)) <= Cardinality(0..Top) /\ IsFiniteSet(Gaps(f))
  BY <1>1, <1>2, FS_Subset
<1>4. Cardinality(Gaps(f)) \in Nat
  BY <1>3, FS_CardinalityType
<1> QED BY <1>1, <1>2, <1>3, <1>4, OppAssumption

\* The scheduler picks a fan that has a gap, and the lowest of them.
LEMMA PickIsAGap ==
    ASSUME order \in [ProbeFans -> 1..FanCount], WithGaps # {}
    PROVE  /\ Winner \in ProbeFans
           /\ Lowest(Gaps(Winner)) \in Grid /\ Lowest(Gaps(Winner)) >= Floor[Winner]
<1>1. \E f \in WithGaps : \A g \in WithGaps : Cardinality(Gaps(g)) <= Cardinality(Gaps(f))
  <2> DEFINE lack(f) == Top + 1 - Cardinality(Gaps(f))
             T == {lack(f) : f \in WithGaps}
  <2>1. \A f \in WithGaps : Cardinality(Gaps(f)) \in 0 .. Top + 1
    BY GapsAreFew DEF WithGaps
  <2>2. T \in SUBSET Nat /\ T # {}
    BY <2>1, OppAssumption
  <2>3. PICK x \in T : \A y \in T : x <= y
    BY <2>2, LeastNumber
  <2>4. PICK f \in WithGaps : x = lack(f)
    BY <2>3
  <2>5. ASSUME NEW g \in WithGaps PROVE Cardinality(Gaps(g)) <= Cardinality(Gaps(f))
    <3>1. lack(f) <= lack(g)
      BY <2>3, <2>4
    <3> QED BY <3>1, <2>1, OppAssumption
  <2> QED BY <2>5
<1>2. Best # {} /\ Best \subseteq WithGaps
  BY <1>1 DEF Best
<1>3. \E f \in Best : \A g \in Best : order[f] <= order[g]
  <2> DEFINE T == {order[f] : f \in Best}
  <2>1. T \in SUBSET Nat /\ T # {}
    BY <1>2, FanCountIsNat DEF WithGaps
  <2>2. PICK x \in T : \A y \in T : x <= y
    BY <2>1, LeastNumber
  <2>3. PICK f \in Best : x = order[f]
    BY <2>2
  <2>4. \A g \in Best : order[f] <= order[g]
    BY <2>2, <2>3
  <2> QED BY <2>4
<1>4. Winner \in Best
  BY <1>3 DEF Winner
<1>5. Winner \in ProbeFans /\ Gaps(Winner) # {}
  BY <1>2, <1>4 DEF WithGaps
<1>6. \E b \in Gaps(Winner) : \A c \in Gaps(Winner) : b <= c
  BY <1>5, GapsAreFew, LeastNumber
<1>7. Lowest(Gaps(Winner)) \in Gaps(Winner)
  BY <1>6 DEF Lowest
<1> QED BY <1>5, <1>7 DEF Gaps

\* The value written for a duty is one the file can hold.
LEMMA AdjustedFits ==
    ASSUME NEW f, NEW v \in 0..Top
    PROVE  Adjusted(f, v) \in 0..Top
BY OppAssumption DEF Adjusted

\* It does not matter whether a write lands.
LEMMA LandsKeeps ==
    ASSUME NEW f, NEW v \in 0..Top, Lands(f, Adjusted(f, v)),
           raw \in [ProbeFans -> 0..Top], ofaults \in Nat
    PROVE  raw' \in [ProbeFans -> 0..Top] /\ ofaults' \in Nat
<1>1. Adjusted(f, v) \in 0..Top
  BY AdjustedFits
<1> QED BY <1>1 DEF Lands

\* A probe that ends makes its fan the last, and leaves the others in their order.
LEMMA ProbedKeepsRanks ==
    ASSUME order \in [ProbeFans -> 1..FanCount],
           \A f, g \in ProbeFans : order[f] = order[g] => f = g,
           NEW p \in ProbeFans, Probed(p)
    PROVE  /\ order' \in [ProbeFans -> 1..FanCount]
           /\ \A f, g \in ProbeFans : order'[f] = order'[g] => f = g
<1>1. FanCount \in Nat /\ order[p] \in 1..FanCount
  BY FanCountIsNat
<1>2. ASSUME NEW g \in ProbeFans
      PROVE  /\ order[g] \in 1..FanCount /\ (order[g] = order[p] => g = p)
             /\ order'[g] = IF g = p THEN FanCount
                            ELSE IF order[g] > order[p] THEN order[g] - 1 ELSE order[g]
  BY DEF Probed
<1>3. ASSUME NEW g \in ProbeFans
      PROVE  order'[g] \in 1..FanCount
  BY <1>1, <1>2
<1>4. order' \in [ProbeFans -> 1..FanCount]
  BY <1>3 DEF Probed
<1>5. ASSUME NEW f \in ProbeFans, NEW g \in ProbeFans, order'[f] = order'[g]
      PROVE  f = g
  BY <1>1, <1>2, <1>5
<1> QED BY <1>4, <1>5

\* The invariant holds at the start.
LEMMA OppInvInit == OppInit => OppInv
  BY OppAssumption DEF OppInit, OppInv

\* Every step keeps it.
LEMMA OppInvStep == OppInv /\ [OppNext]_oVars => OppInv'
<1> SUFFICES ASSUME OppInv, [OppNext]_oVars PROVE OppInv'
  OBVIOUS
<1> USE DEF fan, duty
<1>1. CASE SchedulerTick
  <2>1. WithGaps # {} /\ pick' = <<Winner, Lowest(Gaps(Winner))>>
    BY <1>1 DEF SchedulerTick
  <2>2. pick'[1] = Winner /\ pick'[2] = Lowest(Gaps(Winner))
    BY <2>1
  <2> QED BY <1>1, <2>1, <2>2, PickIsAGap DEF SchedulerTick, OppInv, world, obounds
<1>2. CASE ReadBaseline
  <2>1. fan \in ProbeFans
    BY <1>2 DEF ReadBaseline, OppInv
  <2>2. CASE UNCHANGED order
    BY <1>2, <2>1, <2>2 DEF ReadBaseline, OppInv, world, obounds
  <2>3. CASE Probed(fan)
    BY <1>2, <2>1, <2>3, ProbedKeepsRanks DEF ReadBaseline, OppInv, world, obounds
  <2> QED BY <1>2, <2>2, <2>3 DEF ReadBaseline
<1>3. CASE WriteGap
  <2>1. duty \in 0..Top
    BY <1>3, OppAssumption DEF WriteGap, OppInv
  <2>2. raw' \in [ProbeFans -> 0..Top] /\ ofaults' \in Nat
    BY <1>3, <2>1, LandsKeeps DEF WriteGap, OppInv
  <2> QED BY <1>3, <2>2 DEF WriteGap, OppInv, probe, world
<1>4. CASE Sample \/ Cancelled
  BY <1>4 DEF Sample, Cancelled, OppInv, probe, world, obounds
<1>5. CASE Restore
  <2>1. raw' \in [ProbeFans -> 0..Top] /\ ofaults' \in Nat
    BY <1>5, LandsKeeps DEF Restore, OppInv
  <2> QED BY <1>5, <2>1 DEF Restore, OppInv, probe, world
<1>6. CASE Record
  <2>1. fan \in ProbeFans
    BY <1>6 DEF Record, OppInv
  <2> QED BY <1>6, <2>1, ProbedKeepsRanks, OppAssumption DEF Record, OppInv, world, obounds
<1>7. ASSUME NEW f \in ProbeFans, ControllerDrives(f) PROVE OppInv'
  <2>1. PICK d \in {0, Top} \cup Grid : raw' = [raw EXCEPT ![f] = Adjusted(f, d)]
    BY <1>7 DEF ControllerDrives
  <2>2. Adjusted(f, d) \in 0..Top
    BY AdjustedFits, OppAssumption
  <2> QED BY <1>7, <2>1, <2>2 DEF ControllerDrives, OppInv, probe, world
<1>8. ASSUME NEW f \in ProbeFans, FanGoes(f) PROVE OppInv'
  BY <1>8 DEF FanGoes, OppInv, probe
<1>9. CASE HalfWindow \/ ConfigFlips \/ Shutdown
  BY <1>9 DEF HalfWindow, ConfigFlips, Shutdown, OppInv, probe, world, obounds
<1>10. CASE UNCHANGED oVars
  BY <1>10 DEF oVars, OppInv, probe, world, obounds
<1> QED BY <1>1, <1>2, <1>3, <1>4, <1>5, <1>6, <1>7, <1>8, <1>9, <1>10 DEF OppNext, FireStep

\* A probe's last write is what it read, on a fan that is not inverted.
LEMMA RestoreStep ==
    ASSUME OppInv, [OppNext]_oVars, opol[fan] # "inverted",
           spc = "restore", spc' = "record", present[fan], ofaults' = ofaults
    PROVE  raw'[fan] = baseline
<1>1. Restore
  BY DEF OppNext, FireStep, SchedulerTick, ReadBaseline, WriteGap, Sample, Cancelled, Record,
         ControllerDrives, FanGoes, HalfWindow, ConfigFlips, Shutdown, oVars
<1>2. fan \in ProbeFans /\ ofaults + 1 # ofaults
  BY DEF OppInv
<1>3. raw' = [raw EXCEPT ![fan] = baseline]
  BY <1>1, <1>2 DEF Restore, Lands, Adjusted
<1> QED BY <1>2, <1>3 DEF OppInv

\* The types of its state follow.
LEMMA OppIsTyped == OppInv => OppTypeOK
  BY DEF OppInv, OppTypeOK

\* Whatever ends a probe (the end of its hold, a hot host, a shutdown, a fan whose
\* duty could not be written) and whoever wrote the fan meanwhile, it puts back the
\* duty it read before it drove the fan.  The fan must not be inverted: on an
\* inverted fan the restored byte is the mirror of the one that was read.
THEOREM UprightProbesRestore ==
    OppSpec => [][spc = "restore" /\ spc' = "record" /\ present[fan] /\ ofaults' = ofaults
                  /\ opol[fan] # "inverted" => raw'[fan] = baseline]_oVars
<1>1. OppInv /\ [OppNext]_oVars
      => [spc = "restore" /\ spc' = "record" /\ present[fan] /\ ofaults' = ofaults
            /\ opol[fan] # "inverted" => raw'[fan] = baseline]_oVars
  BY RestoreStep
<1> QED BY <1>1, OppInvInit, OppInvStep, PTL DEF OppSpec

\* On a host without inverted fans, every probe puts back the duty it read.
THEOREM ProbesRestore ==
    ASSUME "inverted" \notin Polarities
    PROVE  OppSpec => ProbeRestores
<1>1. OppInv /\ [OppNext]_oVars
      => [spc = "restore" /\ spc' = "record" /\ present[fan] /\ ofaults' = ofaults
            => raw'[fan] = baseline]_oVars
  <2>1. OppInv /\ spc = "restore" => opol[fan] # "inverted"
    BY DEF OppInv, fan
  <2> QED BY <2>1, RestoreStep
<1> QED BY <1>1, OppInvInit, OppInvStep, PTL DEF OppSpec, ProbeRestores

-----------------------------------------------------------------------------
(* Gaps close: what can be said of ProberVisitsGaps without fairness.      *)

\* What is known of one duty of one fan, and of all of them.
Cell == [ok : BOOLEAN, bad : Nat]
Seen == [ProbeFans -> [Grid -> Cell]]

\* The records of the window are counted.
SeenInv == fresh \in Seen /\ stale \in Seen

\* Until the window moves no duty becomes a gap, whoever writes a record, and
\* each record of a probe closes the gap it was made for, or counts one more
\* abort against it, of which it can have fewer than MaxAborts.
GapsClose ==
    \A f \in ProbeFans :
        /\ ~HalfWindow => Gaps(f)' \subseteq Gaps(f)
        /\ \A b \in Grid : Record /\ fan = f /\ duty = b =>
              \/ b \notin Gaps(f)'
              \/ Bad(f, b)' = Bad(f, b) + 1 /\ Bad(f, b) + 1 < MaxAborts

GapsOnlyClose == [][GapsClose]_oVars

\* The records with one cell written, with a duty observed and with an abort counted.
Put(w, f, b, c) == [w EXCEPT ![f] = [w[f] EXCEPT ![b] = c]]
Observed(w, f, b) == [w EXCEPT ![f][b].ok = TRUE]
Counted(w, f, b) == [w EXCEPT ![f][b].bad = IF @ > MaxAborts THEN @ ELSE @ + 1]

\* A cell that is written leaves the others alone.
LEMMA CellWritten ==
    ASSUME NEW w \in Seen, NEW f \in ProbeFans, NEW b \in Grid, NEW c \in Cell
    PROVE  /\ Put(w, f, b, c) \in Seen
           /\ \A g \in ProbeFans, d \in Grid :
                 Put(w, f, b, c)[g][d] = IF g = f /\ d = b THEN c ELSE w[g][d]
<1> DEFINE x == Put(w, f, b, c)
<1>1. w[f] \in [Grid -> Cell] /\ [w[f] EXCEPT ![b] = c] \in [Grid -> Cell]
  BY DEF Seen
<1>2. \A d \in Grid : [w[f] EXCEPT ![b] = c][d] = IF d = b THEN c ELSE w[f][d]
  BY <1>1
<1>3. x \in Seen /\ \A g \in ProbeFans : x[g] = IF g = f THEN [w[f] EXCEPT ![b] = c] ELSE w[g]
  BY <1>1 DEF Seen, Put
<1> QED BY <1>2, <1>3

\* A duty is seen, or an abort counted: the newer records only grow.
Grown(w, x) ==
    \A f \in ProbeFans, b \in Grid :
        (w[f][b].ok => x[f][b].ok) /\ w[f][b].bad <= x[f][b].bad

\* Nothing written is nothing lost, ...
LEMMA GrownSame == ASSUME NEW w \in Seen PROVE Grown(w, w)
  BY DEF Grown, Seen, Cell

\* ... a duty that was observed ...
LEMMA ObservedGrows ==
    ASSUME NEW w \in Seen, NEW f \in ProbeFans, NEW b \in Grid, NEW x, x = Observed(w, f, b)
    PROVE  x \in Seen /\ Grown(w, x) /\ x[f][b].ok
<1> DEFINE c == [w[f][b] EXCEPT !.ok = TRUE]
<1>1. w[f][b] \in Cell
  BY DEF Seen
<1>2. c \in Cell /\ c.ok /\ c.bad = w[f][b].bad
  BY <1>1 DEF Cell
<1>6. x = Put(w, f, b, c)
  <2>1. x = [w EXCEPT ![f] = [w[f] EXCEPT ![b] = [w[f][b] EXCEPT !.ok = TRUE]]]
    BY DEF Seen, Cell, Observed
  <2> QED BY <2>1 DEF Put
<1> HIDE DEF c
<1>4. x \in Seen /\ \A g \in ProbeFans, d \in Grid : x[g][d] = IF g = f /\ d = b THEN c ELSE w[g][d]
  BY <1>2, <1>6, CellWritten
<1>5. ASSUME NEW g \in ProbeFans, NEW d \in Grid
      PROVE  (w[g][d].ok => x[g][d].ok) /\ w[g][d].bad <= x[g][d].bad
  <2>1. w[g][d].bad \in Nat
    BY DEF Seen, Cell
  <2> QED BY <1>2, <1>4, <2>1
<1> QED BY <1>2, <1>4, <1>5 DEF Grown

\* ... and an abort, told apart up to one more than the cap.
LEMMA AbortGrows ==
    ASSUME NEW w \in Seen, NEW f \in ProbeFans, NEW b \in Grid, NEW x, x = Counted(w, f, b)
    PROVE  x \in Seen /\ Grown(w, x)
           /\ x[f][b].bad = IF w[f][b].bad > MaxAborts THEN w[f][b].bad ELSE w[f][b].bad + 1
<1> DEFINE n == IF w[f][b].bad > MaxAborts THEN w[f][b].bad ELSE w[f][b].bad + 1
           c == [w[f][b] EXCEPT !.bad = n]
<1>1. w[f][b] \in Cell /\ w[f][b].bad \in Nat
  BY DEF Seen, Cell
<1>2. n \in Nat /\ n >= w[f][b].bad
  BY <1>1
<1>8. x = Put(w, f, b, c)
  <2>1. x = [w EXCEPT ![f] = [w[f] EXCEPT ![b] = [w[f][b] EXCEPT !.bad = n]]]
    BY DEF Seen, Cell, Counted
  <2> QED BY <2>1 DEF Put
<1> HIDE DEF n
<1>4. c \in Cell /\ c.ok = w[f][b].ok /\ c.bad = n
  BY <1>1, <1>2 DEF Cell
<1> HIDE DEF c
<1>5. x \in Seen /\ \A g \in ProbeFans, d \in Grid : x[g][d] = IF g = f /\ d = b THEN c ELSE w[g][d]
  BY <1>8, <1>4, CellWritten
<1>6. ASSUME NEW g \in ProbeFans, NEW d \in Grid
      PROVE  (w[g][d].ok => x[g][d].ok) /\ w[g][d].bad <= x[g][d].bad
  <2>1. w[g][d].bad \in Nat
    BY DEF Seen, Cell
  <2> QED BY <1>2, <1>4, <1>5, <2>1
<1>7. x[f][b].bad = n
  BY <1>4, <1>5
<1> QED BY <1>5, <1>6, <1>7 DEF Grown, n

\* The window moves, or the older records stay and the newer ones grow.
LEMMA SeenStep ==
    ASSUME OppInv, SeenInv, [OppNext]_oVars
    PROVE  /\ SeenInv'
           /\ HalfWindow \/ (stale' = stale /\ Grown(fresh, fresh'))
<1>0. fresh \in Seen /\ stale \in Seen
  BY DEF SeenInv
<1>1. CASE UNCHANGED <<fresh, stale>>
  BY <1>0, <1>1, GrownSame DEF SeenInv
<1>2. CASE SchedulerTick \/ ReadBaseline \/ WriteGap \/ Sample \/ Cancelled \/ Restore
  BY <1>1, <1>2 DEF SchedulerTick, ReadBaseline, WriteGap, Sample, Cancelled, Restore
<1>3. CASE Record
  <2>1. fan \in ProbeFans /\ duty \in Grid /\ stale' = stale
    BY <1>3 DEF Record, OppInv
  <2>2. fresh' = Counted(fresh, fan, duty) \/ fresh' = Observed(fresh, fan, duty)
    BY <1>3 DEF Record, Counted, Observed
  <2>3. fresh' \in Seen /\ Grown(fresh, fresh')
    BY <1>0, <2>1, <2>2, ObservedGrows, AbortGrows
  <2> QED BY <1>0, <2>1, <2>3 DEF SeenInv
<1>4. ASSUME NEW f \in ProbeFans, ControllerDrives(f)
      PROVE  SeenInv' /\ stale' = stale /\ Grown(fresh, fresh')
  <2>1. stale' = stale /\ (fresh' = fresh \/ \E d \in Grid : fresh' = Observed(fresh, f, d))
    BY <1>4 DEF ControllerDrives, Observed
  <2>2. fresh' \in Seen /\ Grown(fresh, fresh')
    BY <1>0, <2>1, GrownSame, ObservedGrows
  <2> QED BY <1>0, <2>1, <2>2 DEF SeenInv
<1>5. CASE HalfWindow
  <2>1. Unseen \in Seen
    BY DEF Unseen, Seen, Cell
  <2> QED BY <1>0, <1>5, <2>1 DEF HalfWindow, SeenInv
<1>6. CASE (\E f \in ProbeFans : FanGoes(f)) \/ ConfigFlips \/ Shutdown
  BY <1>1, <1>6 DEF FanGoes, ConfigFlips, Shutdown
<1>7. CASE UNCHANGED oVars
  BY <1>1, <1>7 DEF oVars
<1> QED BY <1>2, <1>3, <1>4, <1>5, <1>6, <1>7 DEF OppNext, FireStep

\* What is known of a duty while the records grow.
LEMMA GrownGaps ==
    ASSUME SeenInv, SeenInv', stale' = stale, Grown(fresh, fresh'), NEW f \in ProbeFans
    PROVE  Gaps(f)' \subseteq Gaps(f)
<1> SUFFICES ASSUME NEW b \in Gaps(f)' PROVE b \in Gaps(f)
  OBVIOUS
<1>1. b \in Grid /\ b >= Floor[f] /\ ~Visited(f, b)' /\ ~Tired(f, b)'
  BY DEF Gaps
<1>2. /\ fresh[f][b].bad \in Nat /\ fresh'[f][b].bad \in Nat /\ stale[f][b].bad \in Nat
      /\ fresh[f][b].bad <= fresh'[f][b].bad /\ (fresh[f][b].ok => fresh'[f][b].ok)
  BY <1>1 DEF SeenInv, Seen, Cell, Grown
<1>3. ~Visited(f, b)
  BY <1>1, <1>2 DEF Visited
<1>4. ~Tired(f, b)
  BY <1>1, <1>2, OppAssumption DEF Tired, Bad
<1> QED BY <1>1, <1>3, <1>4 DEF Gaps

\* A record closes its gap, or counts.
LEMMA RecordCounts ==
    ASSUME OppInv, SeenInv, SeenInv', Record, NEW f \in ProbeFans, NEW b \in Grid, fan = f, duty = b,
           b \in Gaps(f)'
    PROVE  Bad(f, b)' = Bad(f, b) + 1 /\ Bad(f, b) + 1 < MaxAborts
<1>1. ~Visited(f, b)' /\ ~Tired(f, b)' /\ stale' = stale
  BY DEF Gaps, Record
<1>2. /\ fresh[f][b].bad \in Nat /\ fresh'[f][b].bad \in Nat /\ stale[f][b].bad \in Nat
      /\ fresh \in Seen
  BY DEF SeenInv, Seen, Cell
<1>3. CASE fresh' = Observed(fresh, f, b)
  <2>1. fresh'[f][b].ok
    BY <1>2, <1>3, ObservedGrows
  <2> QED BY <1>1, <2>1 DEF Visited
<1>4. CASE fresh' = Counted(fresh, f, b)
  <2>1. fresh'[f][b].bad = IF fresh[f][b].bad > MaxAborts THEN fresh[f][b].bad ELSE fresh[f][b].bad + 1
    BY <1>2, <1>4, AbortGrows
  <2>2. fresh'[f][b].bad + stale[f][b].bad < MaxAborts
    <3>1. ~(fresh'[f][b].bad + stale'[f][b].bad >= MaxAborts)
      BY <1>1 DEF Tired, Bad
    <3> QED BY <1>1, <1>2, <3>1, OppAssumption
  <2>3. fresh'[f][b].bad = fresh[f][b].bad + 1
    BY <1>2, <2>1, <2>2, OppAssumption
  <2>4. Bad(f, b)' = fresh'[f][b].bad + stale[f][b].bad /\ Bad(f, b) = fresh[f][b].bad + stale[f][b].bad
    BY <1>1 DEF Bad
  <2> QED BY <1>2, <2>2, <2>3, <2>4, OppAssumption
<1> QED BY <1>3, <1>4 DEF Record, Counted, Observed

\* What every step does to the gaps.
LEMMA GapsStep == OppInv /\ SeenInv /\ [OppNext]_oVars => GapsClose
<1> SUFFICES ASSUME OppInv, SeenInv, [OppNext]_oVars, NEW f \in ProbeFans
             PROVE  /\ ~HalfWindow => Gaps(f)' \subseteq Gaps(f)
                    /\ \A b \in Grid : Record /\ fan = f /\ duty = b =>
                          \/ b \notin Gaps(f)'
                          \/ Bad(f, b)' = Bad(f, b) + 1 /\ Bad(f, b) + 1 < MaxAborts
  BY DEF GapsClose
<1>1. SeenInv' /\ (HalfWindow \/ (stale' = stale /\ Grown(fresh, fresh')))
  BY SeenStep
<1>2. ~HalfWindow => Gaps(f)' \subseteq Gaps(f)
  BY <1>1, GrownGaps
<1>3. ASSUME NEW b \in Grid, Record, fan = f, duty = b, b \in Gaps(f)'
      PROVE  Bad(f, b)' = Bad(f, b) + 1 /\ Bad(f, b) + 1 < MaxAborts
  BY <1>1, <1>3, RecordCounts
<1> QED BY <1>2, <1>3

\* Within a window the gaps of a fan only close, whoever drives the fans and
\* however the probes end, and a duty is probed at most MaxAborts times: each
\* record observes it, or is one of fewer than MaxAborts aborts.  So a host that
\* lets the scheduler probe runs out of gaps.
THEOREM GapsAreNotReopened == OppSpec => GapsOnlyClose
<1>1. OppInit => OppInv /\ SeenInv
  <2>1. OppInit => SeenInv
    BY DEF OppInit, SeenInv, Unseen, Seen, Cell
  <2> QED BY <2>1, OppInvInit
<1>2. (OppInv /\ SeenInv) /\ [OppNext]_oVars => (OppInv /\ SeenInv)'
  BY OppInvStep, SeenStep
<1>3. (OppInv /\ SeenInv) /\ [OppNext]_oVars => [GapsClose]_oVars
  BY GapsStep
<1> QED BY <1>1, <1>2, <1>3, PTL DEF OppSpec, GapsOnlyClose

-----------------------------------------------------------------------------
(* The daemon composed of its parts implements each of them.               *)

\* A step of the daemon is a step of one part and of no other.
LEMMA LivePartsImplement == LiveParts => WizardSpec /\ OppSpec /\ CurveSpec
<1>1. LiveInit => WizardInit /\ OppInit /\ CurveInit
  BY DEF LiveInit
<1>2. [LiveNext]_liveVars => [WizardNext]_wizVars /\ [OppNext]_oVars /\ [CurveNext]_cVars
  BY DEF LiveNext, OnlyWizard, OnlyProber, OnlySink, liveVars
<1>3. LiveParts => LiveInit /\ [][LiveNext]_liveVars
  BY PTL DEF LiveParts
<1> QED BY <1>1, <1>2, <1>3, PTL DEF WizardSpec, OppSpec, CurveSpec

\* The daemon that is composed of them hands every fan over, and leaves no channel
\* between two curves.
THEOREM DaemonHandsOver == LiveParts => [](WizardIsSafe /\ ObeysOneCurve)
BY LivePartsImplement, WizardStaysSafe, CurveIsOne, PTL

\* In it, the state of every part keeps its types: a probe is of a fan there is at a
\* duty of its grid and not under its floor, the ranks of the last probes are a
\* permutation, nothing but "auto" and "manual" is ever written to pwm_enable, and
\* what is staged in a device is a set of its anchors.
THEOREM LivePartsAreTyped == LiveParts => []LivePartsTypeOK
<1>1. CurveInit => CurveInv /\ CurveFlags /\ CurvePoints
  BY CurveInvInit, CurveTypesInit
<1>2. CurveInv /\ CurveFlags /\ CurvePoints /\ [CurveNext]_cVars
      => CurveInv' /\ CurveFlags' /\ CurvePoints'
  BY CurveInvStep, CurveTypesStep
<1>3. CurveSpec => []CurveTypeOK
  BY <1>1, <1>2, CurveTypesHold, PTL DEF CurveSpec
<1>4. WizardSpec => []WizardTypeOK
  BY CheckpointInit, CheckpointStep, MachineInvInit, MachineInvStep, MachineIsTyped, PTL
     DEF WizardSpec
<1>5. OppSpec => []OppTypeOK
  BY OppInvInit, OppInvStep, OppIsTyped, PTL DEF OppSpec
<1>6. WizardTypeOK /\ OppTypeOK /\ CurveTypeOK => LivePartsTypeOK
  BY DEF LivePartsTypeOK
<1> QED BY <1>3, <1>4, <1>5, <1>6, LivePartsImplement, PTL

\* In it, a probe that ends puts back the duty it read.
THEOREM DaemonsProbesRestore ==
    ASSUME "inverted" \notin Polarities
    PROVE  LiveParts => ProbeRestores
BY LivePartsImplement, ProbesRestore, PTL
=============================================================================
