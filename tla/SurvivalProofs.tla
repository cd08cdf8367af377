---------------------------- MODULE SurvivalProofs ----------------------------
(***************************************************************************)
(* What outlasts a process, for every value of the constants: the envelope *)
(* probe's record and the duty it puts back, the state directory's         *)
(* content, the drivers that were installed and the observation log.       *)
(***************************************************************************)
EXTENDS SafetyProofs, WatchdogProofs

(* The envelope probe.                                                     *)

Record == [state : States, count : Nat, base : EnvDuty]

\* The record in memory is past C, whatever the file says.
Aborted == note.state \in {"aborted_C", "probing_D", "complete_D"}

EnvShape ==
    /\ reg \in EnvDuty /\ saved \in Record /\ note \in Record /\ base \in EnvDuty /\ goal \in EnvDuty
    /\ rung \in Nat \ {0} /\ held \subseteq Rung
    /\ epc \in {"check", "hold"} => rung \in Rung

\* Every duty that a probe will put back is one that a pass found.
BasesAreFound ==
    /\ epc = "start" => note = Blank /\ ~inC
    /\ inC => base \in found
    /\ epc \in {"step", "check", "hold", "ended", "aborting", "leaveC"} => inC
    /\ epc \in {"stepD", "holdD", "leaveD"} => goal \in found
    /\ saved.state # "none" => saved.base \in found
    /\ note.state # "none" => note.base \in found

\* The record in memory says where the probe stands.
NoteStands ==
    /\ saved.state = "none" => saved = Blank
    /\ epc \in {"step", "check", "hold", "ended"} => note.state = "probing"
    /\ epc = "aborting" => note.state = "aborted_C"
    /\ epc \in {"stepD", "holdD"} => note.state = "probing_D"

\* The steps before the one in hand were held, and so were those that the
\* record counts, but while an abort is on its way into it.
CountIsHeld ==
    ~strayed =>
        /\ epc \in {"step", "check", "hold"} => 1 .. rung - 1 \subseteq held
        /\ saved.state = "probing" => 1 .. saved.count \subseteq held
                                        \/ (epc # "off" /\ (epc = "ended" \/ Aborted))

EnvInv == EnvShape /\ BasesAreFound /\ NoteStands /\ CountIsHeld /\ EnvelopeIsSound

\* What the assumption says of the ladder.
LEMMA LadderShape ==
    /\ TopDuty \in Nat /\ Len(Ladder) \in Nat /\ Rung = 1 .. Len(Ladder)
    /\ \A i \in Rung : Ladder[i] \in EnvDuty
BY EnvelopeAssumption DEF Rung, EnvDuty

\* It holds at the start.
LEMMA EnvInitInv == EnvInit => EnvInv
<1> SUFFICES ASSUME EnvInit PROVE EnvInv
  OBVIOUS
<1>1. Blank \in Record /\ Blank.state = "none"
  BY LadderShape DEF Blank, Record, States, EnvDuty
<1>2. EnvShape
  BY <1>1, LadderShape DEF EnvInit, EnvShape, EnvDuty
<1> QED BY <1>1, <1>2 DEF EnvInit, EnvInv, BasesAreFound, NoteStands, CountIsHeld, EnvelopeIsSound,
    EnvelopeRestores, CompleteIsSwept

\* A record that is saved is the one in memory, or the file keeps the last one.
LEMMA SavesRecord ==
    ASSUME NEW rec \in Record, Saves(rec)
    PROVE  note' = rec /\ (saved' = rec \/ saved' = saved)
BY DEF Saves

\* A step of C keeps what is known of the bases, the counts and the record.
LEMMA CStep ==
    EnvInv /\ (BeginC \/ WriteC \/ ReadBackC \/ (\E hot \in BOOLEAN : HoldC(hot)) \/ AbortC \/ CompleteC) => EnvInv'
<1> SUFFICES ASSUME EnvInv,
                    BeginC \/ WriteC \/ ReadBackC \/ (\E hot \in BOOLEAN : HoldC(hot)) \/ AbortC \/ CompleteC
             PROVE  EnvInv'
  OBVIOUS
<1> USE DEF EnvInv
<1>1. CASE BeginC
  <2> DEFINE rec == [saved EXCEPT !.state = "probing", !.base = reg]
  <2>1. rec \in Record /\ rec.state = "probing" /\ rec.count = saved.count /\ rec.base = reg
    BY DEF EnvShape, Record, States
  <2>2. note' = rec /\ (saved' = rec \/ saved' = saved)
    BY <1>1, <2>1 DEF BeginC, Saves
  <2>3. /\ base' = reg /\ inC' /\ rung' = FirstStep /\ found' = found \cup {reg} /\ epc' = "step" /\ epc = "start"
        /\ ~strayed' => ~strayed /\ saved.state # "probing_D"
        /\ saved.state \notin {"complete_C", "complete_D", "aborted_C"}
        /\ UNCHANGED <<reg, goal, held>>
    BY <1>1 DEF BeginC
  <2> HIDE DEF rec
  <2>4. EnvShape'
    BY <2>1, <2>2, <2>3 DEF EnvShape, FirstStep, Record
  <2>5. BasesAreFound'
    BY <2>1, <2>2, <2>3 DEF BasesAreFound
  <2>6. NoteStands'
    BY <2>1, <2>2, <2>3 DEF NoteStands
  <2>7. ~strayed' => 1 .. rung' - 1 \subseteq held' /\ (saved.state = "probing" => 1 .. saved.count \subseteq held)
    <3> SUFFICES ASSUME ~strayed' 
                 PROVE  /\ 1 .. rung' - 1 \subseteq held'
                        /\ saved.state = "probing" => 1 .. saved.count \subseteq held
      OBVIOUS
    <3>1. ~strayed /\ saved.state # "probing_D" /\ ~Aborted
      BY <2>3 DEF BasesAreFound, Blank, Aborted
    <3>2. saved.count \in Nat
      BY DEF EnvShape, Record
    <3>3. CASE saved.state = "probing"
      <4>1. 1 .. saved.count \subseteq held
        BY <2>3, <3>1, <3>3 DEF CountIsHeld
      <4>2. rung' = saved.count + 1
        BY <2>3, <3>3 DEF FirstStep
      <4>3. rung' - 1 = saved.count
        BY <3>2, <4>2
      <4> QED BY <2>3, <4>1, <4>3
    <3>4. CASE saved.state # "probing"
      BY <2>3, <3>4 DEF FirstStep
    <3> QED BY <3>3, <3>4
  <2>8. ~strayed' /\ saved'.state = "probing" => 1 .. saved'.count \subseteq held'
    <3>1. saved.state = "probing" \/ saved.state = "probing_D" \/ (saved.state = "none" /\ saved = Blank)
      BY <2>3 DEF EnvShape, Record, States, NoteStands
    <3>2. CASE saved.state = "none"
      <4>1. saved'.state = "probing" => saved'.count = 0
        BY <2>1, <2>2, <3>1, <3>2 DEF Blank
      <4> QED BY <4>1
    <3>3. CASE saved.state # "none"
      BY <2>1, <2>2, <2>3, <2>7, <3>1, <3>3
    <3> QED BY <3>2, <3>3
  <2>9. CountIsHeld'
    BY <2>7, <2>8 DEF CountIsHeld
  <2>10. EnvelopeIsSound'
    BY <2>1, <2>2, <2>3 DEF EnvelopeIsSound, EnvelopeRestores, CompleteIsSwept
  <2> QED BY <2>4, <2>5, <2>6, <2>9, <2>10
<1>2. CASE WriteC
  <2>1. /\ epc = "step" /\ epc' \in {"check", "leaveC"} /\ reg' \in EnvDuty /\ rung \in Rung
        /\ UNCHANGED <<saved, note, base, inC, rung, goal, found, held, strayed>>
    <3>1. rung \in Rung
      BY <1>2, LadderShape DEF WriteC, EnvShape
    <3>2. reg' \in EnvDuty
      BY <1>2, <3>1, LadderShape DEF WriteC, StepWrite, EnvDuty, EnvShape
    <3> QED BY <1>2, <3>1, <3>2 DEF WriteC, StepWrite, pass, past
  <2> QED BY <2>1 DEF EnvShape, BasesAreFound, NoteStands, CountIsHeld, Aborted, EnvelopeIsSound,
      EnvelopeRestores, CompleteIsSwept
<1>3. CASE ReadBackC /\ epc' = "hold" /\ UNCHANGED <<saved, note>>
  BY <1>3 DEF ReadBackC, past, EnvShape, BasesAreFound, NoteStands, CountIsHeld, Aborted, EnvelopeIsSound,
      EnvelopeRestores, CompleteIsSwept
<1>4. CASE (ReadBackC /\ epc' = "aborting" /\ Saves([note EXCEPT !.state = "aborted_C"])) \/ AbortC
  <2> DEFINE rec == [note EXCEPT !.state = "aborted_C"]
  <2>1. rec \in Record /\ rec.state = "aborted_C" /\ rec.base = note.base
    BY DEF EnvShape, Record, States
  <2>2. note' = rec /\ (saved' = rec \/ saved' = saved)
    BY <1>4, <2>1 DEF AbortC, Saves
  <2> HIDE DEF rec
  <2>3. /\ epc \in {"check", "ended"} /\ epc' = "aborting"
        /\ UNCHANGED <<reg, base, inC, rung, goal, found, held, strayed>>
    BY <1>4 DEF ReadBackC, AbortC, past
  <2>4. note.state # "none"
    BY <2>3 DEF NoteStands
  <2> QED BY <2>1, <2>2, <2>3, <2>4 DEF EnvShape, BasesAreFound, NoteStands, CountIsHeld, Aborted, EnvelopeIsSound,
      EnvelopeRestores, CompleteIsSwept
<1>5. ASSUME NEW hot \in BOOLEAN, HoldC(hot) PROVE EnvInv'
  <2> DEFINE rec == [note EXCEPT !.count = rung]
  <2>1. rec \in Record /\ rec.state = "probing" /\ rec.base = note.base /\ rec.count = rung /\ rung \in Rung
    BY <1>5 DEF EnvShape, Record, NoteStands, HoldC
  <2>2. note' = rec /\ (saved' = rec \/ saved' = saved)
    BY <1>5 DEF HoldC, Saves
  <2> HIDE DEF rec
  <2>3. /\ epc = "hold" /\ UNCHANGED <<reg, base, inC, goal, found, strayed>>
        /\ \/ hot /\ held' = held /\ epc' = "ended" /\ rung' = rung
           \/ ~hot /\ held' = held \cup {rung} /\ epc' = "step" /\ rung' = rung + 1
    BY <1>5 DEF HoldC
  <2>4. note.state = "probing"
    BY <2>3 DEF NoteStands
  <2>5. EnvShape' /\ BasesAreFound' /\ NoteStands'
    <3>1. EnvShape'
      <4>1. rung' \in Nat \ {0}
        BY <2>3 DEF EnvShape
      <4>2. held' \subseteq Rung /\ epc' \in {"ended", "step"}
        BY <2>1, <2>3 DEF EnvShape
      <4>3. reg' \in EnvDuty /\ base' \in EnvDuty /\ goal' \in EnvDuty /\ note' \in Record /\ saved' \in Record
        BY <2>1, <2>2, <2>3 DEF EnvShape
      <4> QED BY <4>1, <4>2, <4>3 DEF EnvShape
    <3>2. BasesAreFound'
      BY <2>1, <2>2, <2>3, <2>4 DEF BasesAreFound
    <3>3. NoteStands'
      BY <2>1, <2>2, <2>3, <2>4 DEF NoteStands
    <3> QED BY <3>1, <3>2, <3>3
  <2>6. ~strayed /\ ~hot => 1 .. rung \subseteq held' /\ 1 .. rung' - 1 \subseteq held'
    <3> SUFFICES ASSUME ~strayed, ~hot PROVE 1 .. rung \subseteq held' /\ 1 .. rung' - 1 \subseteq held'
      OBVIOUS
    <3>1. 1 .. rung - 1 \subseteq held
      BY <2>3 DEF CountIsHeld
    <3> QED BY <2>1, <2>3, <3>1, LadderShape
  <2>7. ~strayed /\ saved.state = "probing" => 1 .. saved.count \subseteq held'
    BY <2>3, <2>4 DEF CountIsHeld, Aborted
  <2>8. CountIsHeld'
    BY <2>1, <2>2, <2>3, <2>6, <2>7 DEF CountIsHeld
  <2>9. EnvelopeIsSound'
    BY <2>1, <2>2, <2>3 DEF EnvelopeIsSound, EnvelopeRestores, CompleteIsSwept, EnvShape
  <2> QED BY <2>5, <2>8, <2>9
<1>6. CASE CompleteC
  <2> DEFINE rec == [note EXCEPT !.state = "complete_C"]
  <2>1. rec \in Record /\ rec.state = "complete_C" /\ rec.base = note.base
    BY DEF EnvShape, Record, States
  <2>2. note' = rec /\ (saved' = rec \/ saved' = saved)
    BY <1>6 DEF CompleteC, Saves
  <2> HIDE DEF rec
  <2>3. /\ epc = "step" /\ epc' = "leaveC" /\ rung > Len(Ladder)
        /\ UNCHANGED <<reg, base, inC, rung, goal, found, held, strayed>>
    BY <1>6 DEF CompleteC, past
  <2>4. note.state = "probing"
    BY <2>3 DEF NoteStands
  <2>5. EnvShape' /\ BasesAreFound' /\ NoteStands'
    BY <2>1, <2>2, <2>3, <2>4 DEF EnvShape, BasesAreFound, NoteStands
  <2>6. CountIsHeld'
    BY <2>1, <2>2, <2>3, <2>4 DEF CountIsHeld, Aborted
  <2>7. ~strayed => held = Rung
    <3> SUFFICES ASSUME ~strayed PROVE held = Rung
      OBVIOUS
    <3>1. 1 .. rung - 1 \subseteq held /\ held \subseteq Rung /\ rung \in Nat
      BY <2>3 DEF CountIsHeld, EnvShape
    <3>2. 1 .. Len(Ladder) \subseteq 1 .. rung - 1
      BY <2>3, <3>1, LadderShape
    <3> QED BY <3>1, <3>2, LadderShape
  <2>8. EnvelopeIsSound'
    BY <2>1, <2>2, <2>3, <2>7 DEF EnvelopeIsSound, EnvelopeRestores, CompleteIsSwept
  <2> QED BY <2>5, <2>6, <2>8
<1>7. ReadBackC => \/ epc' = "hold" /\ UNCHANGED <<saved, note>>
                   \/ epc' = "aborting" /\ Saves([note EXCEPT !.state = "aborted_C"])
  BY DEF ReadBackC
<1> QED BY <1>1, <1>2, <1>3, <1>4, <1>5, <1>6, <1>7

\* So does D's way in, for a baseline that a pass found.
LEMMA EntersStep ==
    ASSUME EnvInv, NEW d \in EnvDuty, EntersD(d), d \in found',
           epc = "aborting" \/ (epc = "start" /\ saved.state = "aborted_C"), found \subseteq found',
           UNCHANGED <<reg, base, inC, held, strayed>>
    PROVE  EnvInv'
<1> USE DEF EnvInv
<1> DEFINE rec == [state |-> "probing_D", count |-> 0, base |-> d]
<1>1. rec \in Record /\ rec.state = "probing_D" /\ rec.base = d
  BY DEF Record, States
<1>2. \/ epc' = "stepD" /\ note' = rec /\ (saved' = rec \/ saved' = saved)
      \/ epc' \in {"leaveC", "over"} /\ (epc' = "leaveC" <=> inC) /\ UNCHANGED <<saved, note>>
  BY DEF EntersD, Saves
<1>3. goal' = d /\ rung' = 1
  BY DEF EntersD
<1> HIDE DEF rec
<1>4. inC \/ note = Blank
  BY DEF BasesAreFound
<1>5. EnvShape' /\ BasesAreFound' /\ NoteStands'
  BY <1>1, <1>2, <1>3 DEF EnvShape, BasesAreFound, NoteStands
<1>6. CountIsHeld'
  BY <1>1, <1>2 DEF CountIsHeld, Aborted, NoteStands
<1>7. EnvelopeIsSound'
  BY <1>1, <1>2, <1>4 DEF EnvelopeIsSound, EnvelopeRestores, CompleteIsSwept
<1> QED BY <1>5, <1>6, <1>7

\* A step of D keeps it.
LEMMA DStep ==
    EnvInv /\ (ResumeD \/ FallBack \/ SkipD \/ WriteD \/ HoldD \/ CompleteD) => EnvInv'
<1> SUFFICES ASSUME EnvInv, ResumeD \/ FallBack \/ SkipD \/ WriteD \/ HoldD \/ CompleteD PROVE EnvInv'
  OBVIOUS
<1> USE DEF EnvInv
<1>1. CASE ResumeD
  <2>1. saved.base \in EnvDuty /\ saved.base \in found
    BY <1>1 DEF ResumeD, EnvShape, Record, BasesAreFound
  <2> QED BY <1>1, <2>1, EntersStep DEF ResumeD
<1>2. CASE FallBack
  <2>1. base \in EnvDuty /\ base \in found
    BY <1>2 DEF FallBack, EnvShape, BasesAreFound
  <2> QED BY <1>2, <2>1, EntersStep DEF FallBack, past
<1>3. CASE SkipD \/ WriteD
  <2>1. reg' \in EnvDuty
    BY <1>3, LadderShape DEF SkipD, WriteD, StepWrite, EnvDuty, EnvShape
  <2>2. /\ epc = "stepD" /\ epc' \in {"stepD", "holdD", "leaveD"} /\ rung' \in Nat \ {0}
        /\ UNCHANGED <<saved, note, base, inC, goal, found, held, strayed>>
    BY <1>3 DEF SkipD, WriteD, StepWrite, EnvShape, pass, past
  <2> QED BY <2>1, <2>2 DEF EnvShape, BasesAreFound, NoteStands, CountIsHeld, Aborted, EnvelopeIsSound,
      EnvelopeRestores, CompleteIsSwept
<1>4. CASE HoldD \/ CompleteD
  <2>1. /\ epc \in {"stepD", "holdD"} /\ epc' \in {"stepD", "leaveD"} /\ rung' \in Nat \ {0}
        /\ (epc' = "stepD" <=> HoldD)
        /\ UNCHANGED <<reg, base, inC, goal, found, held, strayed>>
    BY <1>4 DEF HoldD, CompleteD, EnvShape, past
  <2>2. PICK rec \in Record : /\ Saves(rec) /\ rec.state \in {"probing_D", "complete_D"} /\ rec.base = note.base
                             /\ (epc' = "stepD" => rec.state = "probing_D")
    <3>1. note \in Record /\ note.state = "probing_D"
      BY <2>1 DEF EnvShape, NoteStands
    <3>2. CASE HoldD
      <4> DEFINE rec == [note EXCEPT !.count = @ + 1]
      <4>1. rec \in Record /\ rec.state = "probing_D" /\ rec.base = note.base
        BY <3>1 DEF Record
      <4> QED BY <3>2, <4>1 DEF HoldD
    <3>3. CASE CompleteD
      <4> DEFINE rec == [note EXCEPT !.state = "complete_D"]
      <4>1. rec \in Record /\ rec.state = "complete_D" /\ rec.base = note.base
        BY <3>1 DEF Record, States
      <4> QED BY <3>3, <4>1 DEF CompleteD
    <3> QED BY <1>4, <3>2, <3>3
  <2>3. note' = rec /\ (saved' = rec \/ saved' = saved)
    BY <2>2 DEF Saves
  <2>4. note.state = "probing_D"
    BY <2>1 DEF NoteStands
  <2>5. EnvShape' /\ BasesAreFound' /\ NoteStands'
    BY <2>1, <2>2, <2>3, <2>4 DEF EnvShape, BasesAreFound, NoteStands
  <2>6. CountIsHeld' /\ EnvelopeIsSound'
    BY <2>1, <2>2, <2>3, <2>4 DEF CountIsHeld, Aborted, EnvelopeIsSound, EnvelopeRestores, CompleteIsSwept
  <2> QED BY <2>5, <2>6
<1> QED BY <1>1, <1>2, <1>3, <1>4

\* ... and whatever begins, ends or disturbs a pass.
LEMMA LifeStep ==
    EnvInv /\ (LaunchProbe \/ SkipComplete \/ NoBaseline \/ Cancelled \/ LeaveD \/ LeaveC \/ Contest \/ EndOfLife)
      => EnvInv'
<1> SUFFICES ASSUME EnvInv,
                    LaunchProbe \/ SkipComplete \/ NoBaseline \/ Cancelled \/ LeaveD \/ LeaveC \/ Contest \/ EndOfLife
             PROVE  EnvInv'
  OBVIOUS
<1> USE DEF EnvInv
<1>1. UNCHANGED <<saved, base, goal, found, held>>
  BY DEF LaunchProbe, SkipComplete, NoBaseline, Cancelled, LeaveD, LeaveC, Contest, EndOfLife, pass, past
<1>2. CASE LaunchProbe
  <2>1. Blank \in Record /\ Blank.state = "none"
    BY LadderShape DEF Blank, Record, States, EnvDuty
  <2>2. epc = "off" /\ epc' = "start" /\ note' = Blank /\ ~inC' /\ rung' = 1 /\ UNCHANGED <<reg, strayed>>
    BY <1>2 DEF LaunchProbe, past
  <2> QED BY <1>1, <2>1, <2>2 DEF EnvShape, BasesAreFound, NoteStands, CountIsHeld, EnvelopeIsSound,
      EnvelopeRestores, CompleteIsSwept
<1>3. CASE LeaveD \/ LeaveC
  <2>1. /\ reg' \in found /\ reg' \in EnvDuty /\ epc' \in {"leaveC", "over"} /\ epc \in {"leaveD", "leaveC"}
        /\ (inC' => inC) /\ (epc' = "leaveC" => inC') /\ UNCHANGED <<note, rung, strayed>>
    BY <1>3 DEF LeaveD, LeaveC, BasesAreFound, EnvShape, pass, past
  <2> QED BY <1>1, <2>1 DEF EnvShape, BasesAreFound, NoteStands, CountIsHeld, Aborted, EnvelopeIsSound,
      EnvelopeRestores, CompleteIsSwept
<1>4. CASE SkipComplete \/ NoBaseline
  <2>1. epc = "start" /\ epc' = "over" /\ UNCHANGED <<reg, note, inC, rung, strayed>>
    BY <1>4 DEF SkipComplete, NoBaseline, pass, past
  <2> QED BY <1>1, <2>1 DEF EnvShape, BasesAreFound, NoteStands, CountIsHeld, Aborted, EnvelopeIsSound,
      EnvelopeRestores, CompleteIsSwept
<1>5. CASE Cancelled
  <2>1. /\ epc \in {"step", "hold", "stepD", "holdD"}
        /\ epc' = (IF epc \in {"step", "hold"} THEN "leaveC" ELSE "leaveD")
        /\ UNCHANGED <<reg, note, inC, rung, strayed>>
    BY <1>5 DEF Cancelled, pass, past
  <2> QED BY <1>1, <2>1 DEF EnvShape, BasesAreFound, NoteStands, CountIsHeld, Aborted, EnvelopeIsSound,
      EnvelopeRestores, CompleteIsSwept
<1>6. CASE Contest
  <2>1. /\ epc \notin {"off", "over"} /\ reg' \in EnvDuty /\ UNCHANGED <<epc, note, inC, rung, strayed>>
    BY <1>6 DEF Contest, pass, past
  <2> QED BY <1>1, <2>1 DEF EnvShape, BasesAreFound, NoteStands, CountIsHeld, Aborted, EnvelopeIsSound,
      EnvelopeRestores, CompleteIsSwept
<1>7. CASE EndOfLife
  <2>1. /\ epc' = "off" /\ UNCHANGED <<reg, note, inC, rung>>
        /\ ~strayed' => ~strayed /\ epc # "ended" /\ ~(Aborted /\ saved.state = "probing")
    BY <1>7 DEF EndOfLife, pass, Aborted
  <2> QED BY <1>1, <2>1 DEF EnvShape, BasesAreFound, NoteStands, CountIsHeld, EnvelopeIsSound,
      EnvelopeRestores, CompleteIsSwept
<1> QED BY <1>2, <1>3, <1>4, <1>5, <1>6, <1>7

\* So does every step of the envelope probe.
LEMMA EnvStepInv == EnvInv /\ [EnvNext]_eVars => EnvInv'
<1> SUFFICES ASSUME EnvInv, [EnvNext]_eVars PROVE EnvInv'
  OBVIOUS
<1>1. CASE UNCHANGED eVars
  BY <1>1 DEF eVars, EnvInv, EnvShape, BasesAreFound, NoteStands, CountIsHeld, Aborted, EnvelopeIsSound,
     EnvelopeRestores, CompleteIsSwept
<1>2. CASE EnvNext
  BY <1>2, CStep, DStep, LifeStep DEF EnvNext, EnvStep
<1> QED BY <1>1, <1>2

-----------------------------------------------------------------------------
(* The state directory: one owner, and what it was told was written.       *)

\* The steps of a change between its start and its answer.
Changing == {"saving", "renamed", "moded"}

\* What is not older than what was promised.
Covers(d) == d.a >= promised.a /\ d.alone >= promised.alone

\* All that is, or can become, the content of the store is data whose pairs
\* are whole; a change that is under way is the only one that remembers.
WholeInv ==
    /\ file \in Data /\ lasting \subseteq Data
    /\ \A d \in lasting \cup {file} : d.a = d.b
    /\ \A p \in Starters : kv[p].a = kv[p].b
    /\ \A p \in Starters : \A d \in prev[p] : d.a = d.b
    /\ \A p \in Starters : prev[p] # {} => proc[p] \in Changing

\* While no two processes were inside AcquirePID at once: one process is alive
\* at most, the file names it once it holds the directory, and neither the
\* files nor its memory are older than what was promised.
SoleInv ==
    /\ \A p, q \in Starters : Alive(p) /\ Alive(q) => p = q
    /\ \A p \in Starters : Holds(p) => pid = p
    /\ \A d \in lasting \cup {file} : Covers(d)
    /\ \A p \in Starters : proc[p] \in Running => Covers(kv[p]) /\ \A d \in prev[p] : Covers(d)
    /\ \A p \in Starters : proc[p] \in {"renamed", "moded"} => file = kv[p]

StoreInv == StoreTypeOK /\ WholeInv /\ (~mingled => SoleInv)

\* One more in each key stays in the range.
LEMMA Grown ==
    ASSUME NEW d \in Data
    PROVE  /\ d.alone < MaxValue => /\ [d EXCEPT !.alone = @ + 1] \in Data
                                    /\ [d EXCEPT !.alone = @ + 1].a = d.a
                                    /\ [d EXCEPT !.alone = @ + 1].b = d.b
                                    /\ [d EXCEPT !.alone = @ + 1].alone = d.alone + 1
           /\ d.a = d.b /\ d.a < MaxValue => /\ Paired(d) \in Data
                                             /\ Paired(d).a = d.a + 1 /\ Paired(d).b = d.b + 1
                                             /\ Paired(d).alone = d.alone
<1>1. MaxValue \in Nat
  BY StoreAssumption
<1>2. d = [a |-> d.a, b |-> d.b, alone |-> d.alone] /\ {d.a, d.b, d.alone} \subseteq 0 .. MaxValue
  BY DEF Data
<1>3. [d EXCEPT !.alone = @ + 1] = [a |-> d.a, b |-> d.b, alone |-> d.alone + 1]
  BY <1>2
<1>4. Paired(d) = [a |-> d.a + 1, b |-> d.b + 1, alone |-> d.alone]
  <2> DEFINE one == [d EXCEPT !.a = @ + 1]
  <2>1. Paired(d) = [one EXCEPT !.b = @ + 1]
    BY DEF Paired
  <2>2. one = [a |-> d.a + 1, b |-> d.b, alone |-> d.alone]
    BY <1>2
  <2> HIDE DEF one
  <2> QED BY <2>1, <2>2
<1>5. d.alone < MaxValue => [d EXCEPT !.alone = @ + 1] \in Data
  BY <1>1, <1>2, <1>3 DEF Data
<1>6. d.a = d.b /\ d.a < MaxValue => Paired(d) \in Data
  BY <1>1, <1>2, <1>4 DEF Data
<1> QED BY <1>3, <1>4, <1>5, <1>6

\* The directory starts empty and unowned.
LEMMA StoreInitInv == StoreInit => StoreInv
<1> SUFFICES ASSUME StoreInit PROVE StoreInv
  OBVIOUS
<1>1. Empty \in Data /\ Empty.a = 0 /\ Empty.b = 0 /\ Empty.alone = 0
  BY StoreAssumption DEF Data, Empty
<1>2. StoreTypeOK
  <2>1. kills \in 0 .. MaxKills /\ storeFaults \in 0 .. MaxStoreFaults
    BY StoreAssumption DEF StoreInit
  <2>2. file \in Data /\ lasting \subseteq Data /\ lasting # {} /\ promised \in Data /\ kv \in [Starters -> Data]
    BY <1>1 DEF StoreInit
  <2> QED BY <2>1, <2>2 DEF StoreInit, StoreTypeOK
<1>3. WholeInv
  BY <1>1 DEF StoreInit, WholeInv
<1>4. SoleInv
  BY <1>1 DEF StoreInit, SoleInv, Alive, Holds, Running, Covers
<1> QED BY <1>2, <1>3, <1>4 DEF StoreInv

\* The process that holds the directory, or is about to, changes nothing else.
LEMMA StoreStep == StoreInv /\ [StoreNext]_ssVars => StoreInv'
<1> SUFFICES ASSUME StoreInv, [StoreNext]_ssVars PROVE StoreInv'
  OBVIOUS
<1>1. /\ StoreTypeOK /\ WholeInv /\ (~mingled => SoleInv)
      /\ kv \in [Starters -> Data] /\ prev \in [Starters -> SUBSET Data]
      /\ proc \in [Starters -> {"off", "stale", "claim", "owner"} \cup Running]
      /\ MaxValue \in Nat /\ MaxKills \in Nat /\ MaxStoreFaults \in Nat
      /\ kills \in 0 .. MaxKills /\ storeFaults \in 0 .. MaxStoreFaults
  BY StoreAssumption DEF StoreInv, StoreTypeOK
<1> USE DEF At
<1>2. ASSUME NEW p \in Starters, ReadPid(p) PROVE StoreInv'
  <2>1. StoreTypeOK'
    BY <1>1, <1>2 DEF ReadPid, StoreTypeOK
  <2>2. WholeInv'
    BY <1>1, <1>2 DEF ReadPid, WholeInv, Changing
  <2>3. ASSUME ~mingled' PROVE SoleInv'
    <3>1. ~mingled /\ \A q \in Starters : ~Starting(q)
      BY <1>2, <2>3 DEF ReadPid
    <3>2. \A q \in Starters : ~Holds(q)
      <4>1. \A q \in Starters : Holds(q) => pid = q /\ q # NoPid
        BY <1>1, <3>1, StoreAssumption DEF SoleInv, NoPid
      <4> QED BY <1>2, <4>1 DEF ReadPid, Owned
    <3>3. \A q \in Starters : ~Alive(q)
      BY <1>1, <3>1, <3>2 DEF Alive, Starting, Holds
    <3>4. proc'[p] \in {"stale", "claim"} /\ \A q \in Starters \ {p} : proc'[q] = "off"
      BY <1>1, <1>2, <3>3 DEF ReadPid, Alive
    <3> QED BY <1>1, <1>2, <3>1, <3>4 DEF ReadPid, SoleInv, Alive, Holds, Running, Covers
  <2> QED BY <2>1, <2>2, <2>3 DEF StoreInv
<1>3. ASSUME NEW p \in Starters, RemoveStale(p) PROVE StoreInv'
  <2>1. /\ proc[p] = "stale" /\ pid' = NoPid /\ proc' = [proc EXCEPT ![p] = "claim"]
        /\ UNCHANGED <<version, kv, prev, file, lasting, promised, mingled, kills, storeFaults>>
    BY <1>3 DEF RemoveStale
  <2>2. StoreTypeOK' /\ WholeInv'
    BY <1>1, <2>1 DEF StoreTypeOK, WholeInv, Changing
  <2>3. ASSUME ~mingled' PROVE SoleInv'
    <3>1. SoleInv /\ \A q \in Starters \ {p} : proc[q] = "off"
      BY <1>1, <2>1, <2>3 DEF SoleInv, Alive
    <3> QED BY <1>1, <2>1, <3>1 DEF SoleInv, Alive, Holds, Running, Covers
  <2> QED BY <2>2, <2>3 DEF StoreInv
<1>4. ASSUME NEW p \in Starters, WritePid(p) PROVE StoreInv'
  <2>1. /\ proc[p] = "claim" /\ pid' = p /\ proc' = [proc EXCEPT ![p] = "owner"]
        /\ UNCHANGED <<version, kv, prev, file, lasting, promised, mingled, kills, storeFaults>>
    BY <1>4 DEF WritePid
  <2>2. StoreTypeOK' /\ WholeInv'
    BY <1>1, <2>1 DEF StoreTypeOK, WholeInv, Changing
  <2>3. ASSUME ~mingled' PROVE SoleInv'
    <3>1. SoleInv /\ \A q \in Starters \ {p} : proc[q] = "off"
      BY <1>1, <2>1, <2>3 DEF SoleInv, Alive
    <3> QED BY <1>1, <2>1, <3>1 DEF SoleInv, Alive, Holds, Running, Covers
  <2> QED BY <2>2, <2>3 DEF StoreInv
<1>5. ASSUME NEW p \in Starters, OpenState(p) PROVE StoreInv'
  <2>1. /\ proc[p] = "owner" /\ UNCHANGED <<prev, file, lasting, promised, mingled, kills, storeFaults>>
        /\ \/ /\ proc' = [proc EXCEPT ![p] = "off"] /\ pid' = NoPid /\ UNCHANGED <<version, kv>>
           \/ /\ proc' = [proc EXCEPT ![p] = "open"] /\ version' = CurrentVersion
              /\ kv' = [kv EXCEPT ![p] = file] /\ UNCHANGED pid
    BY <1>5 DEF OpenState
  <2>2. StoreTypeOK'
    BY <1>1, <2>1 DEF StoreTypeOK, WholeInv, CurrentVersion, Running
  <2>3. WholeInv'
    BY <1>1, <2>1 DEF WholeInv, Changing
  <2>4. ASSUME ~mingled' PROVE SoleInv'
    <3>1. SoleInv /\ (\A q \in Starters \ {p} : proc[q] = "off") /\ pid = p /\ prev[p] = {}
      BY <1>1, <2>1, <2>4 DEF SoleInv, Alive, Holds, WholeInv, Changing
    <3> QED BY <1>1, <2>1, <3>1 DEF SoleInv, Alive, Holds, Running, Covers
  <2> QED BY <2>2, <2>3, <2>4 DEF StoreInv
<1>6. ASSUME NEW p \in Starters, CloseState(p) PROVE StoreInv'
  <2>1. /\ proc[p] = "open" /\ pid' = NoPid /\ proc' = [proc EXCEPT ![p] = "off"]
        /\ UNCHANGED <<version, kv, prev, file, lasting, promised, mingled, kills, storeFaults>>
    BY <1>6 DEF CloseState
  <2>2. StoreTypeOK' /\ WholeInv'
    BY <1>1, <2>1 DEF StoreTypeOK, WholeInv, Changing
  <2>3. ASSUME ~mingled' PROVE SoleInv'
    <3>1. SoleInv /\ \A q \in Starters \ {p} : proc[q] = "off"
      BY <1>1, <2>1, <2>3 DEF SoleInv, Alive
    <3> QED BY <1>1, <2>1, <3>1 DEF SoleInv, Alive, Holds, Running, Covers
  <2> QED BY <2>2, <2>3 DEF StoreInv
<1>7. ASSUME NEW p \in Starters, SetAlone(p) \/ Commit(p) PROVE StoreInv'
  <2>1. /\ proc[p] = "open" /\ proc' = [proc EXCEPT ![p] = "saving"]
        /\ UNCHANGED <<version, pid, file, lasting, promised, mingled, kills, storeFaults>>
        /\ prev' = prev \/ prev' = [prev EXCEPT ![p] = {kv[p]}]
    BY <1>7 DEF SetAlone, Commit
  <2>2. PICK d \in Data : /\ kv' = [kv EXCEPT ![p] = d] /\ d.a = d.b
                          /\ d.a >= kv[p].a /\ d.alone >= kv[p].alone
    <3>1. kv[p] \in Data /\ kv[p].a = kv[p].b
      BY <1>1 DEF WholeInv
    <3>2. CASE SetAlone(p)
      <4>1. kv' = [kv EXCEPT ![p] = [kv[p] EXCEPT !.alone = @ + 1]] /\ kv[p].alone < MaxValue
        BY <3>2 DEF SetAlone
      <4> DEFINE d == [kv[p] EXCEPT !.alone = @ + 1]
      <4>2. d \in Data /\ d.a = kv[p].a /\ d.b = kv[p].b /\ d.alone = kv[p].alone + 1
        BY <3>1, <4>1, Grown
      <4>3. d.a >= kv[p].a /\ d.alone >= kv[p].alone /\ d.a = d.b
        <5>1. kv[p].a \in Int /\ kv[p].alone \in Int
          BY <3>1 DEF Data
        <5> HIDE DEF d
        <5> QED BY <3>1, <4>2, <5>1
      <4> HIDE DEF d
      <4> QED BY <4>1, <4>2, <4>3 DEF d
    <3>3. CASE Commit(p)
      <4>1. kv' = [kv EXCEPT ![p] = Paired(kv[p])] /\ kv[p].a < MaxValue
        BY <3>3 DEF Commit
      <4>2. Paired(kv[p]) \in Data /\ Paired(kv[p]).a = kv[p].a + 1 /\ Paired(kv[p]).b = kv[p].b + 1
            /\ Paired(kv[p]).alone = kv[p].alone
        BY <3>1, <4>1, Grown
      <4>3. kv[p].a \in Int /\ kv[p].alone \in Int
        BY <3>1 DEF Data
      <4> DEFINE d == Paired(kv[p])
      <4>4. d.a = d.b /\ d.a >= kv[p].a /\ d.alone >= kv[p].alone
        <5> HIDE DEF d
        <5> QED BY <3>1, <4>2, <4>3 DEF d
      <4>5. d \in Data /\ kv' = [kv EXCEPT ![p] = d]
        BY <4>1, <4>2
      <4> HIDE DEF d
      <4> QED BY <4>4, <4>5
    <3> QED BY <1>7, <3>2, <3>3
  <2>3. StoreTypeOK'
    BY <1>1, <2>1, <2>2 DEF StoreTypeOK, Running
  <2>4. WholeInv'
    BY <1>1, <2>1, <2>2 DEF WholeInv, Changing
  <2>5. ASSUME ~mingled' PROVE SoleInv'
    <3>1. SoleInv /\ (\A q \in Starters \ {p} : proc[q] = "off") /\ pid = p
      BY <1>1, <2>1, <2>5 DEF SoleInv, Alive, Holds, Running
    <3>2. Covers(kv[p]) /\ kv[p] \in Data /\ promised \in Data
      BY <1>1, <2>1, <3>1 DEF SoleInv, Running, StoreTypeOK
    <3>3. Covers(d)
      BY <2>2, <3>2 DEF Covers, Data
    <3> QED BY <1>1, <2>1, <2>2, <3>1, <3>2, <3>3 DEF SoleInv, Alive, Holds, Running, Covers
  <2> QED BY <2>3, <2>4, <2>5 DEF StoreInv
<1>8. ASSUME NEW p \in Starters, GiveUp(p) PROVE StoreInv'
  <2>1. kv' = kv /\ UNCHANGED <<version, pid, proc, prev, file, lasting, promised, mingled, kills>>
        /\ storeFaults' \in 0 .. MaxStoreFaults
    <3>1. kv' = [kv EXCEPT ![p] = kv[p]]
      BY <1>8 DEF GiveUp, AfterGivingUp
    <3>2. kv' = kv
      BY <1>1, <3>1
    <3> QED BY <1>1, <1>8, <3>2 DEF GiveUp, StoreFault
  <2> QED BY <1>1, <2>1 DEF StoreInv, StoreTypeOK, WholeInv, SoleInv, Alive, Holds, Covers
<1>9. ASSUME NEW p \in Starters, RenameTemp(p) PROVE StoreInv'
  <2>1. /\ proc[p] = "saving" /\ proc' = [proc EXCEPT ![p] = "renamed"]
        /\ file' = kv[p] /\ lasting' = lasting \cup {kv[p]}
        /\ UNCHANGED <<version, pid, kv, prev, promised, mingled, kills, storeFaults>>
    BY <1>9 DEF RenameTemp, Remains
  <2>2. StoreTypeOK'
    BY <1>1, <2>1 DEF StoreTypeOK, Running
  <2>3. WholeInv'
    BY <1>1, <2>1 DEF WholeInv, Changing
  <2>4. ASSUME ~mingled' PROVE SoleInv'
    <3>1. SoleInv /\ (\A q \in Starters \ {p} : proc[q] = "off") /\ Covers(kv[p])
      BY <1>1, <2>1, <2>4 DEF SoleInv, Alive, Running
    <3> QED BY <1>1, <2>1, <3>1 DEF SoleInv, Alive, Holds, Running, Covers
  <2> QED BY <2>2, <2>3, <2>4 DEF StoreInv
<1>10. ASSUME NEW p \in Starters, WriteFails(p) \/ ChmodFails(p) PROVE StoreInv'
  <2>1. /\ proc[p] \in {"saving", "renamed"} /\ proc' = [proc EXCEPT ![p] = "open"]
        /\ prev' = [prev EXCEPT ![p] = {}]
        /\ kv' = [kv EXCEPT ![p] = IF prev[p] = {} THEN kv[p] ELSE CHOOSE d \in prev[p] : TRUE]
        /\ UNCHANGED <<version, pid, file, lasting, promised, mingled, kills>>
        /\ storeFaults' \in 0 .. MaxStoreFaults
    BY <1>1, <1>10 DEF WriteFails, ChmodFails, RolledBack, StoreFault
  <2>2. PICK d \in {kv[p]} \cup prev[p] : kv' = [kv EXCEPT ![p] = d]
    BY <2>1
  <2>3. d \in Data /\ d.a = d.b
    BY <1>1, <2>2 DEF WholeInv
  <2>4. StoreTypeOK'
    BY <1>1, <2>1, <2>2, <2>3 DEF StoreTypeOK, Running
  <2>5. WholeInv'
    BY <1>1, <2>1, <2>2, <2>3 DEF WholeInv, Changing
  <2>6. ASSUME ~mingled' PROVE SoleInv'
    <3>1. SoleInv /\ (\A q \in Starters \ {p} : proc[q] = "off") /\ Covers(d)
      BY <1>1, <2>1, <2>2, <2>6 DEF SoleInv, Alive, Running
    <3> QED BY <1>1, <2>1, <2>2, <3>1 DEF SoleInv, Alive, Holds, Running, Covers
  <2> QED BY <2>4, <2>5, <2>6 DEF StoreInv
<1>11. ASSUME NEW p \in Starters, Chmod(p) PROVE StoreInv'
  <2>1. /\ proc[p] = "renamed" /\ proc' = [proc EXCEPT ![p] = "moded"]
        /\ UNCHANGED <<version, pid, kv, prev, file, lasting, promised, mingled, kills, storeFaults>>
    BY <1>11 DEF Chmod
  <2>2. StoreTypeOK' /\ WholeInv'
    BY <1>1, <2>1 DEF StoreTypeOK, Running, WholeInv, Changing
  <2>3. SoleInv => SoleInv'
    BY <1>1, <2>1 DEF SoleInv, Alive, Holds, Running, Covers
  <2> QED BY <1>1, <2>1, <2>2, <2>3 DEF StoreInv
<1>12. ASSUME NEW p \in Starters, Acknowledge(p) PROVE StoreInv'
  <2>1. /\ proc[p] = "moded" /\ proc' = [proc EXCEPT ![p] = "open"]
        /\ lasting' = {file} /\ promised' = kv[p] /\ prev' = [prev EXCEPT ![p] = {}]
        /\ UNCHANGED <<version, pid, kv, file, mingled, kills, storeFaults>>
    BY <1>12 DEF Acknowledge, Synced
  <2>2. StoreTypeOK'
    BY <1>1, <2>1 DEF StoreTypeOK, Running, WholeInv
  <2>3. WholeInv'
    BY <1>1, <2>1 DEF WholeInv, Changing
  <2>4. ASSUME ~mingled' PROVE SoleInv'
    <3>1. SoleInv /\ (\A q \in Starters \ {p} : proc[q] = "off") /\ file = kv[p] /\ kv[p] \in Data
      BY <1>1, <2>1, <2>4 DEF SoleInv, Alive
    <3>2. kv[p].a >= kv[p].a /\ kv[p].alone >= kv[p].alone
      BY <3>1 DEF Data
    <3> QED BY <1>1, <2>1, <3>1, <3>2 DEF SoleInv, Alive, Holds, Running, Covers
  <2> QED BY <2>2, <2>3, <2>4 DEF StoreInv
<1>13. ASSUME NEW p \in Starters, StoreHolderDies(p) PROVE StoreInv'
  <2>1. /\ proc' = [proc EXCEPT ![p] = "off"] /\ prev' = [prev EXCEPT ![p] = {}]
        /\ UNCHANGED <<version, pid, kv, file, lasting, promised, mingled, storeFaults>>
        /\ kills' \in 0 .. MaxKills
    BY <1>1, <1>13 DEF StoreHolderDies, Killed
  <2>2. StoreTypeOK' /\ WholeInv'
    BY <1>1, <2>1 DEF StoreTypeOK, WholeInv, Changing
  <2>3. SoleInv => SoleInv'
    BY <1>1, <2>1 DEF SoleInv, Alive, Holds, Running, Covers
  <2> QED BY <1>1, <2>1, <2>2, <2>3 DEF StoreInv
<1>14. CASE PowerFails
  <2>1. /\ proc' = [p \in Starters |-> "off"] /\ prev' = [p \in Starters |-> {}]
        /\ file' \in lasting /\ lasting' = {file'}
        /\ UNCHANGED <<version, pid, kv, promised, mingled, storeFaults>>
        /\ kills' \in 0 .. MaxKills
    BY <1>1, <1>14 DEF PowerFails, Killed
  <2>2. StoreTypeOK'
    BY <1>1, <2>1 DEF StoreTypeOK
  <2>3. WholeInv'
    BY <1>1, <2>1 DEF WholeInv
  <2>4. SoleInv => SoleInv'
    BY <1>1, <2>1 DEF SoleInv, Alive, Holds, Running, Covers
  <2> QED BY <1>1, <2>1, <2>2, <2>3, <2>4 DEF StoreInv
<1>15. CASE UNCHANGED ssVars
  BY <1>1, <1>15 DEF ssVars, StoreInv, StoreTypeOK, WholeInv, SoleInv, Alive, Holds, Covers
<1> QED
  BY <1>2, <1>3, <1>4, <1>5, <1>6, <1>7, <1>8, <1>9, <1>10, <1>11, <1>12, <1>13, <1>14, <1>15
     DEF StoreNext

\* What the invariant says covers what is promised of the directory.
LEMMA StoreInvSound == StoreInv => StoreIsSound
<1> SUFFICES ASSUME StoreInv PROVE StoreIsSound
  OBVIOUS
<1>1. OneOwner
  <2> DEFINE H == {p \in Starters : Holds(p)}
  <2>1. SUFFICES ASSUME SoleInv PROVE Cardinality(H) <= 1
    BY DEF OneOwner, StoreInv
  <2>2. \A p, q \in H : p = q
    BY <2>1 DEF SoleInv, Holds, Alive, Running
  <2>3. CASE H = {}
    BY <2>3, FS_EmptySet
  <2>4. CASE H # {}
    <3>1. PICK p \in H : H = {p}
      BY <2>2, <2>4
    <3>2. Cardinality({p}) = 1
      BY FS_Singleton
    <3> HIDE DEF H
    <3> QED BY <3>1, <3>2
  <2> QED BY <2>3, <2>4
<1>2. AckedLasts
  <2>1. TornFile \notin Data
    BY StoreAssumption DEF TornFile, Data
  <2> QED BY <2>1 DEF AckedLasts, StoreInv, WholeInv, SoleInv, Covers
<1>3. PairIsWhole
  BY DEF PairIsWhole, StoreInv, WholeInv
<1> QED BY <1>1, <1>2, <1>3 DEF StoreIsSound

-----------------------------------------------------------------------------
(* The installation of drivers.                                            *)

\* Where a candidate has been let in, and where its rival is being dealt with.
Loaded == {"verify", "sweep", "forbid", "persist"}
Tried == Loaded \cup {"blacklist", "retry"}
Written == Tried \cup {"depmod", "dkms", "modprobe"}

\* The types the argument needs, and that a pipeline has a candidate in hand.
DriverShape ==
    /\ host \in Host /\ stage \in Stages
    /\ plan \in Seq(OutOfTree) /\ (stage = "idle" <=> plan = << >>)

\* What a stage knows of the candidate in hand: the wizard installs on boards
\* that the kernel does not control; the candidate's file is there once it was
\* copied; the module that controls the fans is in only if it is the candidate
\* and was let in; and it was let in past ACPI.
StageKnows ==
    /\ stage # "idle" => host.control = Right
    /\ stage \in Written => <<m0, kernel>> \in kos
    /\ stage \notin Loaded \cup {"idle"} => Right \notin mods
    /\ stage \in Loaded => (Right \in mods => m0 = Right)
    /\ stage \in Loaded \ {"verify"} => Right \in mods
    /\ stage \in Tried => (Busy(m0) => grubCfg)

\* The rival is out only where it was blacklisted, but for a death or a failure
\* in between.
RivalIsOut ==
    /\ host.control = Right /\ Shadow \notin mods /\ ~gap /\ stage \notin {"blacklist", "forbid"}
         => Shadow \in blacklisted
    /\ stage = "persist" /\ ~gap => Shadow \in blacklisted

\* What is owed can be loaded.
OwedIsThere ==
    Right \in owed =>
        /\ host.control = Right /\ Right \in loadConf
        /\ <<Right, kernel>> \in kos \/ Right \in dkms
        /\ Busy(Right) => grubCfg
        /\ ~gap => Shadow \in blacklisted

\* The probe of the kernel's modules looks for what controls the fans.
ProbeSeeks == probing # << >> => ~Controllable(mods) /\ stage = "idle"

DriverInv == DriverShape /\ StageKnows /\ RivalIsOut /\ OwedIsThere /\ ProbeSeeks /\ BootsOnlyControlling

\* The modules are four, and the rival is in the kernel's own tree.
LEMMA Names == /\ Right # Shadow /\ Plain # Shadow /\ Wrong # Shadow /\ Right # Wrong /\ Plain # Right
               /\ Plain # Wrong /\ Shadow \notin OutOfTree
               /\ \A h \in Host : h.control \in {Plain, Right}
BY DEF Right, Shadow, Plain, Wrong, OutOfTree, Host

\* What is owed is loaded by the next boot, and its rival is not.
LEMMA DriverInvSound == DriverInv => DriverLasts
<1> SUFFICES ASSUME DriverInv, Right \in owed, ~gap
             PROVE  Controllable(BootSet) /\ Shadow \notin BootSet
  BY DEF DriverLasts, DriverInv, InstalledLasts
<1>1. SelfLoading = {}
  BY DEF DriverInv, OwedIsThere, SelfLoading
<1>2. loadConf \subseteq {Right}
  BY DEF DriverInv, OwedIsThere, BootsOnlyControlling
<1>3. Right \in BootSet
  BY <1>1 DEF DriverInv, OwedIsThere, BootSet, Exists, Kept
<1>4. Shadow \notin BootSet
  BY <1>1, <1>2, Names DEF BootSet
<1> QED BY <1>3, <1>4 DEF Controllable, DriverInv, OwedIsThere

\* It holds of every board.
LEMMA DriverInitInv == DriverInit => DriverInv
<1> SUFFICES ASSUME DriverInit PROVE DriverInv
  OBVIOUS
<1>1. host \in Host /\ (host.control = Right => mods = {Shadow}) /\ Right \notin mods
  BY Names DEF DriverInit, SelfLoading
<1>2. DriverShape
  BY <1>1 DEF DriverInit, DriverShape, Stages
<1> QED BY <1>1, <1>2 DEF DriverInit, DriverInv, StageKnows, RivalIsOut, OwedIsThere, ProbeSeeks, BootsOnlyControlling,
    Loaded, Tried, Written

\* Every step of the package's probe keeps it.
LEMMA ProbeStep == DriverInv /\ (ProbeBegins \/ ProbeNext) => DriverInv'
<1> SUFFICES ASSUME DriverInv, ProbeBegins \/ ProbeNext PROVE DriverInv'
  OBVIOUS
<1> USE DEF DriverInv
<1> DEFINE now == Head(probing)
           L == mods \cup {Head(now)}
<1>1. /\ stage = "idle"
      /\ UNCHANGED <<host, kernel, kos, dkms, blacklisted, grubFile, grubCfg, plan, stage,
                     owed, gap, boots>>
  BY DEF ProbeBegins, ProbeNext, ProbeSeeks
<1>2. \/ mods' = mods
      \/ mods' = mods \cup {Head(now)}
      \/ mods' = mods \ {Head(now)} /\ ~Shows(L)
  BY DEF ProbeBegins, ProbeNext
<1>3. Shadow \notin mods' => Shadow \notin mods \/ host.control # Right
  BY <1>2 DEF Shows
<1>4. loadConf' \in {loadConf, loadConf \cup {host.control}}
  <2>1. CASE ProbeBegins
    BY <2>1 DEF ProbeBegins, PersistVisible, Owner, PersistModule
  <2>2. CASE ProbeNext
    <3>1. CASE UNCHANGED loadConf
      BY <3>1
    <3>2. CASE Controllable(L) /\ PersistModule(Head(now)) /\ probing # << >>
      BY <3>2 DEF PersistModule, Controllable, ProbeSeeks
    <3> QED BY <2>2, <3>1, <3>2 DEF ProbeNext
  <2> QED BY <2>1, <2>2
<1>5. probing' # << >> => ~Controllable(mods')
  <2>1. CASE ProbeBegins
    BY <2>1 DEF ProbeBegins, PersistVisible, Controllable
  <2>2. CASE ProbeNext
    <3>1. ~Controllable(mods)
      BY <2>2 DEF ProbeNext, ProbeSeeks
    <3>2. mods' = mods \cup {Head(now)} => probing' = << >> \/ ~Controllable(L) \/ mods' = mods
      BY <2>2 DEF ProbeNext, Controllable
    <3> QED BY <1>1, <1>2, <3>1, <3>2 DEF Controllable
  <2> QED BY <2>1, <2>2
<1> HIDE DEF now, L
<1>6. DriverShape' /\ StageKnows'
  BY <1>1 DEF DriverShape, StageKnows, Loaded, Tried, Written
<1>7. RivalIsOut'
  BY <1>1, <1>3 DEF RivalIsOut
<1>8. OwedIsThere' /\ BootsOnlyControlling'
  BY <1>1, <1>4 DEF OwedIsThere, BootsOnlyControlling, Busy
<1>9. ProbeSeeks'
  BY <1>1, <1>5 DEF ProbeSeeks, Controllable
<1> QED BY <1>6, <1>7, <1>8, <1>9

\* The candidate in hand; the next one is built from the start.
LEMMA PlanGoes ==
    ASSUME DriverInv, stage # "idle"
    PROVE  /\ m0 \in OutOfTree /\ host.control = Right /\ probing = << >>
           /\ NextCandidate => stage' \in {"idle", "build"}
           /\ NextCandidate \/ Ends => plan' \in Seq(OutOfTree) /\ (stage' = "idle" <=> plan' = << >>)
<1> USE DEF DriverInv, DriverShape
<1>1. plan \in Seq(OutOfTree) /\ plan # << >>
  OBVIOUS
<1>2. m0 \in OutOfTree /\ Tail(plan) \in Seq(OutOfTree) /\ Len(Tail(plan)) = Len(plan) - 1
  BY <1>1, HeadTailProperties DEF m0
<1>3. Len(plan) \in Nat /\ (Tail(plan) = << >> <=> Len(Tail(plan)) = 0)
  BY <1>1, <1>2, EmptySeq
<1>4. Tail(plan) = << >> <=> Len(plan) = 1
  BY <1>2, <1>3
<1>5. NextCandidate =>
         /\ stage' \in {"idle", "build"} /\ plan' = Tail(plan)
         /\ (stage' = "idle" <=> Tail(plan) = << >>)
  BY <1>4 DEF NextCandidate
<1>6. Ends => plan' \in Seq(OutOfTree) /\ stage' = "idle" /\ plan' = << >>
  BY EmptySeq DEF Ends
<1>7. host.control = Right /\ probing = << >>
  BY DEF StageKnows, ProbeSeeks
<1> HIDE DEF DriverInv, DriverShape
<1> QED BY <1>2, <1>5, <1>6, <1>7

\* A step that gives up leaves the board as it found it, or without the module
\* that was being tried.
LEMMA GivesUp ==
    ASSUME DriverInv, stage # "idle", NextCandidate \/ Ends,
           stage \in {"blacklist", "forbid"} => gap',
           gap => gap', grubCfg => grubCfg',
           mods' \in {mods, mods \ {m0}}, ~Controllable(mods') \/ stage' = "idle",
           UNCHANGED <<host, kernel, kos, dkms, blacklisted, loadConf, owed, probing>>
    PROVE  DriverInv'
<1> USE DEF DriverInv
<1>1. /\ m0 \in OutOfTree /\ host.control = Right /\ probing = << >> /\ stage' \in {"idle", "build"}
      /\ plan' \in Seq(OutOfTree) /\ (stage' = "idle" <=> plan' = << >>)
  BY PlanGoes DEF Ends
<1>2. DriverShape'
  BY <1>1 DEF DriverShape, Stages
<1>3. StageKnows'
  BY <1>1 DEF StageKnows, Loaded, Tried, Written, Controllable
<1>4. Shadow \notin mods' => Shadow \notin mods
  BY <1>1, Names
<1>5. RivalIsOut'
  BY <1>1, <1>4 DEF RivalIsOut
<1>6. OwedIsThere' /\ BootsOnlyControlling'
  BY DEF OwedIsThere, BootsOnlyControlling, Busy
<1>7. ProbeSeeks'
  BY <1>1 DEF ProbeSeeks
<1> QED BY <1>2, <1>3, <1>5, <1>6, <1>7

\* The steps that give up are three.
LEMMA GivingUpStep ==
    DriverInv /\ (StepFails \/ ModprobeBusy \/ InstallerDies) => DriverInv'
<1> SUFFICES ASSUME DriverInv, StepFails \/ ModprobeBusy \/ InstallerDies PROVE DriverInv'
  OBVIOUS
<1>1. CASE StepFails
  <2>1. stage \notin Loaded \cup {"idle", "blacklist", "forbid"}
    BY <1>1 DEF StepFails, Loaded
  <2>2. ~Controllable(mods)
    BY <2>1, PlanGoes DEF DriverInv, StageKnows, Controllable
  <2> QED BY <1>1, <2>1, <2>2, GivesUp DEF StepFails, Controllable
<1>2. CASE ModprobeBusy
  BY <1>2, GivesUp DEF ModprobeBusy, Ends
<1>3. CASE InstallerDies
  BY <1>3, GivesUp DEF InstallerDies, Ends
<1> QED BY <1>1, <1>2, <1>3

\* The candidate is built, copied and registered.
LEMMA BuildStep ==
    DriverInv /\ (PlanDriver \/ Build \/ CopyModule \/ Depmod \/ RegisterDKMS) => DriverInv'
<1> SUFFICES ASSUME DriverInv, PlanDriver \/ Build \/ CopyModule \/ Depmod \/ RegisterDKMS
             PROVE  DriverInv'
  OBVIOUS
<1> USE DEF DriverInv
<1>1. /\ stage \in {"idle", "build", "copy", "depmod", "dkms"}
      /\ stage' \in {"build", "copy", "depmod", "dkms", "modprobe"}
      /\ UNCHANGED <<host, kernel, mods, blacklisted, loadConf, grubFile, grubCfg, probing, owed, gap>>
      /\ probing = << >> /\ ~Controllable(mods) /\ host.control = Right
  <2>1. CASE PlanDriver
    BY <2>1 DEF PlanDriver
  <2>2. CASE Build \/ CopyModule \/ Depmod \/ RegisterDKMS
    <3>1. stage \in {"build", "copy", "depmod", "dkms"} /\ UNCHANGED mods
      BY <2>2 DEF Build, CopyModule, Depmod, RegisterDKMS
    <3>2. ~Controllable(mods) /\ host.control = Right
      BY <3>1 DEF StageKnows, Loaded, Controllable
    <3> QED BY <2>2, <3>1, <3>2 DEF Build, CopyModule, Depmod, RegisterDKMS, Goes, ProbeSeeks
  <2> QED BY <2>1, <2>2
<1>2. DriverShape'
  <2>1. CASE PlanDriver
    <3>1. /\ <<Right>> \in Seq(OutOfTree) /\ <<Wrong>> \in Seq(OutOfTree)
          /\ <<Right, Wrong>> \in Seq(OutOfTree) /\ <<Wrong, Right>> \in Seq(OutOfTree)
      BY DEF OutOfTree
    <3>2. host.board \in Boards
      BY DEF DriverShape, Host
    <3>3. Needs \in {<<Right>>, <<Wrong>>, <<Right, Wrong>>, <<Wrong, Right>>}
      BY <3>2 DEF Needs, Boards
    <3>4. /\ <<Right>> # << >> /\ <<Wrong>> # << >> /\ <<Right, Wrong>> # << >>
          /\ <<Wrong, Right>> # << >>
      OBVIOUS
    <3>5. Needs \in Seq(OutOfTree)
      BY <3>1, <3>3, Zenon
    <3>6. Needs # << >>
      BY <3>3, <3>4, Zenon
    <3> QED BY <1>1, <2>1, <3>5, <3>6 DEF PlanDriver, DriverShape, Stages
  <2>2. CASE ~PlanDriver
    BY <1>1, <2>2 DEF Build, CopyModule, Depmod, RegisterDKMS, Goes, DriverShape, Stages
  <2> QED BY <2>1, <2>2
<1>3. stage' \in Written => <<m0', kernel>> \in kos'
  BY <1>1 DEF PlanDriver, Build, CopyModule, Depmod, RegisterDKMS, Goes, StageKnows, Written, Tried, Loaded, m0
<1>4. StageKnows'
  BY <1>1, <1>3 DEF StageKnows, Written, Tried, Loaded, Controllable
<1>5. RivalIsOut'
  BY <1>1 DEF RivalIsOut
<1>6. <<Right, kernel>> \in kos \/ Right \in dkms => <<Right, kernel>> \in kos' \/ Right \in dkms'
  <2>1. CASE Depmod
    BY <2>1 DEF Depmod, StageKnows, Written, Tried, Loaded
  <2>2. CASE ~Depmod
    BY <1>1, <2>2 DEF PlanDriver, Build, CopyModule, RegisterDKMS
  <2> QED BY <2>1, <2>2
<1>7. OwedIsThere' /\ BootsOnlyControlling'
  BY <1>1, <1>6 DEF OwedIsThere, BootsOnlyControlling, Busy
<1>8. ProbeSeeks'
  BY <1>1 DEF ProbeSeeks
<1> QED BY <1>2, <1>4, <1>5, <1>7, <1>8

\* A loaded, or tried, candidate and its rival.
LEMMA LoadStep ==
    DriverInv /\ (Modprobe \/ ModprobeRefused \/ BlacklistRival \/ ModprobeAgain \/ Verify
                    \/ SweepNothing \/ SweepRival \/ ForbidRival) => DriverInv'
<1> SUFFICES ASSUME DriverInv,
                    Modprobe \/ ModprobeRefused \/ BlacklistRival \/ ModprobeAgain \/ Verify
                      \/ SweepNothing \/ SweepRival \/ ForbidRival
             PROVE  DriverInv'
  OBVIOUS
<1> USE DEF DriverInv
<1>1. /\ stage # "idle"
      /\ UNCHANGED <<host, kernel, kos, dkms, loadConf, grubCfg, owed, probing>>
  BY DEF Modprobe, ModprobeRefused, BlacklistRival, ModprobeAgain, Verify, SweepNothing, SweepRival,
         ForbidRival, Unloads, Blacklists
<1>2. CASE NextCandidate /\ stage \in {"retry", "verify"} /\ UNCHANGED <<mods, gap>> /\ ~Controllable(mods)
           /\ UNCHANGED blacklisted
  BY <1>1, <1>2, GivesUp
<1>3. ASSUME stage' # "idle", UNCHANGED plan,
             stage' \in Written \ {"depmod", "dkms", "modprobe"}, stage \in Written \ {"depmod", "dkms"},
             \/ stage \in {"modprobe", "retry"} /\ stage' = "verify" /\ mods' = mods \cup {m0}
                /\ UNCHANGED <<gap, blacklisted>> /\ (Busy(m0) => grubCfg)
             \/ stage = "verify" /\ stage' = "sweep" /\ UNCHANGED <<mods, gap, blacklisted>> /\ Controllable(mods)
             \/ stage = "sweep" /\ stage' = "persist" /\ UNCHANGED <<mods, gap, blacklisted>> /\ Shadow \notin mods
             \/ stage = "modprobe" /\ stage' = "blacklist" /\ mods' \in {mods, mods \ {Shadow}}
                /\ UNCHANGED <<gap, blacklisted>> /\ (Busy(m0) => grubCfg)
             \/ /\ stage = "sweep" /\ stage' = "forbid" /\ mods' \in {mods, mods \ {Shadow}}
                /\ UNCHANGED <<gap, blacklisted>>
             \/ stage = "blacklist" /\ stage' = "retry" /\ UNCHANGED mods /\ (gap => gap')
                /\ blacklisted' \in {blacklisted, blacklisted \cup {Shadow}} /\ (gap' \/ Shadow \in blacklisted')
             \/ stage = "forbid" /\ stage' = "persist" /\ UNCHANGED mods /\ (gap => gap')
                /\ blacklisted' \in {blacklisted, blacklisted \cup {Shadow}} /\ (gap' \/ Shadow \in blacklisted')
      PROVE  DriverInv'
  <2>1. m0 \in OutOfTree /\ host.control = Right /\ probing = << >> /\ m0' = m0
    BY <1>1, <1>3, PlanGoes DEF m0
  <2>2. DriverShape'
    BY <1>1, <1>3 DEF DriverShape, Stages, Written, Tried, Loaded
  <2>3. StageKnows'
    <3>1. <<m0', kernel'>> \in kos'
      BY <1>1, <1>3, <2>1 DEF StageKnows
    <3>2. (stage \in Tried => (Busy(m0) => grubCfg))' 
      BY <1>1, <1>3, <2>1 DEF StageKnows, Tried, Loaded, Busy
    <3>3. stage' \notin Loaded => Right \notin mods'
      BY <1>1, <1>3 DEF StageKnows, Loaded
    <3>4. stage' \in Loaded => (Right \in mods' => m0' = Right)
      BY <1>1, <1>3, <2>1 DEF StageKnows, Loaded
    <3>5. stage' \in Loaded \ {"verify"} => Right \in mods'
      BY <1>1, <1>3, <2>1, Names DEF StageKnows, Loaded, Controllable
    <3> QED BY <1>1, <1>3, <2>1, <3>1, <3>2, <3>3, <3>4, <3>5 DEF StageKnows
  <2>4. RivalIsOut'
    BY <1>1, <1>3, <2>1, Names DEF RivalIsOut, OutOfTree
  <2>5. OwedIsThere' /\ BootsOnlyControlling'
    BY <1>1, <1>3 DEF OwedIsThere, BootsOnlyControlling, Busy
  <2>6. ProbeSeeks'
    BY <1>1, <2>1 DEF ProbeSeeks
  <2> QED BY <2>2, <2>3, <2>4, <2>5, <2>6
<1>4. CASE Modprobe
  BY <1>3, <1>4 DEF Modprobe, Goes, Written, Tried, Loaded
<1>5. CASE ModprobeRefused
  BY <1>3, <1>5 DEF ModprobeRefused, Unloads, Goes, Written, Tried, Loaded
<1>6. CASE BlacklistRival
  BY <1>3, <1>6 DEF BlacklistRival, Blacklists, Goes, Written, Tried, Loaded
<1>7. CASE ModprobeAgain
  <2>1. CASE Kept(m0, mods)
    <3>1. ~Controllable(mods)
      BY <1>1, <1>7, PlanGoes DEF ModprobeAgain, StageKnows, Controllable, Loaded
    <3> QED BY <1>2, <1>7, <2>1, <3>1 DEF ModprobeAgain
  <2>2. CASE ~Kept(m0, mods)
    <3>1. Busy(m0) => grubCfg
      BY <1>7 DEF ModprobeAgain, StageKnows, Tried
    <3> QED BY <1>3, <1>7, <2>2, <3>1 DEF ModprobeAgain, Goes, Written, Tried, Loaded
  <2> QED BY <2>1, <2>2
<1>8. CASE Verify
  BY <1>2, <1>3, <1>8 DEF Verify, Verified, Goes, Written, Tried, Loaded
<1>9. CASE SweepNothing
  BY <1>3, <1>9 DEF SweepNothing, Superseded, Goes, Written, Tried, Loaded
<1>10. CASE SweepRival
  BY <1>3, <1>10 DEF SweepRival, Unloads, Goes, Written, Tried, Loaded
<1>11. CASE ForbidRival
  BY <1>3, <1>11 DEF ForbidRival, Blacklists, Goes, Written, Tried, Loaded
<1> QED BY <1>4, <1>5, <1>6, <1>7, <1>8, <1>9, <1>10, <1>11

\* The driver that is written down is the one that controls the fans.
LEMMA PersistStep == DriverInv /\ Persist => DriverInv'
<1> SUFFICES ASSUME DriverInv, Persist PROVE DriverInv'
  OBVIOUS
<1> USE DEF DriverInv
<1>1. /\ stage = "persist" /\ stage' = "idle" /\ plan' = << >> /\ probing = << >>
      /\ UNCHANGED <<host, kernel, mods, kos, dkms, blacklisted, grubFile, grubCfg, probing, gap>>
  BY PlanGoes DEF Persist, Ends
<1>2. /\ host.control = Right /\ m0 = Right /\ <<Right, kernel>> \in kos /\ (Busy(Right) => grubCfg)
      /\ (~gap => Shadow \in blacklisted)
  BY <1>1 DEF StageKnows, RivalIsOut, Loaded, Tried, Written
<1>3. loadConf' = loadConf \cup {Right} \/ UNCHANGED <<loadConf, owed>>
  BY <1>2 DEF Persist
<1>4. DriverShape' /\ StageKnows' /\ ProbeSeeks'
  BY <1>1 DEF DriverShape, StageKnows, ProbeSeeks, Stages, Loaded, Tried, Written
<1>5. RivalIsOut'
  BY <1>1, <1>2 DEF RivalIsOut
<1>6. OwedIsThere'
  BY <1>1, <1>2, <1>3 DEF OwedIsThere, Busy
<1>7. BootsOnlyControlling'
  BY <1>1, <1>2, <1>3 DEF BootsOnlyControlling
<1> QED BY <1>4, <1>5, <1>6, <1>7

\* A reset spares what is loaded.
LEMMA CleanupStep == ASSUME DriverInv, NEW m \in OutOfTree, Cleanup(m) PROVE DriverInv'
<1> USE DEF DriverInv
<1>1. /\ stage = "idle" /\ probing = << >> /\ loadConf' \subseteq loadConf /\ owed' \subseteq owed
      /\ UNCHANGED <<host, kernel, mods, blacklisted, grubCfg, plan, stage, probing, gap>>
  BY DEF Cleanup
<1>2. DriverShape' /\ StageKnows' /\ ProbeSeeks' /\ RivalIsOut' /\ BootsOnlyControlling'
  BY <1>1 DEF DriverShape, StageKnows, ProbeSeeks, RivalIsOut, BootsOnlyControlling, Loaded, Tried, Written
<1>3. Right \in owed' =>
         Right \in loadConf' /\ (<<Right, kernel>> \in kos' \/ Right \in dkms')
  <2>1. CASE m = Right
    BY <2>1 DEF Cleanup, Spared, OwedIsThere
  <2>2. CASE m # Right
    BY <2>2 DEF Cleanup, Spared, OwedIsThere
  <2> QED BY <2>1, <2>2
<1>4. OwedIsThere'
  BY <1>1, <1>3 DEF OwedIsThere, Busy
<1> QED BY <1>2, <1>4

\* A boot loads what is owed.
LEMMA BootStep == DriverInv /\ HostBoots => DriverInv'
<1> SUFFICES ASSUME DriverInv, HostBoots PROVE DriverInv'
  OBVIOUS
<1> USE DEF DriverInv
<1>1. /\ stage' = "idle" /\ plan' = << >> /\ probing' = << >> /\ mods' = BootSet'
      /\ gap' = (gap \/ stage \in {"blacklist", "forbid"}) /\ owed' \subseteq owed
      /\ UNCHANGED <<host, kos, blacklisted, loadConf, grubFile, grubCfg>>
  BY DEF HostBoots, SameKernel, NewKernel
<1>2. DriverShape' /\ StageKnows' /\ ProbeSeeks' /\ BootsOnlyControlling'
  BY <1>1 DEF DriverShape, StageKnows, ProbeSeeks, BootsOnlyControlling, Stages, Loaded, Tried, Written
<1>3. host.control = Right /\ Shadow \notin mods' => Shadow \in blacklisted
  BY <1>1 DEF BootSet, SelfLoading
<1>4. RivalIsOut'
  BY <1>1, <1>3 DEF RivalIsOut
<1>5. Right \in owed' => <<Right, kernel'>> \in kos' \/ Right \in dkms'
  <2>1. CASE SameKernel
    BY <1>1, <2>1 DEF SameKernel, OwedIsThere
  <2>2. CASE NewKernel
    BY <2>2 DEF NewKernel
  <2> QED BY <2>1, <2>2 DEF HostBoots
<1>6. OwedIsThere'
  BY <1>1, <1>5 DEF OwedIsThere, Busy
<1> QED BY <1>2, <1>4, <1>6

\* Every step of the installation keeps it.
LEMMA DriverStep == DriverInv /\ [DriverNext]_diVars => DriverInv'
<1> SUFFICES ASSUME DriverInv, [DriverNext]_diVars PROVE DriverInv'
  OBVIOUS
<1>1. CASE UNCHANGED diVars
  BY <1>1 DEF diVars, DriverInv, DriverShape, StageKnows, RivalIsOut, OwedIsThere, ProbeSeeks,
     BootsOnlyControlling, Controllable, Busy, m0
<1>2. CASE DriverNext
  BY <1>2, ProbeStep, GivingUpStep, BuildStep, LoadStep, PersistStep, CleanupStep, BootStep DEF DriverNext
<1> QED BY <1>1, <1>2

-----------------------------------------------------------------------------
(* The observation log.                                                    *)

Item == Torn .. MaxRecords

\* The records in a file, read or not.
Nums(s) == {x \in Nat \ {0} : \E k \in DOMAIN s : s[k] = x}

\* They have been appended one after the other.
Rising(s) == \A k, m \in DOMAIN s : k < m /\ s[k] > 0 /\ s[m] > 0 => s[k] < s[m]

\* What the assumption says of each constant.
LEMMA LogConstants ==
    /\ Keep \in Nat \ {0} /\ Full \in Nat \ {0} /\ Big \in Nat \ {0} /\ MaxDays \in Nat \ {0}
    /\ MaxRecords \in Nat
BY LogAssumption

\* A file is a sequence of integers, and what is read of it one of items.
LEMMA FileIs ==
    ASSUME NEW s \in File
    PROVE  /\ s \in Seq(Int) /\ Content(s) \in Seq(Item) /\ Content(s) \in File
           /\ Nums(Content(s)) = Nums(s)
           /\ Rising(s) => Rising(Content(s))
           /\ s # Absent => Content(s) = s
           /\ Absent \in File /\ << >> \in File /\ Nums(Absent) = {} /\ Nums(<< >>) = {}
           /\ Rising(Absent) /\ Rising(<< >>)
<1> USE LogConstants DEF Torn, Item
<1>1. Absent \in Seq(Int) /\ Len(Absent) = 1 /\ Absent[1] = -2 /\ Absent \in File
  BY DEF Absent, File
<1>2. << >> \in Seq(Item) /\ << >> \in Seq(Int) /\ Len(<< >>) = 0 /\ << >> \in File
  BY DEF File
<1>3. ASSUME NEW q \in Seq(Item) PROVE q \in Seq(Int) /\ q \in File
  BY <1>3 DEF File
<1>4. Nums(Absent) = {} /\ Rising(Absent)
  BY <1>1 DEF Nums, Rising
<1>5. Nums(<< >>) = {} /\ Rising(<< >>)
  BY DEF Nums, Rising
<1>6. CASE s = Absent
  BY <1>1, <1>2, <1>4, <1>5, <1>6 DEF Content
<1>7. CASE s # Absent
  <2>1. s \in Seq(Item)
    BY <1>7 DEF File
  <2> QED BY <1>1, <1>2, <1>3, <1>4, <1>5, <1>7, <2>1 DEF Content
<1> QED BY <1>6, <1>7

\* What is appended to a file.
LEMMA AppendedFile ==
    ASSUME NEW s \in Seq(Item), NEW x \in Item, Rising(s), x > 0 => \A y \in Nums(s) : y < x
    PROVE  /\ Append(s, x) \in Seq(Item) /\ Append(s, x) \in File /\ Append(s, x) # Absent
           /\ Rising(Append(s, x))
           /\ Nums(Append(s, x)) = Nums(s) \cup (IF x > 0 THEN {x} ELSE {})
<1> USE LogConstants DEF Torn, Item
<1> DEFINE t == Append(s, x)
<1>1. /\ t \in Seq(Item) /\ Len(t) = Len(s) + 1 /\ t[Len(s) + 1] = x
      /\ \A k \in 1 .. Len(s) : t[k] = s[k]
      /\ DOMAIN t = 1 .. Len(s) + 1 /\ DOMAIN s = 1 .. Len(s) /\ Len(s) \in Nat
  OBVIOUS
<1>2. \A k \in 1 .. Len(s) : s[k] \in Int
  OBVIOUS
<1> HIDE DEF t
<1>3. t # Absent
  <2>1. t[1] \in Item
    BY <1>1
  <2>2. Absent[1] = -2
    BY DEF Absent
  <2> QED BY <2>1, <2>2
<1>4. Rising(t)
  <2>1. ASSUME x > 0, NEW k \in 1 .. Len(s), s[k] > 0 PROVE s[k] < x
    <3>1. s[k] \in Nat \ {0} /\ k \in DOMAIN s
      BY <1>1, <1>2, <2>1
    <3>2. s[k] \in Nums(s)
      BY <3>1 DEF Nums
    <3> QED BY <2>1, <3>2
  <2>2. ASSUME NEW k \in 1 .. Len(s) + 1, NEW m \in 1 .. Len(s) + 1, k < m, t[k] > 0, t[m] > 0
        PROVE  t[k] < t[m]
    <3>1. k \in 1 .. Len(s) /\ t[k] = s[k]
      BY <1>1, <2>2
    <3>2. CASE m = Len(s) + 1
      <4>1. t[m] = x /\ x > 0 /\ s[k] > 0
        BY <1>1, <2>2, <3>1, <3>2
      <4> QED BY <2>1, <3>1, <4>1
    <3>3. CASE m # Len(s) + 1
      <4>0. Len(s) \in Nat
        BY <1>1
      <4>1. m \in 1 .. Len(s)
        BY <4>0, <2>2, <3>3
      <4>4. t[m] = s[m]
        BY <1>1, <4>1
      <4>2. k \in DOMAIN s /\ m \in DOMAIN s /\ s[k] > 0 /\ s[m] > 0 /\ k < m
        BY <1>1, <2>2, <3>1, <4>1, <4>4
      <4>3. s[k] < s[m]
        BY <4>2 DEF Rising
      <4> QED BY <3>1, <4>3, <4>4
    <3> QED BY <3>2, <3>3
  <2> QED BY <1>1, <2>2 DEF Rising
<1>5. Nums(t) = Nums(s) \cup (IF x > 0 THEN {x} ELSE {})
  <2>1. ASSUME NEW y \in Nums(t) PROVE y \in Nums(s) \cup (IF x > 0 THEN {x} ELSE {})
    <3>1. PICK k \in 1 .. Len(s) + 1 : t[k] = y /\ y \in Nat /\ y > 0
      BY <1>1 DEF Nums
    <3>2. CASE k = Len(s) + 1
      BY <1>1, <3>1, <3>2
    <3>3. CASE k \in 1 .. Len(s)
      BY <1>1, <3>1, <3>3 DEF Nums
    <3> QED BY <1>1, <3>1, <3>2, <3>3
  <2>2. ASSUME NEW y \in Nums(s) PROVE y \in Nums(t)
    <3>1. PICK k \in 1 .. Len(s) : s[k] = y /\ y \in Nat /\ y > 0
      BY <1>1 DEF Nums
    <3>2. k \in DOMAIN t /\ t[k] = y
      BY <1>1, <3>1
    <3> QED BY <3>1, <3>2 DEF Nums
  <2>3. x > 0 => x \in Nums(t)
    <3>1. Len(s) + 1 \in DOMAIN t /\ t[Len(s) + 1] = x /\ x \in Int
      BY <1>1
    <3> QED BY <3>1 DEF Nums
  <2> QED BY <2>1, <2>2, <2>3
<1>6. t \in File
  BY <1>1 DEF File
<1> QED BY <1>1, <1>3, <1>4, <1>5, <1>6 DEF t

-----------------------------------------------------------------------------
(* What the writer, the compressors and the files are.                     *)

Places == {"down", "idle", "shift", "rename", "open", "reopen", "header", "day", "record"}
Gzip == [done : BOOLEAN, data : File]
Job == [st : {"new", "copy"}, data : File]

\* The types, where the shift is, that an append under way has a record to write, and
\* that the active file is not there when it is to be opened.
LogShape ==
    /\ LogTypeOK /\ jobs \in Seq(Job)
    /\ wpc \in Places /\ at \in 0 .. Keep /\ (wpc = "shift" => at > 0) /\ (wpc = "rename" => at = 0)
    /\ day \in 1 .. MaxDays /\ activeDay <= day /\ kvDay <= day
    /\ next \in 1 .. MaxRecords + 1 /\ (wpc \notin {"down", "idle"} => next <= MaxRecords)
    /\ handle \in BOOLEAN /\ cached \in BOOLEAN
    /\ wpc \in {"open", "reopen"} => plain[0] = Absent
    /\ wpc = "header" => plain[0] = << >>

\* A gzip that is marked as done is one.
LEMMA GzipMarked ==
    ASSUME NEW z \in Gzip, NEW b \in BOOLEAN
    PROVE  [z EXCEPT !.done = b] \in Gzip /\ [z EXCEPT !.done = b].data = z.data
           /\ ([z EXCEPT !.done = b].done <=> b)
  BY DEF Gzip

\* A job that is taken off the list leaves a list.
LEMMA JobRemoved ==
    ASSUME NEW q \in Seq(Job), NEW j \in DOMAIN q
    PROVE  RemoveAt(q, j) \in Seq(Job) /\ (Len(q) = 1 => RemoveAt(q, j) = << >>)
<1>1. SubSeq(q, 1, j - 1) \in Seq(Job) /\ SubSeq(q, j + 1, Len(q)) \in Seq(Job)
  OBVIOUS
<1>2. RemoveAt(q, j) \in Seq(Job)
  BY <1>1 DEF RemoveAt
<1>3. Len(q) = 1 => SubSeq(q, 1, j - 1) = << >> /\ SubSeq(q, j + 1, Len(q)) = << >>
  OBVIOUS
<1>4. Len(q) = 1 => RemoveAt(q, j) = << >>
  BY <1>1, <1>3 DEF RemoveAt
<1> QED BY <1>2, <1>4

\* The log starts in shape, ...
LEMMA LogBegins == LogInit => LogShape
<1> SUFFICES ASSUME LogInit PROVE LogShape
  OBVIOUS
<1>1. Absent \in File /\ FALSE \in BOOLEAN
  BY DEF File
<1>2. NoGz \in Gzip
  BY <1>1 DEF NoGz, Gzip
<1>3. plain \in [Slots -> File] /\ gz \in [1 .. Keep -> Gzip]
  BY <1>1, <1>2 DEF LogInit
<1>4. LogTypeOK
  <2>1. wpc = "idle" /\ activeDay = 0 /\ kvDay = 0 /\ scars = {} /\ headerWritten \in BOOLEAN
    BY DEF LogInit, NoDay
  <2> QED BY <1>3, <2>1, LogConstants DEF LogTypeOK, Gzip
<1>5. handle \in BOOLEAN /\ cached \in BOOLEAN
  BY DEF LogInit
<1> QED BY <1>4, <1>5, LogConstants DEF LogInit, LogShape, Places, NoDay

\* ... and every step keeps it so.
LEMMA ShapeStep == LogShape /\ [LogNext]_lVars => LogShape'
<1> SUFFICES ASSUME LogShape, [LogNext]_lVars PROVE LogShape'
  OBVIOUS
<1> USE LogConstants
<1>1. /\ plain \in [Slots -> File] /\ gz \in [1 .. Keep -> Gzip]
      /\ \A i \in Slots : plain[i] \in File /\ Content(plain[i]) \in Seq(Item)
      /\ Absent \in File /\ << >> \in File /\ NoGz \in Gzip /\ NewJob \in Job
  <2>1. plain \in [Slots -> File] /\ gz \in [1 .. Keep -> Gzip]
    BY DEF LogShape, LogTypeOK, Gzip
  <2>2. \A i \in Slots : plain[i] \in File /\ Content(plain[i]) \in Seq(Item)
    BY <2>1, FileIs
  <2>3. Absent \in File /\ << >> \in File
    BY DEF File
  <2> QED BY <2>1, <2>2, <2>3 DEF NoGz, NewJob, Gzip, Job
<1>2. 0 \in Slots /\ 1 \in Slots /\ 1 \in 1 .. Keep /\ Keep \in Slots /\ \A i \in 1 .. Keep : i \in Slots
  BY DEF Slots
<1>3. \A s \in Seq(Item) : s \in File
  BY DEF File, Item
<1>4. /\ wpc \in Places /\ at \in 0 .. Keep /\ (wpc = "shift" => at > 0) /\ (wpc = "rename" => at = 0)
      /\ day \in 1 .. MaxDays /\ activeDay <= day /\ kvDay <= day
      /\ next \in 1 .. MaxRecords + 1 /\ (wpc \notin {"down", "idle"} => next <= MaxRecords)
      /\ handle \in BOOLEAN /\ cached \in BOOLEAN
      /\ (wpc \in {"open", "reopen"} => plain[0] = Absent) /\ (wpc = "header" => plain[0] = << >>)
      /\ activeDay \in 0 .. MaxDays /\ kvDay \in 0 .. MaxDays /\ headerWritten \in BOOLEAN
      /\ scars \subseteq Scars /\ (wpc \in {"header", "day"} => handle) /\ jobs \in Seq(Job)
  BY DEF LogShape, LogTypeOK
<1>5. ASSUME plain' \in [Slots -> File], gz' \in [1 .. Keep -> Gzip], jobs' \in Seq(Job),
             wpc' \in Places /\ at' \in 0 .. Keep /\ (wpc' = "shift" => at' > 0) /\ (wpc' = "rename" => at' = 0),
             day' \in 1 .. MaxDays /\ activeDay' <= day' /\ kvDay' <= day',
             activeDay' \in Nat /\ kvDay' \in Nat /\ headerWritten' \in BOOLEAN,
             next' \in 1 .. MaxRecords + 1 /\ (wpc' \notin {"down", "idle"} => next' <= MaxRecords),
             handle' \in BOOLEAN /\ cached' \in BOOLEAN,
             wpc' \in {"open", "reopen"} => plain'[0] = Absent, wpc' = "header" => plain'[0] = << >>,
             scars' \subseteq Scars, wpc' \in {"header", "day"} => handle'
      PROVE  LogShape'
  BY <1>5 DEF LogShape, LogTypeOK, Gzip, Places
<1> USE DEF Places
<1>6. CASE AppendRecord
  <2>1. plain' \in [Slots -> File] /\ plain'[0] \in {plain[0], Content(plain[0])}
    BY <1>1, <1>2, <1>3, <1>6 DEF AppendRecord
  <2>2. wpc' \in {"reopen", "shift", "record"} /\ (wpc' = "reopen" => plain'[0] = Absent) /\ at' = Keep
    BY <1>1, <1>2, <1>6 DEF AppendRecord
  <2>3. scars' \subseteq Scars
    BY <1>4, <1>6 DEF AppendRecord, Scars
  <2>4. handle' \in BOOLEAN /\ cached' \in BOOLEAN
    BY <1>4, <1>6 DEF AppendRecord
  <2> QED BY <1>1, <1>4, <1>5, <1>6, <2>1, <2>2, <2>3, <2>4 DEF AppendRecord, writer
<1>7. CASE ShiftOne
  <2>1. at \in 1 .. Keep /\ (at # Keep => at + 1 \in 1 .. Keep)
    BY <1>4, <1>7 DEF ShiftOne
  <2>2. plain' \in [Slots -> File]
    BY <1>1, <1>2, <1>7, <2>1 DEF ShiftOne
  <2>3. gz' \in [1 .. Keep -> Gzip]
    BY <1>1, <1>2, <1>7, <2>1 DEF ShiftOne
  <2>4. /\ wpc' \in {"shift", "rename"} /\ at' \in 0 .. Keep /\ (wpc' = "shift" => at' > 0)
        /\ (wpc' = "rename" => at' = 0) /\ wpc = "shift"
    BY <1>7, <2>1 DEF ShiftOne
  <2>5. UNCHANGED <<cached, handle, activeDay, headerWritten, day, kvDay, jobs, next, scars>>
    BY <1>7 DEF ShiftOne, writer
  <2> QED BY <1>4, <1>5, <2>2, <2>3, <2>4, <2>5
<1>8. CASE RenameActive
  <2>1. plain' \in [Slots -> File] /\ plain'[0] = Absent
    BY <1>1, <1>2, <1>8 DEF RenameActive, Slots
  <2> QED BY <1>1, <1>4, <1>5, <1>8, <2>1 DEF RenameActive, writer, bounds
<1>9. CASE RenameFails
  BY <1>1, <1>4, <1>5, <1>9 DEF RenameFails, RenameFailsTo, writer, files, Scars
<1>10. CASE OpenActive
  <2>1. jobs' \in Seq(Job)
    <3>1. Append(jobs, NewJob) \in Seq(Job)
      BY <1>1, <1>4
    <3> QED BY <1>4, <1>10, <3>1 DEF OpenActive, OpenActiveAs
  <2>2. plain' \in [Slots -> File] /\ plain'[0] = << >>
    BY <1>1, <1>2, <1>10 DEF OpenActive, OpenActiveAs
  <2>3. handle' \in BOOLEAN /\ handle'
    BY <1>10 DEF OpenActive, OpenActiveAs
  <2> QED BY <1>1, <1>4, <1>5, <1>10, <2>1, <2>2, <2>3 DEF OpenActive, OpenActiveAs, bounds
<1>11. CASE OpenFails
  BY <1>1, <1>4, <1>5, <1>11 DEF OpenFails, writer, files
<1>12. CASE AppendHeader
  <2>1. plain' \in [Slots -> File]
    <3>1. plain[0] = << >> /\ Header \in Item
      BY <1>4, <1>12 DEF AppendHeader, Item, Torn, Header
    <3>2. Append(plain[0], Header) \in Seq(Item)
      BY <3>1
    <3> QED BY <1>1, <1>3, <1>12, <3>2 DEF AppendHeader
  <2> QED BY <1>1, <1>4, <1>5, <1>12, <2>1 DEF AppendHeader, bounds
<1>13. CASE PersistDay
  BY <1>1, <1>4, <1>5, <1>13 DEF PersistDay, writer, files
<1>14. CASE WriteRecord
  <2>1. plain' \in [Slots -> File]
    <3>1. Append(Content(plain[0]), next) \in Seq(Item)
      BY <1>1, <1>2, <1>4, <1>14 DEF WriteRecord, Item, Torn
    <3> QED BY <1>1, <1>3, <1>14, <3>1 DEF WriteRecord
  <2> QED BY <1>1, <1>4, <1>5, <1>14, <2>1 DEF WriteRecord, bounds
<1>15. CASE AppendFails
  <2>1. plain' \in [Slots -> File]
    <3>1. \/ plain' = [plain EXCEPT ![0] = Append(Content(@), Torn)]
          \/ plain' = [plain EXCEPT ![0] = Content(@)]
      BY <1>15 DEF AppendFails
    <3>2. Append(Content(plain[0]), Torn) \in Seq(Item)
      BY <1>1, <1>2 DEF Item, Torn
    <3> QED BY <1>1, <1>2, <1>3, <3>1, <3>2
  <2>2. scars' \subseteq Scars
    BY <1>4, <1>15 DEF AppendFails, Scars
  <2> QED BY <1>1, <1>4, <1>5, <1>15, <2>1, <2>2 DEF AppendFails, writer
<1>16. CASE Midnight
  BY <1>1, <1>4, <1>5, <1>16 DEF Midnight, writer, files
<1>17. CASE LogCrash
  <2>1. plain' \in [Slots -> File]
    <3>1. plain' = plain \/ plain' = [plain EXCEPT ![0] = Append(Content(@), Torn)]
      BY <1>17 DEF LogCrash
    <3>2. Append(Content(plain[0]), Torn) \in Seq(Item)
      BY <1>1, <1>2 DEF Item, Torn
    <3> QED BY <1>1, <1>3, <3>1, <3>2
  <2>2. scars' \subseteq Scars
    BY <1>4, <1>17 DEF LogCrash, Scars
  <2>3. jobs' \in Seq(Job) /\ wpc' = "down"
    BY <1>17 DEF LogCrash
  <2>4. handle' \in BOOLEAN /\ cached' \in BOOLEAN
    BY <1>17 DEF LogCrash
  <2>5. UNCHANGED <<gz, at, activeDay, headerWritten, day, kvDay, next>>
    BY <1>17 DEF LogCrash, writer
  <2> QED BY <1>1, <1>4, <1>5, <2>1, <2>2, <2>3, <2>4, <2>5
<1>18. CASE LogStart
  BY <1>1, <1>4, <1>5, <1>18 DEF LogStart, files, bounds
<1>19. CASE ReadList \/ ReadFile \/ UNCHANGED lVars
  <2>1. UNCHANGED <<plain, gz, cached, handle, wpc, at, activeDay, headerWritten, day, kvDay, jobs, next, scars>>
    BY <1>19 DEF ReadList, ReadFile, files, writer, lVars
  <2> QED BY <1>1, <1>4, <1>5, <2>1
<1>20. ASSUME NEW j \in DOMAIN jobs, CompressOpen(j) PROVE LogShape'
  <2>1. gz' \in [1 .. Keep -> Gzip]
    <3>1. [gz[1] EXCEPT !.data = plain[1]] \in Gzip
      BY <1>1, <1>2 DEF Gzip
    <3>2. gz' \in {gz, [gz EXCEPT ![1] = [gz[1] EXCEPT !.data = plain[1]]]}
      BY <1>20 DEF CompressOpen
    <3> QED BY <1>1, <3>1, <3>2
  <2>2. jobs' \in Seq(Job)
    <3>1. [st |-> "copy", data |-> plain[1]] \in Job
      BY <1>1, <1>2 DEF Job
    <3>2. RemoveAt(jobs, j) \in Seq(Job)
      BY <1>4, <1>20, JobRemoved
    <3>3. jobs' \in {RemoveAt(jobs, j), [jobs EXCEPT ![j] = [st |-> "copy", data |-> plain[1]]]}
      BY <1>20 DEF CompressOpen
    <3>4. [jobs EXCEPT ![j] = [st |-> "copy", data |-> plain[1]]] \in Seq(Job)
      BY <1>4, <1>20, <3>1, ExceptSeq
    <3> QED BY <3>2, <3>3, <3>4, Zenon
  <2> QED BY <1>1, <1>4, <1>5, <1>20, <2>1, <2>2 DEF CompressOpen, writer, bounds
<1>21. ASSUME NEW j \in DOMAIN jobs, CompressDone(j) PROVE LogShape'
  <2>1. gz' \in [1 .. Keep -> Gzip]
    <3>1. gz' = [i \in 1 .. Keep |-> [gz[i] EXCEPT !.done = gz[i].done \/ gz[i].data = jobs[j].data]]
      BY <1>21 DEF CompressDone
    <3>2. \A i \in 1 .. Keep : gz[i] \in Gzip /\ (gz[i].done \/ gz[i].data = jobs[j].data) \in BOOLEAN
      BY <1>1, Zenon
    <3>3. \A i \in 1 .. Keep : [gz[i] EXCEPT !.done = gz[i].done \/ gz[i].data = jobs[j].data] \in Gzip
      BY <3>2, GzipMarked, Zenon
    <3> QED BY <3>1, <3>3, Zenon
  <2>2. plain' \in [Slots -> File] /\ jobs' \in Seq(Job) /\ plain'[0] = plain[0]
    BY <1>1, <1>2, <1>4, <1>21, JobRemoved DEF CompressDone
  <2> QED BY <1>4, <1>5, <1>21, <2>1, <2>2 DEF CompressDone, writer, bounds
<1> QED BY <1>6, <1>7, <1>8, <1>9, <1>10, <1>11, <1>12, <1>13, <1>14, <1>15, <1>16, <1>17, <1>18, <1>19,
           <1>20, <1>21 DEF LogNext, WriterStep

-----------------------------------------------------------------------------
(* The order of the records.                                               *)

\* The records in the files of slot i, the gzip's included.
InSlot(i) == Nums(plain[i]) \cup (IF i = 0 THEN {} ELSE Nums(gz[i].data))

\* Every file's records have been appended one after the other, an older file's before a
\* newer one's; while the files are shifted the next one's place is free.
LogOrder ==
    /\ \A i \in Slots : Rising(plain[i])
    /\ \A i \in 1 .. Keep : Rising(gz[i].data)
    /\ \A i, j \in Slots : i < j => \A x \in InSlot(i), y \in InSlot(j) : y < x
    /\ \A i \in Slots : \A x \in InSlot(i) : x < next
    /\ \A i \in Slots : wpc \in {"shift", "rename"} /\ i = at + 1 => InSlot(i) = {}

\* A record is new or comes from a place as new.
Flows ==
    /\ next' \in {next, next + 1}
    /\ \A i \in Slots : \A x \in InSlot(i)' :
          (x = next /\ next' = next + 1) \/ \E j \in Slots : j <= i /\ x \in InSlot(j)

\* What the facts about the shape say of the files.
LEMMA FilesAre ==
    ASSUME LogShape
    PROVE  /\ plain \in [Slots -> File] /\ gz \in [1 .. Keep -> Gzip]
           /\ \A i \in Slots : /\ plain[i] \in File /\ i \in Int /\ InSlot(i) \subseteq Nat
                               /\ Content(plain[i]) \in Seq(Item)
                               /\ Nums(Content(plain[i])) = Nums(plain[i])
                               /\ Rising(plain[i]) => Rising(Content(plain[i]))
           /\ Nums(Absent) = {} /\ Nums(<< >>) = {} /\ Rising(Absent) /\ Rising(<< >>)
           /\ Slots = 0 .. Keep /\ Keep \in Nat \ {0} /\ next \in Nat \ {0} /\ at \in 0 .. Keep
<1>1. plain \in [Slots -> File] /\ gz \in [1 .. Keep -> Gzip]
  BY DEF LogShape, LogTypeOK, Gzip
<1>2. Absent \in File
  BY DEF File
<1>3. Nums(Absent) = {} /\ Nums(<< >>) = {} /\ Rising(Absent) /\ Rising(<< >>)
  BY <1>2, FileIs
<1>4. \A i \in Slots : /\ plain[i] \in File /\ Content(plain[i]) \in Seq(Item)
                       /\ Nums(Content(plain[i])) = Nums(plain[i])
                       /\ Rising(plain[i]) => Rising(Content(plain[i]))
  BY <1>1, FileIs
<1>5. \A i \in Slots : InSlot(i) \subseteq Nat /\ i \in Int
  BY LogConstants DEF InSlot, Nums, Slots
<1> QED BY <1>1, <1>3, <1>4, <1>5, LogConstants DEF LogShape, Slots

\* The active file becomes what was appended to it, the others stay.
LEMMA ActiveGrows ==
    ASSUME LogShape, LogOrder, NEW s, plain' = [plain EXCEPT ![0] = s], gz' = gz,
           Rising(s), wpc' \notin {"shift", "rename"},
           \/ Nums(s) \subseteq Nums(plain[0]) /\ next' \in {next, next + 1}
           \/ Nums(s) \subseteq Nums(plain[0]) \cup {next} /\ next' = next + 1
    PROVE  LogOrder' /\ Flows
<1>1. /\ plain \in [Slots -> File] /\ 0 \in Slots /\ Slots = 0 .. Keep /\ next \in Nat /\ Keep \in Nat
      /\ \A i \in Slots : InSlot(i) \subseteq Nat /\ i \in Int
  BY FilesAre
<1>2. plain'[0] = s /\ \A i \in Slots \ {0} : plain'[i] = plain[i]
  BY <1>1
<1>3. \A i \in Slots \ {0} : InSlot(i)' = InSlot(i)
  BY <1>2 DEF InSlot
<1>4. InSlot(0)' = Nums(s) /\ InSlot(0) = Nums(plain[0])
  BY <1>2 DEF InSlot
<1>5. Flows
  BY <1>1, <1>3, <1>4 DEF Flows
<1>6. \A i \in Slots : Rising(plain'[i])
  BY <1>2 DEF LogOrder
<1>7. \A i, j \in Slots : i < j => \A x \in InSlot(i)', y \in InSlot(j)' : y < x
  <2>1. ASSUME NEW i \in Slots, NEW j \in Slots, i < j, NEW x \in InSlot(i)', NEW y \in InSlot(j)' PROVE y < x
    <3>1. j # 0 /\ y \in InSlot(j) /\ y < next /\ (x \in InSlot(i) \/ x = next)
      BY <1>1, <1>3, <1>4, <2>1 DEF LogOrder
    <3> QED BY <2>1, <3>1 DEF LogOrder
  <2> QED BY <2>1
<1>8. \A i \in Slots : \A x \in InSlot(i)' : x < next'
  BY <1>1, <1>3, <1>4 DEF LogOrder
<1> QED BY <1>5, <1>6, <1>7, <1>8 DEF LogOrder

\* The files stay where they are and lose some of their records, if any.
LEMMA FilesShrink ==
    ASSUME LogShape, LogOrder, \A i \in Slots : InSlot(i)' \subseteq InSlot(i),
           next' \in {next, next + 1},
           \A i \in Slots : Rising(plain'[i]), \A i \in 1 .. Keep : Rising(gz'[i].data),
           wpc' \in {"shift", "rename"} => (wpc \in {"shift", "rename"} /\ at' = at) \/ at' = Keep
    PROVE  LogOrder' /\ Flows
<1>1. /\ 0 \in Slots /\ next \in Nat /\ Keep \in Nat /\ at \in 0 .. Keep /\ Slots = 0 .. Keep
      /\ \A i \in Slots : InSlot(i) \subseteq Nat /\ i \in Int
  BY FilesAre
<1>2. Flows
  BY <1>1 DEF Flows
<1>3. \A i, j \in Slots : i < j => \A x \in InSlot(i)', y \in InSlot(j)' : y < x
  BY DEF LogOrder
<1>4. \A i \in Slots : \A x \in InSlot(i)' : x < next'
  BY <1>1 DEF LogOrder
<1>5. ASSUME NEW i \in Slots, wpc' \in {"shift", "rename"}, i = at' + 1 PROVE InSlot(i)' = {}
  <2>1. at' # Keep
    BY <1>1, <1>5
  <2>2. InSlot(i) = {}
    BY <1>5, <2>1 DEF LogOrder
  <2> QED BY <2>2
<1> QED BY <1>2, <1>3, <1>4, <1>5 DEF LogOrder

\* The files of one slot move to the next older, which was free.
LEMMA SlotMoves ==
    ASSUME LogShape, LogOrder, next' = next, NEW a \in Slots, a + 1 \in Slots, InSlot(a + 1) = {},
           InSlot(a)' = {}, InSlot(a + 1)' \subseteq InSlot(a),
           \A i \in Slots \ {a, a + 1} : InSlot(i)' = InSlot(i),
           \A i \in Slots : Rising(plain'[i]), \A i \in 1 .. Keep : Rising(gz'[i].data),
           wpc' \in {"shift", "rename"} => at' = a - 1
    PROVE  LogOrder' /\ Flows
<1>1. /\ next \in Nat /\ Keep \in Nat /\ Slots = 0 .. Keep
      /\ \A i \in Slots : InSlot(i) \subseteq Nat /\ i \in Int
  BY FilesAre
<1>2. ASSUME NEW i \in Slots, NEW x \in InSlot(i)'
      PROVE  i # a /\ x \in InSlot(IF i = a + 1 THEN a ELSE i)
  BY <1>1, <1>2
<1>3. Flows
  BY <1>1, <1>2 DEF Flows
<1>4. \A i, j \in Slots : i < j => \A x \in InSlot(i)', y \in InSlot(j)' : y < x
  <2>1. ASSUME NEW i \in Slots, NEW j \in Slots, i < j, NEW x \in InSlot(i)', NEW y \in InSlot(j)' PROVE y < x
    <3> DEFINE k == IF i = a + 1 THEN a ELSE i
               m == IF j = a + 1 THEN a ELSE j
    <3>1. x \in InSlot(k) /\ y \in InSlot(m) /\ i # a /\ j # a
      BY <1>2, <2>1
    <3>2. k \in Slots /\ m \in Slots /\ k < m
      BY <1>1, <2>1, <3>1
    <3> HIDE DEF k, m
    <3> QED BY <3>1, <3>2 DEF LogOrder
  <2> QED BY <2>1
<1>5. \A i \in Slots : \A x \in InSlot(i)' : x < next'
  <2>1. ASSUME NEW i \in Slots, NEW x \in InSlot(i)' PROVE x < next'
    <3> DEFINE k == IF i = a + 1 THEN a ELSE i
    <3>1. x \in InSlot(k) /\ k \in Slots
      BY <1>2, <2>1
    <3> HIDE DEF k
    <3> QED BY <3>1 DEF LogOrder
  <2> QED BY <2>1
<1>6. ASSUME NEW i \in Slots, wpc' \in {"shift", "rename"}, i = at' + 1 PROVE InSlot(i)' = {}
  BY <1>1, <1>6
<1> QED BY <1>3, <1>4, <1>5, <1>6 DEF LogOrder

\* Every step keeps the records in order.
LEMMA OrderStep == LogShape /\ LogOrder /\ [LogNext]_lVars => LogOrder' /\ Flows
<1> SUFFICES ASSUME LogShape, LogOrder, [LogNext]_lVars PROVE LogOrder' /\ Flows
  OBVIOUS
<1>1. /\ plain \in [Slots -> File] /\ gz \in [1 .. Keep -> Gzip]
      /\ \A i \in Slots : /\ plain[i] \in File /\ i \in Int /\ InSlot(i) \subseteq Nat
                          /\ Content(plain[i]) \in Seq(Item)
                          /\ Nums(Content(plain[i])) = Nums(plain[i])
                          /\ Rising(plain[i]) /\ Rising(Content(plain[i]))
      /\ Nums(Absent) = {} /\ Nums(<< >>) = {} /\ Rising(Absent) /\ Rising(<< >>)
      /\ Slots = 0 .. Keep /\ Keep \in Nat \ {0} /\ next \in Nat \ {0} /\ at \in 0 .. Keep
  BY FilesAre DEF LogOrder
<1>2. 0 \in Slots /\ 1 \in Slots /\ 1 \in 1 .. Keep /\ Keep \in Slots /\ \A i \in 1 .. Keep : i \in Slots
  BY <1>1
<1>3. \A i \in Slots : Rising(plain[i]) /\ \A k \in 1 .. Keep : Rising(gz[k].data)
  BY DEF LogOrder
<1>4. ASSUME plain' = plain, gz' = gz, next' \in {next, next + 1},
             wpc' \in {"shift", "rename"} => (wpc \in {"shift", "rename"} /\ at' = at) \/ at' = Keep
      PROVE  LogOrder' /\ Flows
  <2>1. \A i \in Slots : InSlot(i)' \subseteq InSlot(i) /\ Rising(plain'[i])
    BY <1>3, <1>4 DEF InSlot
  <2>2. \A i \in 1 .. Keep : Rising(gz'[i].data)
    BY <1>3, <1>4, <1>2
  <2> QED BY <1>4, <2>1, <2>2, FilesShrink
<1>5. \A x \in Item : /\ x <= 0 \/ x = next
                      => /\ Rising(Append(Content(plain[0]), x))
                         /\ Nums(Append(Content(plain[0]), x)) = Nums(plain[0]) \cup (IF x > 0 THEN {x} ELSE {})
  <2>1. \A y \in Nums(Content(plain[0])) : y < next
    BY <1>1, <1>2 DEF LogOrder, InSlot
  <2>2. ASSUME NEW x \in Item, x <= 0 \/ x = next
        PROVE  x > 0 => \A y \in Nums(Content(plain[0])) : y < x
    BY <2>1, <2>2 DEF Item, Torn
  <2> QED BY <1>1, <1>2, <2>2, AppendedFile
<1>6. Header \in Item /\ Torn \in Item /\ Header <= 0 /\ Torn <= 0 /\ ~(Header > 0) /\ ~(Torn > 0)
  BY LogConstants DEF Header, Torn, Item
<1>7. CASE AppendRecord
  <2>1. PICK s \in {plain[0], Content(plain[0])} : plain' = [plain EXCEPT ![0] = s]
    BY <1>1, <1>2, <1>7 DEF AppendRecord
  <2>2. gz' = gz /\ next' = next /\ (wpc' \in {"shift", "rename"} => at' = Keep)
    BY <1>7 DEF AppendRecord
  <2>3. \A i \in Slots : InSlot(i)' = InSlot(i) /\ Rising(plain'[i])
    BY <1>1, <1>2, <2>1, <2>2 DEF InSlot
  <2>4. \A i \in 1 .. Keep : Rising(gz'[i].data)
    BY <1>3, <2>2, <1>2
  <2> QED BY <2>2, <2>3, <2>4, FilesShrink
<1>8. CASE ShiftOne /\ at = Keep
  <2>1. plain' = [plain EXCEPT ![Keep] = Absent] /\ gz' = [gz EXCEPT ![Keep] = NoGz] /\ next' = next /\ at' = at - 1
    BY <1>8 DEF ShiftOne
  <2>2. /\ \A i \in Slots : plain'[i] \in {plain[i], Absent}
        /\ \A i \in 1 .. Keep : gz'[i].data \in {gz[i].data, Absent}
        /\ plain'[Keep] = Absent /\ gz'[Keep].data = Absent
    BY <1>1, <1>2, <2>1 DEF NoGz
  <2>3. (\A i \in Slots : Rising(plain'[i])) /\ (\A i \in 1 .. Keep : Rising(gz'[i].data))
    BY <1>1, <1>2, <1>3, <2>2
  <2>4. \A i \in Slots : InSlot(i)' \subseteq InSlot(i)
    <3>1. ASSUME NEW i \in Slots PROVE Nums(plain'[i]) \subseteq Nums(plain[i])
      BY <1>1, <2>2, <3>1
    <3>2. ASSUME NEW i \in 1 .. Keep PROVE Nums(gz'[i].data) \subseteq Nums(gz[i].data)
      BY <1>1, <2>2, <3>2
    <3>3. \A i \in Slots \ {0} : i \in 1 .. Keep
      BY <1>1
    <3> QED BY <3>1, <3>2, <3>3 DEF InSlot
  <2>5. InSlot(Keep)' = {}
    BY <1>1, <2>2 DEF InSlot
  <2>6. Flows
    BY <1>1, <2>1, <2>4 DEF Flows
  <2>7. \A i \in Slots : wpc' \in {"shift", "rename"} /\ i = at' + 1 => InSlot(i)' = {}
    <3>1. at' + 1 = Keep
      BY <1>1, <1>8, <2>1
    <3> QED BY <2>5, <3>1
  <2>8. \A i, j \in Slots : i < j => \A x \in InSlot(i)', y \in InSlot(j)' : y < x
    BY <2>4 DEF LogOrder
  <2>9. \A i \in Slots : \A x \in InSlot(i)' : x < next'
    BY <2>1, <2>4 DEF LogOrder
  <2> QED BY <2>3, <2>6, <2>7, <2>8, <2>9 DEF LogOrder
<1>9. CASE ShiftOne /\ at # Keep
  <2>0. PICK a \in Slots : a = at
    BY <1>1
  <2>1. /\ plain' = IF plain[a] = Absent THEN plain
                    ELSE [plain EXCEPT ![a + 1] = plain[a], ![a] = Absent]
        /\ gz' = IF gz[a] = NoGz THEN gz ELSE [gz EXCEPT ![a + 1] = gz[a], ![a] = NoGz]
        /\ next' = next /\ at' = a - 1 /\ wpc = "shift"
    BY <1>9, <2>0 DEF ShiftOne
  <2>2. a \in 1 .. Keep /\ a \in Slots /\ a + 1 \in Slots /\ a + 1 \in 1 .. Keep /\ a # 0 /\ a + 1 # 0
    BY <1>1, <1>9, <2>0, <2>1 DEF LogShape
  <2>3. InSlot(a + 1) = {} /\ Nums(plain[a + 1]) = {} /\ Nums(gz[a + 1].data) = {}
    BY <1>1, <1>9, <2>0, <2>1, <2>2 DEF LogOrder, InSlot
  <2>4. /\ Nums(plain'[a]) = {} /\ Nums(plain'[a + 1]) = Nums(plain[a])
        /\ \A i \in Slots : plain'[i] \in {plain[i], plain[a], Absent}
        /\ \A i \in Slots \ {a, a + 1} : plain'[i] = plain[i]
    <3>1. CASE plain[a] = Absent
      BY <1>1, <2>1, <2>3, <3>1
    <3>2. CASE plain[a] # Absent
      BY <1>1, <2>1, <2>2, <3>2
    <3> QED BY <3>1, <3>2
  <2>5. /\ Nums(gz'[a].data) = {} /\ Nums(gz'[a + 1].data) = Nums(gz[a].data)
        /\ \A i \in 1 .. Keep : gz'[i] \in {gz[i], gz[a], NoGz}
        /\ \A i \in (1 .. Keep) \ {a, a + 1} : gz'[i] = gz[i]
    <3>0. NoGz.data = Absent
      BY DEF NoGz
    <3>1. CASE gz[a] = NoGz
      <4>1. gz' = gz
        BY <2>1, <3>1
      <4> QED BY <1>1, <2>3, <3>0, <3>1, <4>1
    <3>2. CASE gz[a] # NoGz
      <4>1. gz' = [gz EXCEPT ![a + 1] = gz[a], ![a] = NoGz]
        BY <2>1, <3>2
      <4>2. gz'[a] = NoGz /\ gz'[a + 1] = gz[a] /\ \A i \in (1 .. Keep) \ {a, a + 1} : gz'[i] = gz[i]
        BY <1>1, <2>2, <4>1
      <4> QED BY <1>1, <3>0, <4>2
    <3> QED BY <3>1, <3>2
  <2>6. InSlot(a)' = {} /\ InSlot(a + 1)' = InSlot(a)
    BY <2>2, <2>4, <2>5 DEF InSlot
  <2>7. \A i \in Slots \ {a, a + 1} : InSlot(i)' = InSlot(i)
    BY <1>1, <2>4, <2>5 DEF InSlot
  <2>8. (\A i \in Slots : Rising(plain'[i])) /\ (\A i \in 1 .. Keep : Rising(gz'[i].data))
    <3>1. NoGz.data = Absent
      BY DEF NoGz
    <3> QED BY <1>1, <1>3, <2>2, <2>4, <2>5, <3>1
  <2> QED BY <2>1, <2>2, <2>3, <2>6, <2>7, <2>8, SlotMoves
<1>10. CASE RenameActive
  <2>1. plain' = [plain EXCEPT ![1] = plain[0], ![0] = Absent] /\ gz' = gz /\ next' = next /\ at' = at /\ wpc' = "open"
        /\ at = 0 /\ wpc = "rename"
    BY <1>10 DEF RenameActive, LogShape
  <2>2. InSlot(0 + 1) = {} /\ 0 + 1 \in Slots /\ Nums(gz[1].data) = {}
    BY <1>1, <1>2, <2>1 DEF LogOrder, InSlot
  <2>3. plain'[0] = Absent /\ plain'[1] = plain[0] /\ \A i \in Slots \ {0, 1} : plain'[i] = plain[i]
    BY <1>1, <1>2, <2>1
  <2>4. InSlot(0)' = {} /\ InSlot(0 + 1)' \subseteq InSlot(0)
    <3>1. Nums(plain'[0]) = {} /\ Nums(plain'[0 + 1]) = Nums(plain[0]) /\ Nums(gz'[0 + 1].data) = {}
      BY <1>1, <2>1, <2>2, <2>3
    <3> QED BY <3>1 DEF InSlot
  <2>6. \A i \in Slots \ {0, 0 + 1} : InSlot(i)' = InSlot(i)
    <3>1. 0 + 1 = 1
      OBVIOUS
    <3>2. \A i \in Slots \ {0, 1} : plain'[i] = plain[i] /\ gz'[i] = gz[i]
      BY <2>1, <2>3
    <3> QED BY <3>1, <3>2, Zenon DEF InSlot
  <2>5. (\A i \in Slots : Rising(plain'[i])) /\ (\A i \in 1 .. Keep : Rising(gz'[i].data))
    BY <1>1, <1>2, <1>3, <2>1, <2>3
  <2> QED BY <1>2, <2>1, <2>2, <2>4, <2>5, <2>6, SlotMoves
<1>11. CASE RenameFails \/ OpenFails \/ PersistDay \/ Midnight \/ LogStart \/ ReadList \/ ReadFile \/ UNCHANGED lVars
  <2>1. UNCHANGED <<plain, gz, next, at>> /\ (wpc' \in {"shift", "rename"} => wpc' = wpc)
    BY <1>11 DEF RenameFails, RenameFailsTo, OpenFails, PersistDay, Midnight, LogStart, ReadList, ReadFile, lVars,
                 files
  <2> QED BY <1>4, <2>1
<1>12. CASE OpenActive
  <2>1. plain' = [plain EXCEPT ![0] = << >>] /\ gz' = gz /\ next' = next /\ wpc' = "header"
    BY <1>12 DEF OpenActive, OpenActiveAs
  <2> QED BY <1>1, <2>1, ActiveGrows
<1>13. CASE AppendHeader
  <2>1. plain[0] = << >> /\ Content(plain[0]) = plain[0]
    BY <1>13 DEF AppendHeader, LogShape, Content, Absent
  <2>2. plain' = [plain EXCEPT ![0] = Append(Content(plain[0]), Header)] /\ gz' = gz /\ next' = next /\ wpc' = "day"
    BY <1>13, <2>1 DEF AppendHeader
  <2>3. Rising(Append(Content(plain[0]), Header)) /\ Nums(Append(Content(plain[0]), Header)) \subseteq Nums(plain[0])
    BY <1>5, <1>6
  <2> QED BY <2>2, <2>3, ActiveGrows
<1>14. CASE WriteRecord
  <2>1. plain' = [plain EXCEPT ![0] = Append(Content(plain[0]), next)] /\ gz' = gz /\ next' = next + 1 /\ wpc' = "idle"
    BY <1>14 DEF WriteRecord
  <2>2. next \in Item
    BY <1>1, <1>14 DEF WriteRecord, LogShape, Item, Torn
  <2>3. /\ Rising(Append(Content(plain[0]), next))
        /\ Nums(Append(Content(plain[0]), next)) \subseteq Nums(plain[0]) \cup {next}
    BY <1>5, <2>2
  <2> QED BY <2>1, <2>3, ActiveGrows
<1>15. CASE AppendFails \/ LogCrash
  <2>1. /\ gz' = gz /\ next' \in {next, next + 1} /\ wpc' \in {"idle", "down"}
        /\ \E s \in {plain[0], Content(plain[0]), Append(Content(plain[0]), Torn)} : plain' = [plain EXCEPT ![0] = s]
    BY <1>1, <1>2, <1>15 DEF AppendFails, LogCrash
  <2>2. PICK s \in {plain[0], Content(plain[0]), Append(Content(plain[0]), Torn)} : plain' = [plain EXCEPT ![0] = s]
    BY <2>1
  <2>3. Rising(s) /\ Nums(s) \subseteq Nums(plain[0])
    BY <1>1, <1>2, <1>5, <1>6, <2>2
  <2> QED BY <2>1, <2>2, <2>3, ActiveGrows
<1>16. ASSUME NEW j \in DOMAIN jobs, CompressOpen(j) PROVE LogOrder' /\ Flows
  <2>1. plain' = plain /\ next' = next /\ at' = at /\ wpc' = wpc
        /\ gz' \in {gz, [gz EXCEPT ![1].data = plain[1]]}
    BY <1>16 DEF CompressOpen
  <2>2. gz'[1].data \in {gz[1].data, plain[1]} /\ \A i \in (1 .. Keep) \ {1} : gz'[i] = gz[i]
    BY <1>1, <1>2, <2>1 DEF Gzip
  <2>3. ASSUME NEW i \in Slots PROVE InSlot(i)' \subseteq InSlot(i)
    <3>1. CASE i = 1
      <4>1. Nums(gz'[1].data) \subseteq Nums(plain[1]) \cup Nums(gz[1].data)
        BY <2>2, Zenon
      <4>2. InSlot(1)' = Nums(plain[1]) \cup Nums(gz'[1].data)
        BY <2>1 DEF InSlot
      <4>3. InSlot(1) = Nums(plain[1]) \cup Nums(gz[1].data)
        BY DEF InSlot
      <4> QED BY <3>1, <4>1, <4>2, <4>3
    <3>2. CASE i = 0
      BY <2>1, <3>2 DEF InSlot
    <3>3. CASE i # 0 /\ i # 1
      <4>1. i \in (1 .. Keep) \ {1}
        BY <1>1, <3>3
      <4>2. gz'[i] = gz[i] /\ plain'[i] = plain[i]
        BY <2>1, <2>2, <4>1, Zenon
      <4> QED BY <4>2, Zenon DEF InSlot
    <3> QED BY <3>1, <3>2, <3>3
  <2>4. \A i \in Slots : Rising(plain'[i])
    BY <1>3, <2>1, Zenon
  <2>5. ASSUME NEW i \in 1 .. Keep PROVE Rising(gz'[i].data)
    <3>1. Rising(gz[1].data) /\ Rising(plain[1]) /\ Rising(gz[i].data)
      BY <1>2, <1>3, Zenon
    <3>2. i = 1 \/ gz'[i] = gz[i]
      BY <2>2, Zenon
    <3> QED BY <2>2, <3>1, <3>2, Zenon
  <2> QED BY <2>1, <2>3, <2>4, <2>5, FilesShrink
<1>17. ASSUME NEW j \in DOMAIN jobs, CompressDone(j) PROVE LogOrder' /\ Flows
  <2>1. plain' = [plain EXCEPT ![1] = Absent] /\ next' = next /\ at' = at /\ wpc' = wpc
    BY <1>17 DEF CompressDone
  <2>2. \A i \in 1 .. Keep : gz'[i].data = gz[i].data
    <3>1. gz' = [i \in 1 .. Keep |-> [gz[i] EXCEPT !.done = gz[i].done \/ gz[i].data = jobs[j].data]]
      BY <1>17 DEF CompressDone
    <3>2. \A i \in 1 .. Keep : gz[i] \in Gzip /\ (gz[i].done \/ gz[i].data = jobs[j].data) \in BOOLEAN
      BY <1>1, Zenon
    <3>3. \A i \in 1 .. Keep : [gz[i] EXCEPT !.done = gz[i].done \/ gz[i].data = jobs[j].data].data = gz[i].data
      BY <3>2, GzipMarked, Zenon
    <3> QED BY <3>1, <3>3, Zenon
  <2>3. \A i \in Slots : plain'[i] \in {plain[i], Absent}
    BY <1>1, <1>2, <2>1
  <2>4. \A i \in Slots : InSlot(i)' \subseteq InSlot(i)
    <3>1. ASSUME NEW i \in Slots PROVE Nums(plain'[i]) \subseteq Nums(plain[i])
      BY <1>1, <2>3, <3>1
    <3>3. \A i \in Slots \ {0} : i \in 1 .. Keep
      BY <1>1
    <3> QED BY <2>2, <3>1, <3>3 DEF InSlot
  <2>5. (\A i \in Slots : Rising(plain'[i])) /\ (\A i \in 1 .. Keep : Rising(gz'[i].data))
    BY <1>1, <1>2, <1>3, <2>2, <2>3
  <2> QED BY <2>1, <2>4, <2>5, FilesShrink
<1> QED BY <1>7, <1>8, <1>9, <1>10, <1>11, <1>12, <1>13, <1>14, <1>15, <1>16, <1>17 DEF LogNext, WriterStep
-----------------------------------------------------------------------------
(* The reader.                                                             *)

Path == Slots \X {"plain", "gz"}

\* It has the paths left to read from older to newer files; what it got from each file is in
\* order, after what it got before, and before all that can still come.
Reads(left, got) ==
    /\ left \in Seq(Path) /\ got \in Seq(Seq(Item))
    /\ \A k, m \in DOMAIN left : k < m => left[m][1] < left[k][1]
    /\ \A k \in DOMAIN left : left[k][2] = "gz" => left[k][1] # 0
    /\ \A a \in DOMAIN got : Rising(got[a]) /\ \A x \in Nums(got[a]) : x < next
    /\ \A a, b \in DOMAIN got : a < b => \A x \in Nums(got[a]), y \in Nums(got[b]) : x < y
    /\ \A k \in DOMAIN left, a \in DOMAIN got : \A i \in Slots :
          i <= left[k][1] => \A x \in Nums(got[a]), y \in InSlot(i) : x < y

ReaderInv == Reads(rd.left, rd.got)

\* Nobody reads at the start.
LEMMA ReaderBegins == LogInit => ReaderInv
<1> SUFFICES ASSUME LogInit PROVE ReaderInv
  OBVIOUS
<1>1. rd.left = << >> /\ rd.got = << >>
  BY DEF LogInit
<1>2. << >> \in Seq(Path) /\ << >> \in Seq(Seq(Item)) /\ DOMAIN << >> = {}
  OBVIOUS
<1> QED BY <1>1, <1>2 DEF ReaderInv, Reads

\* What is read of a path is a part of its slot.
LEMMA DeliveredIs ==
    ASSUME LogShape, LogOrder, NEW p \in Path, p[2] = "gz" => p[1] # 0, NEW items \in Delivered(p)
    PROVE  items \in Seq(Item) /\ Rising(items) /\ Nums(items) \subseteq InSlot(p[1])
<1>1. /\ plain \in [Slots -> File] /\ gz \in [1 .. Keep -> Gzip] /\ Slots = 0 .. Keep
  BY FilesAre
<1>2. p[1] \in Slots /\ p[2] \in {"plain", "gz"}
  BY DEF Path
<1>3. CASE p[2] = "plain"
  <2>1. items = Content(plain[p[1]]) /\ plain[p[1]] \in File
    BY <1>1, <1>2, <1>3 DEF Delivered
  <2>2. items \in Seq(Item) /\ Nums(items) = Nums(plain[p[1]]) /\ Rising(plain[p[1]])
    BY <1>2, <2>1, FileIs DEF LogOrder
  <2>3. Rising(items)
    BY <2>1, <2>2, FileIs
  <2> QED BY <2>2, <2>3 DEF InSlot
<1>4. CASE p[2] # "plain"
  <2>1. p[1] \in 1 .. Keep /\ p[1] # 0
    BY <1>1, <1>2, <1>4
  <2> DEFINE whole == Content(gz[p[1]].data)
  <2>2. gz[p[1]].data \in File /\ Rising(gz[p[1]].data)
    BY <1>1, <2>1 DEF Gzip, LogOrder
  <2>3. whole \in Seq(Item) /\ Rising(whole) /\ Nums(whole) = Nums(gz[p[1]].data)
    BY <2>2, FileIs
  <2>4. items = whole \/ \E n \in 0 .. Len(whole) : items = SubSeq(whole, 1, n)
    BY <1>4 DEF Delivered
  <2>5. Nums(whole) \subseteq InSlot(p[1])
    BY <2>1, <2>3 DEF InSlot
  <2> HIDE DEF whole
  <2>6. ASSUME NEW n \in 0 .. Len(whole), items = SubSeq(whole, 1, n)
        PROVE  items \in Seq(Item) /\ Rising(items) /\ Nums(items) \subseteq Nums(whole)
    <3>1. /\ items \in Seq(Item) /\ DOMAIN items = 1 .. n /\ DOMAIN whole = 1 .. Len(whole)
          /\ \A k \in 1 .. n : items[k] = whole[k]
      BY <2>3, <2>6
    <3>2. \A k \in 1 .. n : k \in DOMAIN whole
      BY <2>3, <2>6, <3>1
    <3>3. Rising(items)
      BY <2>3, <3>1, <3>2 DEF Rising
    <3>4. Nums(items) \subseteq Nums(whole)
      BY <3>1, <3>2 DEF Nums
    <3> QED BY <3>1, <3>3, <3>4
  <2> QED BY <2>3, <2>4, <2>5, <2>6
<1> QED BY <1>3, <1>4

\* The paths of a new reader.
LEMMA PathsAre ==
    ASSUME LogShape, NEW left, left = Append(OldestFirst(Cardinality(Listed(plain, gz))), <<0, "plain">>)
    PROVE  /\ left \in Seq(Path)
           /\ \A k, m \in DOMAIN left : k < m => left[m][1] < left[k][1]
           /\ \A k \in DOMAIN left : left[k][2] = "gz" => left[k][1] # 0
<1>1. Slots = 0 .. Keep /\ Keep \in Nat \ {0}
  BY FilesAre
<1>2. PICK n \in 0 .. Keep : n = Cardinality(Listed(plain, gz))
  <2>1. IsFiniteSet(1 .. Keep) /\ Cardinality(1 .. Keep) = Keep
    BY <1>1, FS_Interval
  <2>2. Listed(plain, gz) \subseteq 1 .. Keep
    BY DEF Listed
  <2>3. Cardinality(Listed(plain, gz)) \in Nat /\ Cardinality(Listed(plain, gz)) <= Keep
    BY <2>1, <2>2, FS_Subset, FS_CardinalityType
  <2> QED BY <1>1, <2>3
<1>3. ASSUME NEW i \in 1 .. Keep
      PROVE  PathFor(i) \in Path /\ PathFor(i)[1] = i
  BY <1>1, <1>3 DEF PathFor, Path
<1> DEFINE older == OldestFirst(n)
<1>4. older \in Seq(Path) /\ Len(older) = n /\ \A k \in 1 .. n : older[k] \in Path /\ older[k][1] = n + 1 - k
  <2>1. \A k \in 1 .. n : n + 1 - k \in 1 .. Keep
    BY <1>1
  <2>2. \A k \in 1 .. n : PathFor(n + 1 - k) \in Path /\ PathFor(n + 1 - k)[1] = n + 1 - k
    BY <1>3, <2>1
  <2>3. older = [k \in 1 .. n |-> PathFor(n + 1 - k)]
    BY DEF OldestFirst
  <2> HIDE DEF older
  <2>4. n \in Nat /\ \A k \in 1 .. n : older[k] = PathFor(n + 1 - k)
    BY <2>3
  <2> QED BY <2>2, <2>3, <2>4
<1> DEFINE last == <<0, "plain">>
<1>5. left = Append(older, last)
  BY <1>2
<1> HIDE DEF older
<1>6. last \in Path /\ last[1] = 0 /\ last[2] = "plain"
  BY <1>1 DEF Path
<1> HIDE DEF last
<1>7. /\ left \in Seq(Path) /\ DOMAIN left = 1 .. n + 1 /\ left[n + 1] = last
      /\ \A k \in 1 .. n : left[k] = older[k]
  <2>1. /\ Append(older, last) \in Seq(Path) /\ Len(Append(older, last)) = Len(older) + 1
        /\ Append(older, last)[Len(older) + 1] = last
        /\ \A k \in 1 .. Len(older) : Append(older, last)[k] = older[k]
    BY <1>4, <1>6, AppendProperties
  <2>2. left \in Seq(Path) /\ Len(left) = n + 1 /\ left[n + 1] = last /\ \A k \in 1 .. n : left[k] = older[k]
    BY <1>4, <1>5, <2>1
  <2> QED BY <2>2
<1>8. \A k \in 1 .. n + 1 : left[k][1] = n + 1 - k
  <2>1. \A k \in 1 .. n + 1 : k \in 1 .. n \/ k = n + 1
    OBVIOUS
  <2>2. n + 1 - (n + 1) = 0
    OBVIOUS
  <2> QED BY <1>4, <1>6, <1>7, <2>1, <2>2
<1>9. ASSUME NEW k \in DOMAIN left, NEW m \in DOMAIN left, k < m PROVE left[m][1] < left[k][1]
  BY <1>1, <1>7, <1>8, <1>9
<1>10. ASSUME NEW k \in DOMAIN left, left[k][2] = "gz" PROVE left[k][1] # 0
  <2>1. k # n + 1
    BY <1>6, <1>7, <1>10
  <2>2. k \in 1 .. n + 1 /\ left[k][1] = n + 1 - k
    BY <1>7, <1>8
  <2> QED BY <2>1, <2>2
<1> QED BY <1>7, <1>9, <1>10

\* What it has read stays ahead of what the files hold, wherever they are moved.
LEMMA ReaderStep == LogShape /\ LogOrder /\ ReaderInv /\ [LogNext]_lVars => ReaderInv'
<1> SUFFICES ASSUME LogShape, LogOrder, ReaderInv, [LogNext]_lVars PROVE ReaderInv'
  OBVIOUS
<1>1. Flows /\ next \in Nat /\ Slots = 0 .. Keep /\ \A i \in Slots : InSlot(i) \subseteq Nat /\ i \in Int
  BY OrderStep, FilesAre
<1>2. PICK left, got : left = rd.left /\ got = rd.got /\ Reads(left, got)
  BY DEF ReaderInv
<1>3. /\ left \in Seq(Path) /\ got \in Seq(Seq(Item))
      /\ \A k \in DOMAIN left : left[k] \in Path /\ left[k][1] \in Slots
  BY <1>2 DEF Reads, Path
<1>4. \A a \in DOMAIN got : got[a] \in Seq(Item) /\ Nums(got[a]) \subseteq Nat
  BY <1>3 DEF Nums
<1>5. CASE rd' = rd
  <2>1. rd'.left = left /\ rd'.got = got
    BY <1>2, <1>5
  <2>2. ASSUME NEW a \in DOMAIN got, NEW x \in Nums(got[a]) PROVE x < next'
    <3>1. x \in Nat /\ x < next
      BY <1>2, <1>4 DEF Reads
    <3>2. next' \in {next, next + 1}
      BY <1>1 DEF Flows
    <3> QED BY <1>1, <3>1, <3>2
  <2>3. ASSUME NEW k \in DOMAIN left, NEW a \in DOMAIN got, NEW i \in Slots, i <= left[k][1],
               NEW x \in Nums(got[a]), NEW y \in InSlot(i)'
        PROVE  x < y
    <3>1. x < next
      BY <1>2 DEF Reads
    <3>2. CASE y = next
      BY <3>1, <3>2
    <3>3. ASSUME NEW j \in Slots, j <= i, y \in InSlot(j) PROVE x < y
      <4>1. j <= left[k][1]
        BY <1>1, <1>3, <2>3, <3>3
      <4> QED BY <1>2, <3>3, <4>1 DEF Reads
    <3> QED BY <1>1, <3>2, <3>3 DEF Flows
  <2> QED BY <1>2, <2>1, <2>2, <2>3 DEF ReaderInv, Reads
<1>6. CASE rd' = [left |-> << >>, got |-> << >>]
  <2>1. rd'.left = << >> /\ rd'.got = << >>
    BY <1>6
  <2>2. << >> \in Seq(Path) /\ << >> \in Seq(Seq(Item)) /\ DOMAIN << >> = {}
    OBVIOUS
  <2> QED BY <2>1, <2>2 DEF ReaderInv, Reads
<1>7. CASE ReadList
  <2>1. rd'.left = Append(OldestFirst(Cardinality(Listed(plain, gz))), <<0, "plain">>) /\ rd'.got = << >>
    BY <1>7 DEF ReadList
  <2>2. << >> \in Seq(Seq(Item)) /\ DOMAIN << >> = {}
    OBVIOUS
  <2>3. /\ rd'.left \in Seq(Path)
        /\ \A k, m \in DOMAIN rd'.left : k < m => rd'.left[m][1] < rd'.left[k][1]
        /\ \A k \in DOMAIN rd'.left : rd'.left[k][2] = "gz" => rd'.left[k][1] # 0
    BY <2>1, PathsAre
  <2> QED BY <2>1, <2>2, <2>3 DEF ReaderInv, Reads
<1>8. CASE ReadFile
  <2>1. PICK items \in Delivered(Head(left)) :
           left # << >> /\ rd'.left = Tail(left) /\ rd'.got = Append(got, items)
    BY <1>2, <1>8 DEF ReadFile
  <2>2. /\ 1 \in DOMAIN left /\ Head(left) = left[1] /\ Tail(left) \in Seq(Path)
        /\ \A k \in DOMAIN Tail(left) : k + 1 \in DOMAIN left /\ Tail(left)[k] = left[k + 1] /\ k \in Nat \ {0}
    BY <1>3, <2>1
  <2>3. items \in Seq(Item) /\ Rising(items) /\ Nums(items) \subseteq InSlot(left[1][1]) /\ left[1][1] \in Slots
    BY <1>2, <1>3, <2>1, <2>2, DeliveredIs DEF Reads
  <2> DEFINE l == Tail(left)
             g == Append(got, items)
             n == Len(got)
  <2>4. /\ g \in Seq(Seq(Item)) /\ DOMAIN g = 1 .. n + 1 /\ g[n + 1] = items /\ n \in Nat
        /\ \A a \in 1 .. n : g[a] = got[a] /\ a \in DOMAIN got
    BY <1>3, <2>3
  <2>5. UNCHANGED <<plain, gz, next>>
    BY <1>8 DEF ReadFile, files
  <2>6. \A i \in Slots : InSlot(i)' = InSlot(i)
    BY <2>5 DEF InSlot
  <2> HIDE DEF l, g, n
  <2>7. l \in Seq(Path) /\ \A k \in DOMAIN l : k + 1 \in DOMAIN left /\ l[k] = left[k + 1] /\ k \in Nat \ {0}
    BY <2>2 DEF l
  <2>8. \A a \in 1 .. n + 1 : a = n + 1 \/ a \in 1 .. n
    BY <2>4
  <2>9. ASSUME NEW k \in DOMAIN l, NEW m \in DOMAIN l, k < m PROVE l[m][1] < l[k][1]
    <3>1. k + 1 < m + 1
      BY <2>7, <2>9
    <3> QED BY <1>2, <2>7, <3>1 DEF Reads
  <2>10. \A k \in DOMAIN l : l[k][2] = "gz" => l[k][1] # 0
    BY <1>2, <2>7 DEF Reads
  <2>11. ASSUME NEW a \in DOMAIN g PROVE Rising(g[a]) /\ \A x \in Nums(g[a]) : x < next
    <3>1. CASE a = n + 1
      BY <2>3, <2>4, <3>1 DEF LogOrder
    <3>2. CASE a \in 1 .. n
      BY <1>2, <2>4, <3>2 DEF Reads
    <3> QED BY <2>4, <2>8, <3>1, <3>2
  <2>12. ASSUME NEW a \in DOMAIN g, NEW b \in DOMAIN g, a < b, NEW x \in Nums(g[a]), NEW y \in Nums(g[b])
         PROVE  x < y
    <3>1. a \in 1 .. n
      BY <2>4, <2>12
    <3>2. CASE b = n + 1
      <4>1. y \in InSlot(left[1][1]) /\ x \in Nums(got[a]) /\ a \in DOMAIN got
        BY <2>3, <2>4, <2>12, <3>1, <3>2
      <4>2. left[1][1] <= left[1][1]
        BY <1>1, <2>3
      <4> QED BY <1>2, <2>2, <2>3, <4>1, <4>2 DEF Reads
    <3>3. CASE b \in 1 .. n
      BY <1>2, <2>4, <2>12, <3>1, <3>3 DEF Reads
    <3> QED BY <2>4, <2>8, <3>2, <3>3
  <2>13. ASSUME NEW k \in DOMAIN l, NEW a \in DOMAIN g, NEW i \in Slots, i <= l[k][1],
                NEW x \in Nums(g[a]), NEW y \in InSlot(i)
         PROVE  x < y
    <3>1. k + 1 \in DOMAIN left /\ i <= left[k + 1][1]
      BY <2>7, <2>13
    <3>2. CASE a = n + 1
      <4>1. 1 < k + 1
        BY <2>7
      <4>2. left[k + 1][1] < left[1][1] /\ left[k + 1][1] \in Slots
        BY <1>2, <1>3, <2>2, <3>1, <4>1 DEF Reads
      <4>3. i < left[1][1]
        BY <1>1, <2>3, <3>1, <4>2
      <4>4. x \in InSlot(left[1][1])
        BY <2>3, <2>4, <2>13, <3>2
      <4> QED BY <2>3, <2>13, <4>3, <4>4 DEF LogOrder
    <3>3. CASE a \in 1 .. n
      <4>1. x \in Nums(got[a]) /\ a \in DOMAIN got
        BY <2>4, <2>13, <3>3
      <4> QED BY <1>2, <2>13, <3>1, <4>1 DEF Reads
    <3> QED BY <2>4, <2>8, <3>2, <3>3
  <2>14. rd'.left = l /\ rd'.got = g
    BY <2>1 DEF l, g
  <2> QED BY <2>4, <2>5, <2>6, <2>7, <2>9, <2>10, <2>11, <2>12, <2>13, <2>14 DEF ReaderInv, Reads
<1>9. rd' = rd \/ rd' = [left |-> << >>, got |-> << >>] \/ ReadList \/ ReadFile
  BY DEF LogNext, WriterStep, AppendRecord, ShiftOne, RenameActive, RenameFails, RenameFailsTo, OpenActive,
         OpenActiveAs, OpenFails, AppendHeader, PersistDay, WriteRecord, AppendFails, Midnight, LogCrash,
         LogStart, CompressOpen, CompressDone, lVars
<1> QED BY <1>5, <1>6, <1>7, <1>8, <1>9

\* So what it got, up to a torn record in each file, is in order.
LEMMA ReadsAreOrdered == ReaderInv => ReadsInOrder
<1> SUFFICES ASSUME ReaderInv PROVE ReadsInOrder
  OBVIOUS
<1>1. PICK got : got = rd.got /\ Reads(rd.left, got)
  BY DEF ReaderInv
<1>2. ASSUME NEW a \in DOMAIN got, NEW k \in Readable(got[a]), got[a][k] # Header
      PROVE  k \in DOMAIN got[a] /\ got[a][k] \in Nums(got[a]) /\ got[a][k] > 0 /\ k \in Nat
  <2>1. got[a] \in Seq(Item) /\ k \in DOMAIN got[a]
    BY <1>1, <1>2 DEF Reads, Readable
  <2>2. k \in 1 .. k
    BY <2>1
  <2>3. got[a][k] # Torn
    BY <1>2, <2>2 DEF Readable
  <2>4. got[a][k] \in Item
    BY <2>1
  <2>5. got[a][k] \in Nat \ {0}
    BY <1>2, <2>3, <2>4, LogConstants DEF Item, Torn, Header
  <2> QED BY <2>1, <2>5 DEF Nums
<1>3. ASSUME NEW a \in DOMAIN got, NEW b \in DOMAIN got, NEW k \in Readable(got[a]), NEW m \in Readable(got[b]),
             a < b \/ (a = b /\ k < m), got[a][k] # Header, got[b][m] # Header
      PROVE  got[a][k] < got[b][m]
  <2>1. CASE a < b
    BY <1>1, <1>2, <1>3, <2>1 DEF Reads
  <2>2. CASE a = b /\ k < m
    <3>1. Rising(got[a])
      BY <1>1 DEF Reads
    <3> QED BY <1>2, <1>3, <2>2, <3>1 DEF Rising
  <2> QED BY <1>3, <2>1, <2>2
<1> QED BY <1>1, <1>3 DEF ReadsInOrder, InOrder
-----------------------------------------------------------------------------
(* The headers.                                                            *)

\* A file has at most one header, and has it first if it has records.
Headed(s) ==
    /\ Nums(s) # {} => s[1] = Header
    /\ \A k \in DOMAIN s : k # 1 => s[k] # Header

\* The active file has its header.
Leads == 1 \in DOMAIN plain[0] /\ plain[0][1] = Header

\* Unless an append of a header or a start after a crash went wrong: where a record is to be
\* appended without a rotation, there is a header; while a rotation lasts, it is called for.
HeaderInv ==
    "headless" \notin scars =>
        /\ \A i \in Slots : Headed(plain[i])
        /\ wpc \in {"day", "record", "down"} => Leads
        /\ wpc = "idle" => Leads \/ Due
        /\ wpc \in {"shift", "rename", "open", "reopen"} => Due

\* No file and an empty one have no header to miss.
LEMMA HeadedContent ==
    ASSUME NEW s \in File, Headed(s)
    PROVE  /\ Headed(Content(s)) /\ Headed(Absent) /\ Headed(<< >>)
           /\ (1 \in DOMAIN s /\ s[1] = Header => Content(s) = s)
<1>1. Nums(Absent) = {} /\ Nums(<< >>) = {} /\ (s # Absent => Content(s) = s)
  BY FileIs
<1>2. DOMAIN Absent = {1} /\ DOMAIN << >> = {} /\ Absent[1] # Header
  BY DEF Absent, Header
<1>3. Headed(Absent) /\ Headed(<< >>)
  BY <1>1, <1>2 DEF Headed
<1>4. Content(s) = s \/ Content(s) = << >>
  BY DEF Content
<1> QED BY <1>1, <1>2, <1>3, <1>4

\* What is appended to a file that has its header, and is not one, leaves it first.
LEMMA HeadedAppend ==
    ASSUME NEW s \in Seq(Item), NEW x \in Item, Headed(s),
           \/ 1 \in DOMAIN s /\ s[1] = Header /\ x # Header
           \/ s = << >> /\ x = Header
    PROVE  LET t == Append(s, x) IN Headed(t) /\ 1 \in DOMAIN t /\ t[1] = Header
<1> DEFINE t == Append(s, x)
<1>1. /\ t \in Seq(Item) /\ Len(t) = Len(s) + 1 /\ t[Len(s) + 1] = x /\ Len(s) \in Nat
      /\ \A k \in 1 .. Len(s) : t[k] = s[k]
      /\ DOMAIN t = 1 .. Len(s) + 1 /\ DOMAIN s = 1 .. Len(s)
  OBVIOUS
<1> HIDE DEF t
<1>2. 1 \in DOMAIN t /\ t[1] = Header
  <2>1. CASE 1 \in DOMAIN s /\ s[1] = Header
    BY <1>1, <2>1
  <2>2. CASE s = << >> /\ x = Header
    BY <1>1, <2>2
  <2> QED BY <2>1, <2>2
<1>3. ASSUME NEW k \in DOMAIN t, k # 1 PROVE t[k] # Header
  <2>1. k \in 1 .. Len(s) \/ k = Len(s) + 1
    BY <1>1, <1>3
  <2>2. CASE k \in 1 .. Len(s)
    BY <1>1, <1>3, <2>2 DEF Headed
  <2>3. CASE k = Len(s) + 1
    BY <1>1, <1>3, <2>3
  <2> QED BY <2>1, <2>2, <2>3
<1> QED BY <1>2, <1>3 DEF Headed, t

\* At the start the first append is to write a header, ...
LEMMA HeaderBegins == LogInit => HeaderInv
<1> SUFFICES ASSUME LogInit PROVE HeaderInv
  OBVIOUS
<1>1. Absent \in File /\ << >> \in File /\ Nums(<< >>) = {}
  BY FileIs DEF File
<1>2. Headed(<< >>)
  BY <1>1 DEF Headed
<1>3. Headed(Absent)
  BY <1>1, FileIs DEF Headed, Absent
<1> QED BY <1>3 DEF LogInit, HeaderInv, Due

\* ... and every step keeps the headers where they belong.
LEMMA HeaderStep == LogShape /\ HeaderInv /\ [LogNext]_lVars => HeaderInv'
<1> SUFFICES ASSUME LogShape, HeaderInv, [LogNext]_lVars, "headless" \notin scars' PROVE HeaderInv'
  BY DEF HeaderInv
<1>1. scars \subseteq scars' /\ "headless" \notin scars
  BY DEF LogNext, WriterStep, AppendRecord, ShiftOne, RenameActive, RenameFails, RenameFailsTo, OpenActive,
         OpenActiveAs, OpenFails, AppendHeader, PersistDay, WriteRecord, AppendFails, Midnight, LogCrash,
         LogStart, CompressOpen, CompressDone, ReadList, ReadFile, lVars
<1>2. /\ \A i \in Slots : Headed(plain[i])
      /\ wpc \in {"day", "record", "down"} => Leads
      /\ wpc = "idle" => Leads \/ Due
      /\ wpc \in {"shift", "rename", "open", "reopen"} => Due
  BY <1>1 DEF HeaderInv
<1>3. /\ plain \in [Slots -> File] /\ 0 \in Slots /\ 1 \in Slots /\ Keep \in Slots /\ Slots = 0 .. Keep
      /\ Content(plain[0]) \in Seq(Item) /\ Absent \in File /\ << >> \in File
  <2>1. plain[0] \in File
    BY FilesAre
  <2>2. Content(plain[0]) \in Seq(Item)
    BY <2>1, FileIs
  <2> QED BY <2>2, FilesAre, LogConstants DEF LogShape, Item, Torn, File
<1>4. /\ \A i \in Slots : Headed(Content(plain[i]))
      /\ Headed(Absent) /\ Headed(<< >>)
      /\ Leads => Content(plain[0]) = plain[0]
  BY <1>2, <1>3, HeadedContent DEF Leads
<1>5. \A x \in Item : Leads /\ x # Header
                      => LET t == Append(Content(plain[0]), x) IN Headed(t) /\ 1 \in DOMAIN t /\ t[1] = Header
  BY <1>3, <1>4, HeadedAppend DEF Leads
<1>6. Header \in Item /\ Torn \in Item /\ Header # Torn
  BY LogConstants DEF Header, Torn, Item
<1>7. CASE AppendRecord
  <2>1. CASE ~Due
    <3>1. wpc' = "record" /\ plain' = plain /\ wpc = "idle"
      BY <1>7, <2>1 DEF AppendRecord
    <3> QED BY <1>2, <2>1, <3>1 DEF HeaderInv, Leads
  <2>2. CASE Due
    <3>1. /\ wpc' \in {"reopen", "shift"} /\ UNCHANGED <<activeDay, headerWritten, bytes, day>>
          /\ plain' = [plain EXCEPT ![0] = IF cached THEN plain[0] ELSE Content(plain[0])]
      BY <1>7, <2>2 DEF AppendRecord, writer
    <3>2. \A i \in Slots : plain'[i] = plain[i] \/ plain'[i] = Content(plain[i])
      BY <1>3, <3>1
    <3>3. \A i \in Slots : Headed(plain'[i])
      BY <1>2, <1>4, <3>2
    <3>4. Due'
      BY <2>2, <3>1 DEF Due
    <3> QED BY <3>1, <3>3, <3>4 DEF HeaderInv
  <2> QED BY <2>1, <2>2
<1>8. CASE ShiftOne
  <2>1. /\ wpc = "shift" /\ wpc' \in {"shift", "rename"} /\ UNCHANGED <<activeDay, headerWritten, bytes, day>>
        /\ at \in 1 .. Keep /\ (at # Keep => at + 1 \in Slots)
    BY <1>3, <1>8 DEF ShiftOne, writer, LogShape
  <2>2. \A i \in Slots : plain'[i] \in {plain[i], Absent, plain[at]}
    BY <1>3, <1>8, <2>1 DEF ShiftOne
  <2>3. at \in Slots
    BY <1>3, <2>1
  <2>4. \A i \in Slots : Headed(plain'[i])
    BY <1>2, <1>4, <2>2, <2>3
  <2>5. Due'
    BY <1>2, <2>1 DEF Due
  <2> QED BY <2>1, <2>4, <2>5 DEF HeaderInv
<1>9. CASE RenameActive
  <2>1. /\ wpc = "rename" /\ wpc' = "open" /\ UNCHANGED <<activeDay, headerWritten, bytes, day>>
        /\ plain' = [plain EXCEPT ![1] = plain[0], ![0] = Absent]
    BY <1>9 DEF RenameActive, writer
  <2>2. \A i \in Slots : plain'[i] \in {plain[i], Absent, plain[0]}
    BY <1>3, <2>1
  <2>3. \A i \in Slots : Headed(plain'[i])
    BY <1>2, <1>3, <1>4, <2>2
  <2>4. Due'
    BY <1>2, <2>1 DEF Due
  <2> QED BY <2>1, <2>3, <2>4 DEF HeaderInv
<1>10. CASE RenameFails \/ OpenFails
  <2>1. wpc \in {"rename", "open", "reopen"} /\ wpc' = "idle"
        /\ UNCHANGED <<plain, activeDay, headerWritten, bytes, day>>
    BY <1>10 DEF RenameFails, RenameFailsTo, OpenFails, writer, files
  <2>2. Due'
    BY <1>2, <2>1 DEF Due
  <2> QED BY <1>2, <2>1, <2>2 DEF HeaderInv
<1>11. CASE OpenActive
  <2>1. wpc' = "header" /\ plain' = [plain EXCEPT ![0] = << >>]
    BY <1>11 DEF OpenActive, OpenActiveAs
  <2>2. \A i \in Slots : Headed(plain'[i])
    BY <1>2, <1>3, <1>4, <2>1
  <2> QED BY <2>1, <2>2 DEF HeaderInv
<1>12. CASE AppendHeader
  <2>1. wpc' = "day" /\ plain' = [plain EXCEPT ![0] = Append(plain[0], Header)] /\ plain[0] = << >>
    BY <1>12 DEF AppendHeader, LogShape
  <2> DEFINE t == Append(<< >>, Header)
  <2>2. Headed(t) /\ 1 \in DOMAIN t /\ t[1] = Header
    <3>1. << >> \in Seq(Item)
      OBVIOUS
    <3> QED BY <1>4, <1>6, <3>1, HeadedAppend
  <2> HIDE DEF t
  <2>3. plain' = [plain EXCEPT ![0] = t]
    BY <2>1 DEF t
  <2>4. plain'[0] = t /\ \A i \in Slots : plain'[i] \in {plain[i], t}
    BY <1>3, <2>3
  <2>5. \A i \in Slots : Headed(plain'[i])
    BY <1>2, <2>2, <2>4
  <2> QED BY <2>1, <2>2, <2>4, <2>5 DEF HeaderInv, Leads
<1>13. CASE PersistDay \/ LogStart
  <2>1. wpc \in {"day", "down"} /\ wpc' \in {"record", "idle"} /\ UNCHANGED plain
    BY <1>13 DEF PersistDay, LogStart, files
  <2> QED BY <1>2, <2>1 DEF HeaderInv, Leads
<1>14. CASE WriteRecord
  <2>1. wpc = "record" /\ wpc' = "idle" /\ plain' = [plain EXCEPT ![0] = Append(Content(plain[0]), next)]
    BY <1>14 DEF WriteRecord
  <2>2. next \in Item /\ next # Header
    BY <2>1, LogConstants DEF LogShape, Item, Torn, Header
  <2> DEFINE t == Append(Content(plain[0]), next)
  <2>3. Headed(t) /\ 1 \in DOMAIN t /\ t[1] = Header
    BY <1>2, <1>5, <2>1, <2>2
  <2> HIDE DEF t
  <2>4. plain' = [plain EXCEPT ![0] = t]
    BY <2>1 DEF t
  <2>5. plain'[0] = t /\ \A i \in Slots : plain'[i] \in {plain[i], t}
    BY <1>3, <2>4
  <2>6. \A i \in Slots : Headed(plain'[i])
    BY <1>2, <2>3, <2>5
  <2> QED BY <2>1, <2>3, <2>5, <2>6 DEF HeaderInv, Leads
<1>15. CASE AppendFails
  <2>1. wpc \in {"record", "header"} /\ (wpc = "header" => "headless" \in scars')
    BY <1>15 DEF AppendFails
  <2>2. wpc = "record" /\ Leads
    BY <1>2, <2>1
  <2>3. /\ wpc' = "idle"
        /\ \E t \in {Content(plain[0]), Append(Content(plain[0]), Torn)} : plain' = [plain EXCEPT ![0] = t]
    BY <1>15 DEF AppendFails
  <2>4. PICK t \in {Content(plain[0]), Append(Content(plain[0]), Torn)} : plain' = [plain EXCEPT ![0] = t]
    BY <2>3
  <2>5. Headed(t) /\ 1 \in DOMAIN t /\ t[1] = Header
    <3>1. Headed(Content(plain[0])) /\ 1 \in DOMAIN Content(plain[0]) /\ Content(plain[0])[1] = Header
      BY <1>3, <1>4, <2>2 DEF Leads
    <3> QED BY <1>5, <1>6, <2>2, <2>4, <3>1
  <2>6. plain'[0] = t /\ \A i \in Slots : plain'[i] \in {plain[i], t}
    BY <1>3, <2>4
  <2>7. \A i \in Slots : Headed(plain'[i])
    BY <1>2, <2>5, <2>6
  <2> QED BY <2>3, <2>5, <2>6, <2>7 DEF HeaderInv, Leads
<1>16. CASE Midnight
  <2>1. UNCHANGED <<plain, wpc, activeDay, headerWritten, bytes>> /\ day' = day + 1
    BY <1>16 DEF Midnight, files, writer
  <2>2. activeDay # day'
    BY <2>1 DEF LogShape, LogTypeOK
  <2>3. Due'
    BY <2>1, <2>2 DEF Due
  <2> QED BY <1>2, <2>1, <2>3 DEF HeaderInv, Leads
<1>17. CASE LogCrash
  <2>1. Header \in Range(plain[0])
    BY <1>17 DEF LogCrash
  <2>2. Leads
    <3>1. PICK k \in DOMAIN plain[0] : plain[0][k] = Header
      BY <2>1 DEF Range
    <3>2. k = 1
      BY <1>2, <1>3, <3>1 DEF Headed
    <3> QED BY <3>1, <3>2 DEF Leads
  <2>3. wpc' = "down" /\ \E t \in {plain[0], Append(Content(plain[0]), Torn)} : plain' = [plain EXCEPT ![0] = t]
    BY <1>3, <1>17 DEF LogCrash
  <2>4. PICK t \in {plain[0], Append(Content(plain[0]), Torn)} : plain' = [plain EXCEPT ![0] = t]
    BY <2>3
  <2>5. Headed(t) /\ 1 \in DOMAIN t /\ t[1] = Header
    <3>1. Headed(plain[0]) /\ 1 \in DOMAIN plain[0] /\ plain[0][1] = Header
      BY <1>2, <1>3, <2>2 DEF Leads
    <3> QED BY <1>5, <1>6, <2>2, <2>4, <3>1
  <2>6. plain'[0] = t /\ \A i \in Slots : plain'[i] \in {plain[i], t}
    BY <1>3, <2>4
  <2>7. \A i \in Slots : Headed(plain'[i])
    BY <1>2, <2>5, <2>6
  <2> QED BY <2>3, <2>5, <2>6, <2>7 DEF HeaderInv, Leads
<1>18. CASE ReadList \/ ReadFile \/ UNCHANGED lVars
  <2>1. UNCHANGED <<plain, wpc, activeDay, headerWritten, bytes, day>>
    BY <1>18 DEF ReadList, ReadFile, files, writer, lVars
  <2>2. Due' = Due
    BY <2>1 DEF Due
  <2> QED BY <1>2, <2>1, <2>2 DEF HeaderInv, Leads
<1>19. ASSUME NEW j \in DOMAIN jobs, CompressOpen(j) \/ CompressDone(j) PROVE HeaderInv'
  <2>1. UNCHANGED <<wpc, activeDay, headerWritten, bytes, day>> /\ plain' \in {plain, [plain EXCEPT ![1] = Absent]}
    BY <1>19 DEF CompressOpen, CompressDone, writer
  <2>2. plain'[0] = plain[0] /\ \A i \in Slots : plain'[i] \in {plain[i], Absent}
    BY <1>3, <2>1
  <2>3. \A i \in Slots : Headed(plain'[i])
    BY <1>2, <1>4, <2>2
  <2>4. Due' = Due /\ Leads' = Leads
    BY <2>1, <2>2 DEF Due, Leads
  <2> QED BY <1>2, <2>1, <2>3, <2>4 DEF HeaderInv
<1> QED BY <1>7, <1>8, <1>9, <1>10, <1>11, <1>12, <1>13, <1>14, <1>15, <1>16, <1>17, <1>18, <1>19
        DEF LogNext, WriterStep

\* So each file that can be read begins with its header.
LEMMA HeadersLead == LogShape /\ HeaderInv => HeaderLeads
<1> SUFFICES ASSUME LogShape, HeaderInv, "headless" \notin scars, NEW i \in Slots
             PROVE  LET items == Content(plain[i])
                    IN  /\ Records(items) # {} => items[1] = Header
                        /\ \A k \in Readable(items) \ {1} : items[k] # Header
  BY DEF HeaderLeads
<1>1. plain[i] \in File /\ Headed(plain[i])
  BY FilesAre DEF HeaderInv
<1> DEFINE items == Content(plain[i])
<1>2. items \in Seq(Item) /\ Headed(items)
  BY <1>1, FileIs, HeadedContent
<1> HIDE DEF items
<1>3. ASSUME NEW x \in Records(items) PROVE x \in Nums(items)
  <2>1. PICK k \in Readable(items) : x = items[k] /\ x # Header
    BY <1>3 DEF Records
  <2>2. k \in DOMAIN items /\ k \in 1 .. k /\ k \in Nat
    BY <1>2, <2>1 DEF Readable
  <2>3. x # Torn /\ x \in Item
    BY <1>2, <2>1, <2>2 DEF Readable
  <2>4. x \in Nat \ {0}
    BY <2>1, <2>3, LogConstants DEF Item, Torn, Header
  <2> QED BY <2>1, <2>2, <2>4 DEF Nums
<1>4. Records(items) # {} => items[1] = Header
  BY <1>2, <1>3 DEF Headed
<1>5. \A k \in Readable(items) \ {1} : items[k] # Header
  BY <1>2 DEF Readable, Headed
<1> QED BY <1>4, <1>5 DEF items
-----------------------------------------------------------------------------
(* The records.                                                            *)

\* No partial record, no rotation that stopped half way or ran beside a compressor.
Clean == scars \cap {"torn", "gap", "overlap"} = {}

Occupied(i) == plain[i] # Absent \/ gz[i] # NoGz

Rotating == {"shift", "rename", "open", "reopen"}

\* There is one compressor at most, none while the log is rotated; it copies what is called .1.
OneCompressor ==
    /\ Len(jobs) <= 1 /\ (jobs # << >> => wpc \notin Rotating)
    /\ \A j \in DOMAIN jobs : jobs[j].st = "copy" =>
          plain[1] # Absent /\ gz[1] # NoGz /\ jobs[j].data = plain[1]

\* A gzip is a copy of the file it stands beside, and complete when it stands alone.
GzipsAreCopies ==
    \A i \in 1 .. Keep : gz[i] # NoGz =>
        /\ gz[i].data # Absent
        /\ IF plain[i] = Absent THEN gz[i].done ELSE gz[i].data = plain[i]

\* The rotated files are numbered without a gap, but for the place the shift has freed.
NoGaps ==
    /\ \A i, k \in 1 .. Keep : k < i /\ Occupied(i) /\ ~Occupied(k) => wpc \in {"shift", "rename"} /\ k = at + 1
    /\ \A i \in 1 .. Keep : wpc \in {"shift", "rename"} /\ i = at + 1 => ~Occupied(i)
    /\ wpc \in {"shift", "rename"} => plain[0] # Absent

NothingTorn ==
    /\ \A i \in Slots : \A k \in DOMAIN plain[i] : plain[i][k] # Torn
    /\ \A i \in 1 .. Keep : \A k \in DOMAIN gz[i].data : gz[i].data[k] # Torn

\* Every record acknowledged and not aged out is in a file.
AllHeld == \A r \in acked \ aged : \E i \in Slots : r \in InSlot(i)

SurviveInv == Clean => OneCompressor /\ GzipsAreCopies /\ NoGaps /\ NothingTorn /\ AllHeld

\* At the start nothing is held or owed.
LEMMA SurviveBegins == LogInit => SurviveInv
<1> SUFFICES ASSUME LogInit PROVE OneCompressor /\ GzipsAreCopies /\ NoGaps /\ NothingTorn /\ AllHeld
  BY DEF SurviveInv
<1>1. jobs = << >> /\ acked = {} /\ wpc = "idle" /\ plain = [i \in Slots |-> Absent] /\ gz = [i \in 1 .. Keep |-> NoGz]
  BY DEF LogInit
<1>2. DOMAIN Absent = {1} /\ Absent[1] = -2 /\ -2 # Torn /\ NoGz.data = Absent
  BY DEF Absent, Torn, NoGz
<1>3. \A i \in Slots : plain[i] = Absent
  BY <1>1
<1>4. \A i \in 1 .. Keep : gz[i] = NoGz /\ i \in Slots
  BY <1>1, LogConstants DEF Slots
<1>5. Len(<< >>) = 0 /\ DOMAIN << >> = {}
  OBVIOUS
<1>6. OneCompressor
  BY <1>1, <1>5 DEF OneCompressor
<1>7. GzipsAreCopies
  BY <1>4 DEF GzipsAreCopies
<1>8. NoGaps
  BY <1>1, <1>3, <1>4 DEF NoGaps, Occupied
<1>9. NothingTorn
  BY <1>2, <1>3, <1>4 DEF NothingTorn
<1>10. AllHeld
  BY <1>1 DEF AllHeld
<1> QED BY <1>6, <1>7, <1>8, <1>9, <1>10

\* A step that only appends to the active file, while no file is moved.
LEMMA ActiveKeeps ==
    ASSUME LogShape, GzipsAreCopies, NoGaps, NothingTorn, AllHeld, OneCompressor',
           gz' = gz, \A i \in Slots \ {0} : plain'[i] = plain[i],
           wpc \notin {"shift", "rename"}, wpc' \notin {"shift", "rename"},
           \A k \in DOMAIN plain'[0] : plain'[0][k] # Torn,
           Nums(plain[0]) \subseteq Nums(plain'[0]),
           aged' = aged, \A r \in acked' \ acked : r \in Nums(plain'[0])
    PROVE  SurviveInv'
<1>1. Slots = 0 .. Keep /\ Keep \in Nat \ {0} /\ 0 \in Slots
  BY FilesAre
<1>2. \A i \in 1 .. Keep : i \in Slots /\ i # 0 /\ plain'[i] = plain[i] /\ gz'[i] = gz[i]
  BY <1>1
<1>3. GzipsAreCopies'
  BY <1>2 DEF GzipsAreCopies
<1>4. \A i \in 1 .. Keep : Occupied(i)' <=> Occupied(i)
  BY <1>2 DEF Occupied
<1>5. NoGaps'
  BY <1>4 DEF NoGaps
<1>6. NothingTorn'
  BY <1>2 DEF NothingTorn
<1>7. \A i \in Slots : InSlot(i) \subseteq InSlot(i)'
  BY <1>2 DEF InSlot
<1>8. Nums(plain'[0]) \subseteq InSlot(0)'
  BY DEF InSlot
<1>9. ASSUME NEW r \in acked' \ aged' PROVE \E i \in Slots : r \in InSlot(i)'
  <2>1. CASE r \in acked
    <3>1. PICK i \in Slots : r \in InSlot(i)
      BY <1>9, <2>1 DEF AllHeld
    <3> QED BY <1>7, <3>1
  <2>2. CASE r \notin acked
    BY <1>1, <1>8, <1>9, <2>2
  <2> QED BY <2>1, <2>2
<1>10. AllHeld'
  BY <1>9 DEF AllHeld
<1> QED BY <1>3, <1>5, <1>6, <1>10 DEF SurviveInv

\* Every step keeps what was acknowledged: files move into a free place, and a
\* file that goes has its gzip.
LEMMA SurviveStep == LogShape /\ SurviveInv /\ [LogNext]_lVars => SurviveInv'
<1> SUFFICES ASSUME LogShape, SurviveInv, [LogNext]_lVars, Clean' PROVE SurviveInv'
  BY DEF SurviveInv
<1>1. Clean /\ scars \subseteq scars'
  <2>1. scars \subseteq scars'
    BY DEF LogNext, WriterStep, AppendRecord, ShiftOne, RenameActive, RenameFails, RenameFailsTo, OpenActive,
           OpenActiveAs, OpenFails, AppendHeader, PersistDay, WriteRecord, AppendFails, Midnight, LogCrash,
           LogStart, CompressOpen, CompressDone, ReadList, ReadFile, lVars
  <2> QED BY <2>1 DEF Clean
<1>2. "torn" \notin scars' /\ "gap" \notin scars' /\ "overlap" \notin scars'
  BY DEF Clean
<1>3. OneCompressor /\ GzipsAreCopies /\ NoGaps /\ NothingTorn /\ AllHeld
  BY <1>1 DEF SurviveInv
<1>4. /\ plain \in [Slots -> File] /\ gz \in [1 .. Keep -> Gzip] /\ jobs \in Seq(Job)
      /\ Slots = 0 .. Keep /\ Keep \in Nat \ {0} /\ next \in Nat \ {0} /\ at \in 0 .. Keep
      /\ 0 \in Slots /\ 1 \in Slots /\ 1 \in 1 .. Keep /\ Keep \in Slots /\ Keep \in 1 .. Keep
      /\ \A i \in 1 .. Keep : i \in Slots /\ i # 0 /\ i \in Int
      /\ \A i \in Slots : i \in Int /\ (i # 0 => i \in 1 .. Keep)
  BY FilesAre DEF LogShape
<1>5. /\ plain[0] \in File /\ Content(plain[0]) \in Seq(Item)
      /\ Nums(Content(plain[0])) = Nums(plain[0]) /\ Nums(<< >>) = {} /\ Nums(Absent) = {} /\ << >> # Absent
      /\ \A k \in DOMAIN Content(plain[0]) : Content(plain[0])[k] # Torn
      /\ \A k \in DOMAIN Absent : Absent[k] # Torn
      /\ DOMAIN << >> = {} /\ NoGz.data = Absent /\ NoGz \in Gzip
      /\ Content(plain[0]) # Absent
  <2>1. plain[0] \in File
    BY <1>4
  <2>2. /\ Content(plain[0]) \in Seq(Item) /\ Nums(Content(plain[0])) = Nums(plain[0])
        /\ Nums(<< >>) = {} /\ Nums(Absent) = {}
    BY <2>1, FileIs
  <2>3. << >> # Absent /\ DOMAIN << >> = {} /\ DOMAIN Absent = {1} /\ Absent[1] = -2 /\ -2 # Torn
    BY DEF Absent, Torn
  <2>4. Content(plain[0]) \in {plain[0], << >>} /\ Content(plain[0]) # Absent
    BY <2>3 DEF Content
  <2>5. \A k \in DOMAIN Content(plain[0]) : Content(plain[0])[k] # Torn
    BY <1>3, <1>4, <2>3, <2>4 DEF NothingTorn
  <2>6. NoGz.data = Absent /\ NoGz \in Gzip
    BY DEF NoGz, Gzip, File
  <2> QED BY <2>1, <2>2, <2>3, <2>4, <2>5, <2>6
<1>6. ASSUME UNCHANGED <<plain, gz, jobs, wpc, at, acked, aged>> PROVE SurviveInv'
  <2>1. \A i \in Slots : (Occupied(i)' <=> Occupied(i)) /\ InSlot(i)' = InSlot(i)
    BY <1>6 DEF Occupied, InSlot
  <2>2. OneCompressor' /\ GzipsAreCopies' /\ NothingTorn'
    BY <1>3, <1>6 DEF OneCompressor, GzipsAreCopies, NothingTorn
  <2>3. NoGaps'
    BY <1>3, <1>4, <1>6, <2>1 DEF NoGaps
  <2>4. AllHeld'
    BY <1>3, <1>6, <2>1 DEF AllHeld
  <2> QED BY <2>2, <2>3, <2>4 DEF SurviveInv
<1>7. ASSUME jobs' = jobs, wpc' \notin Rotating, plain'[1] = plain[1], gz' = gz PROVE OneCompressor'
  BY <1>3, <1>7 DEF OneCompressor
<1>8. \A x \in Item : /\ x # Torn => \A k \in DOMAIN Append(Content(plain[0]), x) :
                                        Append(Content(plain[0]), x)[k] # Torn
                      /\ Nums(plain[0]) \subseteq Nums(Append(Content(plain[0]), x))
                      /\ x > 0 => x \in Nums(Append(Content(plain[0]), x))
  <2>1. ASSUME NEW x \in Item
        PROVE  /\ x # Torn => \A k \in DOMAIN Append(Content(plain[0]), x) : Append(Content(plain[0]), x)[k] # Torn
               /\ Nums(Content(plain[0])) \subseteq Nums(Append(Content(plain[0]), x))
               /\ x > 0 => x \in Nums(Append(Content(plain[0]), x))
    <3> DEFINE s == Content(plain[0])
               t == Append(s, x)
    <3>1. /\ t \in Seq(Item) /\ t[Len(s) + 1] = x /\ Len(s) \in Nat
          /\ \A k \in 1 .. Len(s) : t[k] = s[k]
          /\ DOMAIN t = 1 .. Len(s) + 1 /\ DOMAIN s = 1 .. Len(s)
      BY <1>5
    <3>2. \A k \in DOMAIN s : s[k] # Torn
      BY <1>5
    <3> HIDE DEF s, t
    <3>3. \A k \in 1 .. Len(s) + 1 : k \in 1 .. Len(s) \/ k = Len(s) + 1
      BY <3>1
    <3>4. x # Torn => \A k \in DOMAIN t : t[k] # Torn
      BY <3>1, <3>2, <3>3
    <3>5. \A k \in DOMAIN s : k \in DOMAIN t /\ t[k] = s[k]
      BY <3>1
    <3>6. Nums(s) \subseteq Nums(t)
      BY <3>5 DEF Nums
    <3>7. Len(s) + 1 \in DOMAIN t
      BY <3>1
    <3>8. x > 0 => x \in Nat \ {0}
      BY LogConstants DEF Item, Torn
    <3>9. x > 0 => x \in Nums(t)
      BY <3>1, <3>7, <3>8 DEF Nums
    <3> QED BY <3>4, <3>6, <3>9 DEF s, t
  <2> QED BY <1>5, <2>1
<1>9. CASE AppendRecord
  <2>1. CASE ~Due
    <3>1. UNCHANGED <<plain, gz, jobs, acked, aged>> /\ wpc = "idle" /\ wpc' = "record"
      BY <1>9, <2>1 DEF AppendRecord
    <3>2. \A k \in DOMAIN plain'[0] : plain'[0][k] # Torn
      BY <1>3, <1>4, <3>1 DEF NothingTorn
    <3>3. OneCompressor'
      BY <1>7, <3>1 DEF Rotating
    <3> QED BY <1>3, <3>1, <3>2, <3>3, ActiveKeeps
  <2>2. CASE Due
    <3>1. /\ UNCHANGED <<gz, acked, aged>> /\ wpc = "idle" /\ jobs = << >> /\ jobs' = << >>
          /\ wpc' \in {"reopen", "shift"} /\ at' = Keep /\ (wpc' = "shift" => plain'[0] # Absent)
          /\ plain'[0] \in {plain[0], Content(plain[0])} /\ \A i \in Slots \ {0} : plain'[i] = plain[i]
      <4>1. plain' = [plain EXCEPT ![0] = IF cached THEN plain[0] ELSE Content(plain[0])]
            /\ wpc' = (IF cached /\ plain[0] = Absent THEN "reopen" ELSE "shift")
        BY <1>9, <2>2 DEF AppendRecord
      <4>2. UNCHANGED <<gz, acked, aged, jobs>> /\ wpc = "idle" /\ at' = Keep
        BY <1>9 DEF AppendRecord
      <4>3. jobs = << >>
        BY <1>2, <1>9, <2>2 DEF AppendRecord
      <4> QED BY <1>4, <1>5, <4>1, <4>2, <4>3
    <3>2. OneCompressor'
      BY <3>1 DEF OneCompressor
    <3>3. \A i \in 1 .. Keep : plain'[i] = plain[i] /\ gz'[i] = gz[i]
      BY <1>4, <3>1
    <3>4. GzipsAreCopies'
      BY <1>3, <3>3 DEF GzipsAreCopies
    <3>5. \A i \in 1 .. Keep : (Occupied(i)' <=> Occupied(i)) /\ i # at' + 1
      BY <1>4, <3>1, <3>3 DEF Occupied
    <3>6. NoGaps'
      BY <1>3, <3>1, <3>5 DEF NoGaps
    <3>7. NothingTorn'
      BY <1>3, <1>4, <1>5, <3>1, <3>3 DEF NothingTorn
    <3>8. \A i \in Slots : InSlot(i)' = InSlot(i)
      <4>1. Nums(plain'[0]) = Nums(plain[0])
        BY <1>5, <3>1
      <4> QED BY <1>4, <3>3, <4>1 DEF InSlot
    <3>9. AllHeld'
      BY <1>3, <3>1, <3>8 DEF AllHeld
    <3> QED BY <3>2, <3>4, <3>6, <3>7, <3>9 DEF SurviveInv
  <2> QED BY <2>1, <2>2
<1>10. CASE ShiftOne /\ at = Keep
  <2>1. /\ plain' = [plain EXCEPT ![Keep] = Absent] /\ gz' = [gz EXCEPT ![Keep] = NoGz] /\ jobs' = jobs
        /\ at' = Keep - 1 /\ wpc = "shift" /\ wpc' \in {"shift", "rename"} /\ acked' = acked
        /\ aged' = aged \cup Range(Content(plain[Keep])) \cup Range(Content(gz[Keep].data))
    BY <1>10 DEF ShiftOne
  <2>2. jobs' = << >>
    BY <1>3, <2>1 DEF OneCompressor, Rotating
  <2>3. OneCompressor'
    BY <2>2 DEF OneCompressor
  <2>4. /\ plain'[Keep] = Absent /\ gz'[Keep] = NoGz
        /\ \A i \in Slots \ {Keep} : plain'[i] = plain[i]
        /\ \A i \in (1 .. Keep) \ {Keep} : gz'[i] = gz[i]
    BY <1>4, <2>1
  <2>5. GzipsAreCopies'
    BY <1>3, <1>4, <2>4 DEF GzipsAreCopies
  <2>6. ~Occupied(Keep)' /\ \A i \in (1 .. Keep) \ {Keep} : Occupied(i)' <=> Occupied(i)
    BY <1>4, <2>4 DEF Occupied
  <2>7. \A i \in 1 .. Keep : ~(i = at + 1)
    BY <1>4, <1>10
  <2>8. at' + 1 = Keep
    BY <1>4, <2>1
  <2>9. plain'[0] # Absent
    BY <1>3, <1>4, <2>1, <2>4 DEF NoGaps
  <2>10. ASSUME NEW i \in 1 .. Keep, NEW k \in 1 .. Keep, k < i, Occupied(i)', ~Occupied(k)' PROVE FALSE
    <3>1. i # Keep /\ k # Keep
      BY <1>4, <2>6, <2>10
    <3>2. Occupied(i) /\ ~Occupied(k)
      BY <2>6, <2>10, <3>1
    <3> QED BY <1>3, <2>7, <2>10, <3>2 DEF NoGaps
  <2>11. NoGaps'
    BY <2>6, <2>8, <2>9, <2>10 DEF NoGaps
  <2>12. NothingTorn'
    BY <1>3, <1>4, <1>5, <2>4 DEF NothingTorn
  <2>13. ASSUME NEW r \in acked' \ aged' PROVE \E i \in Slots : r \in InSlot(i)'
    <3>1. PICK i \in Slots : r \in InSlot(i)
      BY <1>3, <2>1, <2>13 DEF AllHeld
    <3>2. i # Keep
      <4>1. SUFFICES ASSUME r \in InSlot(Keep) PROVE FALSE
        BY <3>1
      <4>2. plain[Keep] \in File /\ gz[Keep].data \in File
        BY <1>4 DEF Gzip
      <4>3. Nums(plain[Keep]) = Nums(Content(plain[Keep])) /\ Nums(gz[Keep].data) = Nums(Content(gz[Keep].data))
        BY <4>2, FileIs
      <4>4. r \in Nums(Content(plain[Keep])) \/ r \in Nums(Content(gz[Keep].data))
        BY <1>4, <4>1, <4>3 DEF InSlot
      <4>5. r \in Range(Content(plain[Keep])) \/ r \in Range(Content(gz[Keep].data))
        BY <4>4 DEF Nums, Range
      <4> QED BY <2>1, <2>13, <4>5
    <3>3. InSlot(i)' = InSlot(i)
      BY <1>4, <2>4, <3>2 DEF InSlot
    <3> QED BY <3>1, <3>3
  <2>14. AllHeld'
    BY <2>13 DEF AllHeld
  <2> QED BY <2>3, <2>5, <2>11, <2>12, <2>14 DEF SurviveInv
<1>11. CASE ShiftOne /\ at # Keep
  <2>1. PICK a \in Slots : a = at
    BY <1>4
  <2>2. /\ plain' = IF plain[a] = Absent THEN plain
                    ELSE [plain EXCEPT ![a + 1] = plain[a], ![a] = Absent]
        /\ gz' = IF gz[a] = NoGz THEN gz ELSE [gz EXCEPT ![a + 1] = gz[a], ![a] = NoGz]
        /\ UNCHANGED <<jobs, acked, aged>> /\ at' = a - 1 /\ wpc = "shift" /\ wpc' \in {"shift", "rename"}
    BY <1>11, <2>1 DEF ShiftOne
  <2>3. a \in 1 .. Keep /\ a \in Slots /\ a + 1 \in Slots /\ a + 1 \in 1 .. Keep /\ a # 0 /\ a + 1 # 0 /\ a # a + 1
    BY <1>4, <1>11, <2>1, <2>2 DEF LogShape
  <2>4. plain[a + 1] = Absent /\ gz[a + 1] = NoGz
    BY <1>3, <2>1, <2>2, <2>3 DEF NoGaps, Occupied
  <2>5. /\ plain'[a] = Absent /\ plain'[a + 1] = plain[a]
        /\ \A i \in Slots \ {a, a + 1} : plain'[i] = plain[i]
    <3>1. CASE plain[a] = Absent
      BY <2>2, <2>4, <3>1
    <3>2. CASE plain[a] # Absent
      BY <1>4, <2>2, <2>3, <3>2
    <3> QED BY <3>1, <3>2
  <2>6. /\ gz'[a] = NoGz /\ gz'[a + 1] = gz[a]
        /\ \A i \in (1 .. Keep) \ {a, a + 1} : gz'[i] = gz[i]
    <3>1. CASE gz[a] = NoGz
      BY <2>2, <2>4, <3>1
    <3>2. CASE gz[a] # NoGz
      BY <1>4, <2>2, <2>3, <3>2
    <3> QED BY <3>1, <3>2
  <2>7. OneCompressor'
    <3>1. jobs = << >>
      BY <1>3, <2>2 DEF OneCompressor, Rotating
    <3> QED BY <2>2, <3>1 DEF OneCompressor
  <2>8. GzipsAreCopies'
    <3>1. ASSUME NEW i \in 1 .. Keep, gz'[i] # NoGz
          PROVE  gz'[i].data # Absent /\ IF plain'[i] = Absent THEN gz'[i].done ELSE gz'[i].data = plain'[i]
      <4>1. i # a
        BY <2>6, <3>1
      <4>2. CASE i = a + 1
        BY <1>3, <2>3, <2>5, <2>6, <3>1, <4>2 DEF GzipsAreCopies
      <4>3. CASE i # a + 1
        BY <1>3, <1>4, <2>5, <2>6, <3>1, <4>1, <4>3 DEF GzipsAreCopies
      <4> QED BY <4>2, <4>3
    <3> QED BY <3>1 DEF GzipsAreCopies
  <2>9. /\ ~Occupied(a)' /\ ~Occupied(a + 1)
        /\ \A i \in 1 .. Keep : i # a /\ i # a + 1 => (Occupied(i)' <=> Occupied(i))
    BY <1>4, <2>4, <2>5, <2>6 DEF Occupied
  <2>10. \A i \in 1 .. Keep : i = a + 1 => (Occupied(i)' <=> Occupied(a))
    BY <2>5, <2>6 DEF Occupied
  <2>11. \A i, k \in 1 .. Keep : k < i /\ Occupied(i) /\ ~Occupied(k) => k = a + 1
    BY <1>3, <2>1 DEF NoGaps
  <2>12. at' + 1 = a
    BY <1>4, <2>2
  <2>13. ASSUME NEW i \in 1 .. Keep, NEW k \in 1 .. Keep, k < i, Occupied(i)', ~Occupied(k)' PROVE k = a
    <3>1. SUFFICES ASSUME k # a PROVE FALSE
      OBVIOUS
    <3>2. i # a
      BY <2>9, <2>13
    <3>3. CASE i = a + 1
      <4>1. Occupied(a) /\ k < a /\ k # a + 1 /\ k # a
        BY <1>4, <2>3, <2>10, <2>13, <3>1, <3>3
      <4>2. ~Occupied(k)
        BY <2>9, <2>13, <4>1
      <4> QED BY <2>3, <2>11, <4>1, <4>2
    <3>4. CASE i # a + 1
      <4>1. Occupied(i)
        BY <2>9, <2>13, <3>2, <3>4
      <4>2. CASE k = a + 1
        <5>1. ~Occupied(a) /\ a < i /\ a # a + 1
          BY <1>4, <2>3, <2>10, <2>13, <4>2
        <5> QED BY <2>3, <2>11, <4>1, <5>1
      <4>3. CASE k # a + 1
        <5>1. ~Occupied(k)
          BY <2>9, <2>13, <3>1, <4>3
        <5> QED BY <2>11, <2>13, <4>1, <4>3, <5>1
      <4> QED BY <4>2, <4>3
    <3> QED BY <3>3, <3>4
  <2>14. plain'[0] # Absent
    BY <1>3, <1>4, <2>2, <2>3, <2>5 DEF NoGaps
  <2>15. NoGaps'
    <3>1. ASSUME NEW i \in 1 .. Keep, i = at' + 1 PROVE ~Occupied(i)'
      BY <2>9, <2>12, <3>1
    <3> QED BY <2>2, <2>12, <2>13, <2>14, <3>1 DEF NoGaps
  <2>16. NothingTorn'
    <3>1. \A i \in Slots : plain'[i] \in {plain[i], plain[a], Absent}
      BY <2>5
    <3>2. \A i \in 1 .. Keep : gz'[i] \in {gz[i], gz[a], NoGz}
      BY <2>6
    <3> QED BY <1>3, <1>5, <2>3, <3>1, <3>2 DEF NothingTorn
  <2>17. InSlot(a + 1)' = InSlot(a)
    BY <2>3, <2>5, <2>6 DEF InSlot
  <2>18. \A i \in Slots : i # a /\ i # a + 1 => InSlot(i)' = InSlot(i)
    BY <1>4, <2>5, <2>6 DEF InSlot
  <2>19. InSlot(a + 1) = {}
    BY <1>5, <2>4 DEF InSlot
  <2>20. ASSUME NEW r \in acked' \ aged' PROVE \E i \in Slots : r \in InSlot(i)'
    <3>1. PICK i \in Slots : r \in InSlot(i)
      BY <1>3, <2>2, <2>20 DEF AllHeld
    <3>2. i # a + 1
      BY <2>19, <3>1
    <3>3. CASE i = a
      BY <2>3, <2>17, <3>1, <3>3
    <3>4. CASE i # a
      BY <2>18, <3>1, <3>2, <3>4
    <3> QED BY <3>3, <3>4
  <2>21. AllHeld'
    BY <2>20 DEF AllHeld
  <2> QED BY <2>7, <2>8, <2>15, <2>16, <2>21 DEF SurviveInv
<1>12. CASE RenameActive
  <2>1. /\ plain' = [plain EXCEPT ![1] = plain[0], ![0] = Absent] /\ UNCHANGED <<gz, jobs, acked, aged>>
        /\ wpc = "rename" /\ wpc' = "open" /\ at = 0
    BY <1>12 DEF RenameActive, LogShape
  <2>2. plain[1] = Absent /\ gz[1] = NoGz /\ plain[0] # Absent
    <3>1. 1 = at + 1
      BY <2>1
    <3> QED BY <1>3, <1>4, <2>1, <3>1 DEF NoGaps, Occupied
  <2>3. plain'[0] = Absent /\ plain'[1] = plain[0] /\ \A i \in Slots : i # 0 /\ i # 1 => plain'[i] = plain[i]
    BY <1>4, <2>1
  <2>4. OneCompressor'
    <3>1. jobs = << >>
      BY <1>3, <2>1 DEF OneCompressor, Rotating
    <3> QED BY <2>1, <3>1 DEF OneCompressor
  <2>5. GzipsAreCopies'
    BY <1>3, <1>4, <2>1, <2>2, <2>3 DEF GzipsAreCopies
  <2>6. \A i \in 1 .. Keep : i # 1 => (Occupied(i)' <=> Occupied(i))
    BY <1>4, <2>1, <2>3 DEF Occupied
  <2>7. Occupied(1)'
    BY <2>2, <2>3 DEF Occupied
  <2>8. ASSUME NEW i \in 1 .. Keep, NEW k \in 1 .. Keep, k < i, Occupied(i)', ~Occupied(k)' PROVE FALSE
    <3>1. k # 1 /\ i # 1
      BY <1>4, <2>7, <2>8
    <3>2. Occupied(i) /\ ~Occupied(k)
      BY <2>6, <2>8, <3>1
    <3>3. k = at + 1
      BY <1>3, <2>8, <3>2 DEF NoGaps
    <3> QED BY <2>1, <3>1, <3>3
  <2>9. NoGaps'
    BY <2>1, <2>8 DEF NoGaps
  <2>10. NothingTorn'
    <3>1. ASSUME NEW i \in Slots, NEW k \in DOMAIN plain'[i] PROVE plain'[i][k] # Torn
      <4>1. plain'[i] \in {plain[i], plain[0], Absent}
        BY <2>3
      <4> QED BY <1>3, <1>4, <1>5, <3>1, <4>1 DEF NothingTorn
    <3> QED BY <1>3, <2>1, <3>1 DEF NothingTorn
  <2>11. InSlot(0) \subseteq InSlot(1)' /\ InSlot(1) = {} /\ \A i \in Slots : i # 0 /\ i # 1 => InSlot(i)' = InSlot(i)
    BY <1>4, <1>5, <2>1, <2>2, <2>3 DEF InSlot
  <2>12. AllHeld'
    <3>1. ASSUME NEW r \in acked' \ aged' PROVE \E i \in Slots : r \in InSlot(i)'
      <4>1. PICK i \in Slots : r \in InSlot(i)
        BY <1>3, <2>1, <3>1 DEF AllHeld
      <4>2. i # 1
        BY <2>11, <4>1
      <4>3. CASE i = 0
        BY <1>4, <2>11, <4>1, <4>3
      <4>4. CASE i # 0
        BY <2>11, <4>1, <4>2, <4>4
      <4> QED BY <4>3, <4>4
    <3> QED BY <3>1 DEF AllHeld
  <2> QED BY <2>4, <2>5, <2>9, <2>10, <2>12 DEF SurviveInv
<1>13. CASE RenameFails
  BY <1>2, <1>13 DEF RenameFails, RenameFailsTo
<1>14. CASE OpenActive
  <2>1. /\ wpc \in {"open", "reopen"} /\ wpc' = "header" /\ plain[0] = Absent
        /\ plain' = [plain EXCEPT ![0] = << >>] /\ UNCHANGED <<gz, acked, aged>>
        /\ jobs' \in {jobs, Append(jobs, NewJob)}
    BY <1>14 DEF OpenActive, OpenActiveAs, LogShape
  <2>2. plain'[0] = << >> /\ \A i \in Slots \ {0} : plain'[i] = plain[i]
    BY <1>4, <2>1
  <2>3. OneCompressor'
    <3>1. jobs = << >>
      BY <1>3, <2>1 DEF OneCompressor, Rotating
    <3>2. CASE jobs' = << >>
      BY <3>2 DEF OneCompressor
    <3>3. CASE jobs' = Append(<< >>, NewJob)
      <4>1. Len(jobs') = 1 /\ \A j \in DOMAIN jobs' : jobs'[j] = NewJob
        BY <3>3
      <4>2. NewJob.st # "copy"
        BY DEF NewJob
      <4> QED BY <2>1, <4>1, <4>2 DEF OneCompressor, Rotating
    <3> QED BY <2>1, <3>1, <3>2, <3>3
  <2>4. Nums(plain[0]) \subseteq Nums(plain'[0])
    BY <1>5, <2>1
  <2> QED BY <1>3, <1>5, <2>1, <2>2, <2>3, <2>4, ActiveKeeps
<1>15. CASE OpenFails \/ PersistDay \/ LogStart
  <2>1. /\ UNCHANGED <<plain, gz, jobs, acked, aged>>
        /\ wpc \notin {"shift", "rename"} /\ wpc' \in {"idle", "record"}
    BY <1>15 DEF OpenFails, PersistDay, LogStart, files
  <2>2. \A k \in DOMAIN plain'[0] : plain'[0][k] # Torn
    BY <1>3, <1>4, <2>1 DEF NothingTorn
  <2>3. OneCompressor'
    BY <1>7, <2>1 DEF Rotating
  <2> QED BY <1>3, <2>1, <2>2, <2>3, ActiveKeeps
<1>16. CASE AppendHeader
  <2>1. /\ plain[0] = << >> /\ wpc = "header" /\ wpc' = "day" /\ UNCHANGED <<gz, jobs, acked, aged>>
        /\ plain' = [plain EXCEPT ![0] = Append(<< >>, Header)]
    BY <1>16 DEF AppendHeader, LogShape
  <2>2. plain'[0] = Append(<< >>, Header) /\ \A i \in Slots \ {0} : plain'[i] = plain[i]
    BY <1>4, <2>1
  <2>3. \A k \in DOMAIN plain'[0] : plain'[0][k] # Torn
    <3>1. \A k \in DOMAIN Append(<< >>, Header) : Append(<< >>, Header)[k] = Header
      OBVIOUS
    <3> QED BY <2>2, <3>1 DEF Header, Torn
  <2>4. OneCompressor'
    BY <1>4, <1>7, <2>1, <2>2 DEF Rotating
  <2> QED BY <1>3, <1>5, <2>1, <2>2, <2>3, <2>4, ActiveKeeps
<1>17. CASE WriteRecord
  <2>1. /\ wpc = "record" /\ wpc' = "idle" /\ UNCHANGED <<gz, jobs, aged>> /\ acked' = acked \cup {next}
        /\ plain' = [plain EXCEPT ![0] = Append(Content(plain[0]), next)]
    BY <1>17 DEF WriteRecord
  <2>2. plain'[0] = Append(Content(plain[0]), next) /\ \A i \in Slots \ {0} : plain'[i] = plain[i]
    BY <1>4, <2>1
  <2>3. next \in Item /\ next # Torn /\ next > 0
    BY <1>4, <2>1, LogConstants DEF LogShape, Item, Torn
  <2>4. OneCompressor'
    BY <1>4, <1>7, <2>1, <2>2 DEF Rotating
  <2> QED BY <1>3, <1>8, <2>1, <2>2, <2>3, <2>4, ActiveKeeps
<1>18. CASE AppendFails
  <2>1. /\ wpc \in {"record", "header"} /\ wpc' = "idle" /\ UNCHANGED <<gz, jobs, acked, aged>>
        /\ plain' = [plain EXCEPT ![0] = Content(plain[0])]
    BY <1>2, <1>18 DEF AppendFails
  <2>2. plain'[0] = Content(plain[0]) /\ \A i \in Slots \ {0} : plain'[i] = plain[i]
    BY <1>4, <2>1
  <2>3. OneCompressor'
    BY <1>4, <1>7, <2>1, <2>2 DEF Rotating
  <2> QED BY <1>3, <1>5, <2>1, <2>2, <2>3, ActiveKeeps
<1>19. CASE LogCrash
  <2>1. wpc \notin {"shift", "rename"} /\ wpc' = "down" /\ jobs' = << >> /\ UNCHANGED <<plain, gz, acked, aged>>
    BY <1>2, <1>19 DEF LogCrash
  <2>2. \A k \in DOMAIN plain'[0] : plain'[0][k] # Torn
    BY <1>3, <1>4, <2>1 DEF NothingTorn
  <2>3. OneCompressor'
    BY <2>1 DEF OneCompressor
  <2> QED BY <1>3, <2>1, <2>2, <2>3, ActiveKeeps
<1>20. CASE Midnight \/ ReadList \/ ReadFile \/ UNCHANGED lVars
  BY <1>6, <1>20 DEF Midnight, ReadList, ReadFile, lVars, files
<1>21. ASSUME NEW j \in DOMAIN jobs, CompressOpen(j) \/ CompressDone(j)
       PROVE  /\ Len(jobs) = 1 /\ j = 1 /\ RemoveAt(jobs, j) = << >> /\ wpc \notin Rotating /\ wpc' = wpc
              /\ UNCHANGED <<acked, aged, at>>
  <2>1. jobs # << >> /\ Len(jobs) \in Nat /\ j \in 1 .. Len(jobs)
    BY <1>4, <1>21
  <2>2. Len(jobs) = 1 /\ j = 1 /\ wpc \notin Rotating
    <3>1. Len(jobs) <= 1 /\ wpc \notin Rotating
      BY <1>3, <2>1 DEF OneCompressor
    <3> DEFINE n == Len(jobs)
    <3>2. n <= 1 /\ n \in Nat /\ j \in 1 .. n
      BY <2>1, <3>1
    <3> HIDE DEF n
    <3>3. n = 1 /\ j = 1
      BY <3>2
    <3> QED BY <3>1, <3>3 DEF n
  <2>3. RemoveAt(jobs, j) = << >>
    BY <1>4, <2>2, JobRemoved
  <2> QED BY <1>21, <2>2, <2>3 DEF CompressOpen, CompressDone
<1>22. ASSUME NEW j \in DOMAIN jobs, CompressOpen(j) PROVE SurviveInv'
  <2>1. CASE plain[1] # Absent /\ gz[1] = NoGz
    <3>1. /\ gz' = [gz EXCEPT ![1] = [gz[1] EXCEPT !.data = plain[1]]] /\ plain' = plain
          /\ jobs' = [jobs EXCEPT ![j] = [st |-> "copy", data |-> plain[1]]]
      BY <1>22, <2>1 DEF CompressOpen
    <3>2. /\ gz'[1].data = plain[1] /\ gz'[1] # NoGz
          /\ \A i \in 1 .. Keep : i # 1 => gz'[i] = gz[i]
      BY <1>4, <1>5, <2>1, <3>1 DEF Gzip
    <3>3. OneCompressor'
      <4>1. Len(jobs') = 1 /\ \A m \in DOMAIN jobs' : jobs'[m] = [st |-> "copy", data |-> plain[1]]
        BY <1>4, <1>21, <1>22, <3>1
      <4>2. plain'[1] # Absent /\ gz'[1] # NoGz
        BY <2>1, <3>1, <3>2
      <4>3. \A m \in DOMAIN jobs' : jobs'[m].data = plain'[1]
        BY <3>1, <4>1
      <4>4. wpc' \notin Rotating
        BY <1>21, <1>22
      <4> QED BY <4>1, <4>2, <4>3, <4>4 DEF OneCompressor
    <3>4. GzipsAreCopies'
      BY <1>3, <2>1, <3>1, <3>2 DEF GzipsAreCopies
    <3>5. \A i \in 1 .. Keep : Occupied(i)' <=> Occupied(i)
      BY <2>1, <3>1, <3>2 DEF Occupied
    <3>6. NoGaps'
      BY <1>3, <1>21, <1>22, <3>1, <3>5 DEF NoGaps, Rotating
    <3>7. NothingTorn'
      BY <1>3, <1>4, <3>1, <3>2 DEF NothingTorn
    <3>8. \A i \in Slots : InSlot(i) \subseteq InSlot(i)'
      <4>1. Nums(gz[1].data) = {}
        BY <1>5, <2>1
      <4> QED BY <1>4, <3>1, <3>2, <4>1 DEF InSlot
    <3>9. AllHeld'
      BY <1>3, <1>21, <1>22, <3>8 DEF AllHeld
    <3> QED BY <3>3, <3>4, <3>6, <3>7, <3>9 DEF SurviveInv
  <2>2. CASE ~(plain[1] # Absent /\ gz[1] = NoGz)
    <3>1. UNCHANGED <<plain, gz>> /\ jobs' = << >>
      BY <1>21, <1>22, <2>2 DEF CompressOpen
    <3>2. \A k \in DOMAIN plain'[0] : plain'[0][k] # Torn
      BY <1>3, <1>4, <3>1 DEF NothingTorn
    <3>3. OneCompressor'
      BY <3>1 DEF OneCompressor
    <3> QED BY <1>3, <1>21, <1>22, <3>1, <3>2, <3>3, ActiveKeeps DEF Rotating
  <2> QED BY <2>1, <2>2
<1>23. ASSUME NEW j \in DOMAIN jobs, CompressDone(j) PROVE SurviveInv'
  <2>1. /\ gz' = [i \in 1 .. Keep |-> [gz[i] EXCEPT !.done = gz[i].done \/ gz[i].data = jobs[j].data]]
        /\ plain' = [plain EXCEPT ![1] = Absent] /\ jobs' = << >> /\ jobs[j].st = "copy"
    BY <1>21, <1>23 DEF CompressDone
  <2>2. plain[1] # Absent /\ gz[1] # NoGz /\ jobs[j].data = plain[1] /\ gz[1].data = plain[1]
    BY <1>3, <1>4, <1>23, <2>1 DEF OneCompressor, GzipsAreCopies
  <2>3. /\ \A i \in 1 .. Keep : gz'[i].data = gz[i].data /\ (gz'[i].done <=> gz[i].done \/ gz[i].data = jobs[j].data)
    <3>1. \A i \in 1 .. Keep : gz[i] \in Gzip /\ (gz[i].done \/ gz[i].data = jobs[j].data) \in BOOLEAN
      BY <1>4, Zenon
    <3>2. \A i \in 1 .. Keep :
             /\ [gz[i] EXCEPT !.done = gz[i].done \/ gz[i].data = jobs[j].data].data = gz[i].data
             /\ ([gz[i] EXCEPT !.done = gz[i].done \/ gz[i].data = jobs[j].data].done
                  <=> gz[i].done \/ gz[i].data = jobs[j].data)
      BY <3>1, GzipMarked, Zenon
    <3> QED BY <2>1, <3>2, Zenon
  <2>4. plain'[1] = Absent /\ \A i \in Slots : i # 1 => plain'[i] = plain[i]
    BY <1>4, <2>1
  <2>5. \A i \in 1 .. Keep : (gz[i] = NoGz => gz'[i] = NoGz) /\ (gz[i] # NoGz => gz'[i] # NoGz)
    <3>1. ASSUME NEW i \in 1 .. Keep, gz[i] # NoGz PROVE gz'[i] # NoGz
      <4>1. gz'[i].data # Absent
        BY <1>3, <2>3, <3>1 DEF GzipsAreCopies
      <4> QED BY <1>5, <4>1
    <3>2. ASSUME NEW i \in 1 .. Keep, gz[i] = NoGz PROVE gz'[i] = NoGz
      <4>1. gz[i].data # jobs[j].data /\ ~gz[i].done
        BY <1>5, <2>2, <3>2 DEF NoGz
      <4>2. gz'[i] = [NoGz EXCEPT !.done = FALSE]
        BY <2>1, <3>2, <4>1, Zenon
      <4> QED BY <4>2 DEF NoGz
    <3> QED BY <3>1, <3>2
  <2>6. OneCompressor'
    BY <2>1 DEF OneCompressor
  <2>7. GzipsAreCopies'
    <3>1. ASSUME NEW i \in 1 .. Keep, gz'[i] # NoGz
          PROVE  gz'[i].data # Absent /\ IF plain'[i] = Absent THEN gz'[i].done ELSE gz'[i].data = plain'[i]
      <4>1. gz[i] # NoGz /\ gz[i].data # Absent /\ (gz[i].done => gz'[i].done)
            /\ IF plain[i] = Absent THEN gz[i].done ELSE gz[i].data = plain[i]
        BY <1>3, <2>3, <2>5, <3>1 DEF GzipsAreCopies
      <4>2. CASE i = 1
        <5>1. gz'[1].done
          BY <1>4, <2>2, <2>3, Zenon
        <5> QED BY <2>3, <2>4, <4>1, <4>2, <5>1
      <4>3. CASE i # 1
        <5>1. plain'[i] = plain[i]
          BY <1>4, <2>4, <4>3
        <5> QED BY <2>3, <4>1, <5>1
      <4> QED BY <4>2, <4>3
    <3> QED BY <3>1 DEF GzipsAreCopies
  <2>8. \A i \in 1 .. Keep : Occupied(i)' <=> Occupied(i)
    <3>1. ASSUME NEW i \in 1 .. Keep, i # 1 PROVE Occupied(i)' <=> Occupied(i)
      BY <1>4, <2>4, <2>5, <3>1 DEF Occupied
    <3>2. Occupied(1)' /\ Occupied(1)
      BY <1>4, <2>2, <2>5 DEF Occupied
    <3> QED BY <3>1, <3>2
  <2>9. NoGaps'
    BY <1>3, <1>21, <1>23, <2>8 DEF NoGaps, Rotating
  <2>10. NothingTorn'
    BY <1>3, <1>4, <1>5, <2>3, <2>4 DEF NothingTorn
  <2>11. \A i \in Slots : InSlot(i)' = InSlot(i)
    <3>1. ASSUME NEW i \in Slots, i # 1 PROVE InSlot(i)' = InSlot(i)
      BY <1>4, <2>3, <2>4, <3>1 DEF InSlot
    <3>2. InSlot(1)' = InSlot(1)
      BY <1>4, <1>5, <2>2, <2>3, <2>4 DEF InSlot
    <3> QED BY <3>1, <3>2
  <2>12. AllHeld'
    BY <1>3, <1>21, <1>23, <2>11 DEF AllHeld
  <2> QED BY <2>6, <2>7, <2>9, <2>10, <2>12 DEF SurviveInv
<1> QED BY <1>9, <1>10, <1>11, <1>12, <1>13, <1>14, <1>15, <1>16, <1>17, <1>18, <1>19, <1>20, <1>22, <1>23
        DEF LogNext, WriterStep

\* What a file without a torn record is read as.
LEMMA AllIsRead ==
    ASSUME NEW s \in File, \A k \in DOMAIN s : s[k] # Torn
    PROVE  Nums(s) \subseteq Records(Content(s))
<1>1. ASSUME NEW x \in Nums(s) PROVE x \in Records(Content(s))
  <2>1. Content(s) \in Seq(Item) /\ Content(s) = s
    BY <1>1, FileIs
  <2>2. PICK k \in DOMAIN s : s[k] = x /\ x # Header
    BY <1>1 DEF Nums, Header
  <2>3. \A m \in 1 .. k : m \in DOMAIN s
    BY <2>1
  <2>4. k \in Readable(s)
    BY <2>3 DEF Readable
  <2> QED BY <2>1, <2>2, <2>4 DEF Records
<1> QED BY <1>1

\* So a reader that meets no rotation finds every record.
LEMMA RecordsAreHeld == LogShape /\ SurviveInv => RecordsSurvive
<1> SUFFICES ASSUME LogShape, SurviveInv, Clean, wpc \in {"idle", "down"}, NEW r \in acked \ aged PROVE r \in Visible
  BY DEF RecordsSurvive, Clean
<1>1. OneCompressor /\ GzipsAreCopies /\ NoGaps /\ NothingTorn /\ AllHeld
  BY DEF SurviveInv
<1>2. PICK i \in Slots : r \in InSlot(i)
  BY <1>1 DEF AllHeld
<1>3. /\ plain \in [Slots -> File] /\ gz \in [1 .. Keep -> Gzip] /\ Slots = 0 .. Keep /\ Keep \in Nat
      /\ \A k \in 1 .. Keep : k \in Slots /\ k # 0
      /\ Nums(Absent) = {}
  BY FilesAre
<1>4. ASSUME NEW path \in {PathFor(k) : k \in Listed(plain, gz)} \cup {<<0, "plain">>},
             \A items \in Delivered(path) : r \in Records(items)
      PROVE  r \in Visible
  BY <1>4 DEF Visible
<1>5. CASE i = 0
  <2> DEFINE path == <<0, "plain">>
  <2>1. Delivered(path) = {Content(plain[0])}
    BY DEF Delivered
  <2>2. r \in Nums(plain[0])
    BY <1>2, <1>5 DEF InSlot
  <2>3. r \in Records(Content(plain[0]))
    BY <1>1, <1>2, <1>3, <1>5, <2>2, AllIsRead DEF NothingTorn
  <2> QED BY <1>4, <2>1, <2>3
<1>6. CASE i # 0
  <2>1. i \in 1 .. Keep
    BY <1>3, <1>6
  <2>2. r \in Nums(plain[i]) \/ r \in Nums(gz[i].data)
    BY <1>2, <1>6 DEF InSlot
  <2>3. Occupied(i)
    <3>1. NoGz.data = Absent
      BY DEF NoGz
    <3> QED BY <1>3, <2>2, <3>1 DEF Occupied
  <2>4. \A k \in 1 .. i : k \in 1 .. Keep /\ (k # i => k < i)
    BY <1>3, <2>1
  <2>5. \A k \in 1 .. i : Occupied(k)
    BY <1>1, <2>1, <2>3, <2>4 DEF NoGaps
  <2>6. i \in Listed(plain, gz)
    BY <2>1, <2>5 DEF Listed, Occupied
  <2>7. CASE plain[i] # Absent
    <3>1. r \in Nums(plain[i])
      <4>1. CASE r \in Nums(gz[i].data)
        <5>1. gz[i] # NoGz
          BY <1>3, <4>1 DEF NoGz
        <5> QED BY <1>1, <2>1, <2>7, <4>1, <5>1 DEF GzipsAreCopies
      <4> QED BY <2>2, <4>1
    <3>2. r \in Records(Content(plain[i]))
      BY <1>1, <1>3, <3>1, AllIsRead DEF NothingTorn
    <3>3. PathFor(i)[1] = i /\ PathFor(i)[2] = "plain"
      BY <2>7 DEF PathFor
    <3>4. Delivered(PathFor(i)) = {Content(plain[i])}
      BY <3>3 DEF Delivered
    <3> QED BY <1>4, <2>6, <3>2, <3>4
  <2>8. CASE plain[i] = Absent
    <3>1. r \in Nums(gz[i].data) /\ gz[i] # NoGz
      BY <1>3, <2>2, <2>8 DEF NoGz
    <3>2. gz[i].done
      BY <1>1, <2>1, <2>8, <3>1 DEF GzipsAreCopies
    <3>3. r \in Records(Content(gz[i].data))
      <4>1. gz[i].data \in File
        BY <1>3, <2>1 DEF Gzip
      <4> QED BY <1>1, <2>1, <3>1, <4>1, AllIsRead DEF NothingTorn
    <3>4. PathFor(i)[1] = i /\ PathFor(i)[2] = "gz"
      BY <2>8 DEF PathFor
    <3>5. Delivered(PathFor(i)) = {Content(gz[i].data)}
      BY <3>2, <3>4 DEF Delivered
    <3> QED BY <1>4, <2>6, <3>3, <3>5
  <2> QED BY <2>7, <2>8
<1> QED BY <1>5, <1>6

\* The inductive invariant of ObservationLog.
LogInv == LogShape /\ LogOrder /\ ReaderInv /\ HeaderInv /\ SurviveInv

\* It holds at the start, ...
LEMMA LogInitInv == LogInit => LogInv
<1> SUFFICES ASSUME LogInit PROVE LogOrder
  BY LogBegins, ReaderBegins, HeaderBegins, SurviveBegins DEF LogInv
<1>1. plain = [i \in Slots |-> Absent] /\ gz = [i \in 1 .. Keep |-> NoGz] /\ wpc = "idle"
  BY DEF LogInit
<1>2. Nums(Absent) = {} /\ Rising(Absent) /\ NoGz.data = Absent
  BY LogBegins, FilesAre DEF NoGz
<1>3. \A i \in Slots : plain[i] = Absent /\ (i # 0 => gz[i].data = Absent)
  BY <1>1, <1>2, LogConstants DEF Slots
<1>4. \A i \in 1 .. Keep : gz[i].data = Absent
  BY <1>1, <1>2
<1>5. \A i \in Slots : InSlot(i) = {}
  BY <1>2, <1>3 DEF InSlot
<1> QED BY <1>1, <1>2, <1>3, <1>4, <1>5 DEF LogOrder

\* ... every step keeps it, ...
LEMMA LogStep == LogInv /\ [LogNext]_lVars => LogInv'
  BY ShapeStep, OrderStep, ReaderStep, HeaderStep, SurviveStep DEF LogInv

\* ... and it says what a reader relies on.
LEMMA LogInvFaithful == LogInv => LogIsFaithful
  BY ReadsAreOrdered, HeadersLead, RecordsAreHeld DEF LogInv, LogIsFaithful

-----------------------------------------------------------------------------
(* The daemon composed of its parts.                                       *)

\* What outlasts the daemon is what outlasts its envelope probe, its state
\* directory, its drivers and its log.
LEMMA SurvivalInvs == SafetySpec => [](EnvInv /\ StoreInv /\ DriverInv /\ LogInv)
<1>1. SafetyInit => EnvInv /\ StoreInv /\ DriverInv /\ LogInv
  BY EnvInitInv, StoreInitInv, DriverInitInv, LogInitInv DEF SafetyInit
<1>2. [SafetyNext]_<<part, vars, wVars, lVars, halVars, hVars, eVars, ssVars, diVars, sbVars>>
      => [EnvNext]_eVars /\ [StoreNext]_ssVars /\ [DriverNext]_diVars /\ [LogNext]_lVars
  BY DEF SafetyNext
<1>3. EnvInv /\ StoreInv /\ DriverInv /\ LogInv
      /\ [SafetyNext]_<<part, vars, wVars, lVars, halVars, hVars, eVars, ssVars, diVars, sbVars>>
      => EnvInv' /\ StoreInv' /\ DriverInv' /\ LogInv'
  BY <1>2, EnvStepInv, StoreStep, DriverStep, LogStep
<1> QED BY <1>1, <1>3, PTL DEF SafetySpec

\* The envelope probe, over any ladder, polarities and number of crashes, lost
\* saves and failed writes: a pass that ends puts back a duty that a pass found,
\* and a record of a complete sweep stands for one.
THEOREM EnvelopesAreSound == SafetySpec => []EnvelopeIsSound
BY SurvivalInvs, PTL DEF EnvInv

\* What the state directory acknowledged, and the driver that the wizard reported
\* as installed, is there after any number of deaths, power failures and boots.
THEOREM DeathsLast == SafetySpec => []DeathsAreSurvived
<1>1. EnvInv /\ StoreInv /\ DriverInv => DeathsAreSurvived
  BY StoreInvSound, DriverInvSound DEF DeathsAreSurvived
<1> QED BY <1>1, SurvivalInvs, PTL

\* A reader gets the records in the order they were appended and none twice,
\* every acknowledged one until it ages out, and each file's header first, for
\* any number of files, records, days, crashes, faults and readers: the rotation
\* moves whole files towards the oldest while the reader goes the other way.
THEOREM LogStaysFaithful == SafetySpec => []LogIsFaithful
BY SurvivalInvs, LogInvFaithful, PTL

-----------------------------------------------------------------------------
(* The types of the parts.                                                 *)

\* The controllers that run are of those a configuration can have, and the
\* bounds of the model are kept.
CohortTyped ==
    /\ DOMAIN cohort \subseteq Loops
    /\ slows \in 0 .. MaxSlow /\ drains \in 0 .. MaxDrains

\* Every step of the heartbeat keeps that.
LEMMA CohortStep == CohortTyped /\ [HeartbeatNext]_hVars => CohortTyped'
<1> SUFFICES ASSUME CohortTyped, [HeartbeatNext]_hVars PROVE CohortTyped'
  OBVIOUS
<1>1. ASSUME NEW ls \in SUBSET Loops, NEW p PROVE DOMAIN Started(ls, p) \subseteq Loops
  BY DEF Started
<1>2. DOMAIN Nobody \subseteq Loops
  BY <1>1 DEF Nobody
<1>3. CASE BootDaemon
  <2>1. PICK ls \in SUBSET Loops, p \in Polls \cup {DefaultPoll} \cup {filePoll} : cohort' = Started(ls, p)
    BY <1>3 DEF BootDaemon, Boot
  <2> QED BY <1>1, <1>3, <2>1 DEF BootDaemon, CohortTyped
<1>4. CASE Respawn \/ FirstConfiguration
  <2>1. PICK ls \in SUBSET Loops : cohort' = Started(ls, filePoll')
    BY <1>4 DEF Respawn, FirstConfiguration
  <2>2. DOMAIN cohort' \subseteq Loops
    BY <1>1, <2>1
  <2>3. slows' = slows /\ (drains' = drains \/ (drains < MaxDrains /\ drains' = drains + 1))
    BY <1>4 DEF Respawn, FirstConfiguration
  <2> QED BY <2>2, <2>3, HeartbeatAssumption DEF CohortTyped
<1>5. CASE WatchdogKill
  BY <1>2, <1>5 DEF WatchdogKill, CohortTyped
<1>6. CASE ChangePoll \/ Renumber
  BY <1>6, HeartbeatAssumption DEF ChangePoll, Renumber, CohortTyped
<1>7. CASE Second
  BY <1>7 DEF Second, CohortTyped
<1>8. ASSUME NEW l \in Loops, QuickTick(l) \/ BeginLongTick(l) \/ EndLongTick(l) \/ Wedge(l) \/ Leave(l)
      PROVE  CohortTyped'
  <2>1. DOMAIN cohort' \subseteq DOMAIN cohort
    BY <1>8 DEF QuickTick, BeginLongTick, EndLongTick, EndTick, Wedge, Leave
  <2>2. drains' = drains /\ (slows' = slows \/ (slows < MaxSlow /\ slows' = slows + 1))
    BY <1>8 DEF QuickTick, BeginLongTick, EndLongTick, Wedge, Leave
  <2> QED BY <2>1, <2>2, HeartbeatAssumption DEF CohortTyped
<1>9. CASE UNCHANGED hVars
  BY <1>9 DEF hVars, CohortTyped
<1> QED BY <1>3, <1>4, <1>5, <1>6, <1>7, <1>8, <1>9 DEF HeartbeatNext

\* What the invariants of the heartbeat say of its types.
LEMMA HeartbeatTyped == CauseInv /\ HeartInv /\ CohortTyped => HeartbeatTypeOK
  BY DEF CauseInv, PaceInv, HeartInv, CohortTyped, HeartbeatTypeOK

-----------------------------------------------------------------------------
\* The rest of the blend's types.
BlendRest ==
    /\ due \subseteq Tachs \cup {Evaluator} /\ {open, armed, contacted} \subseteq BOOLEAN
    /\ cold \in 0 .. Pinned /\ calm \in 0 .. NoTick

\* Every step of the blend keeps its flags.
LEMMA FlagsStep ==
    {open, armed, contacted} \subseteq BOOLEAN /\ [BlendNext]_sbVars => {open, armed, contacted}' \subseteq BOOLEAN
<1> SUFFICES ASSUME open \in BOOLEAN, armed \in BOOLEAN, contacted \in BOOLEAN, [BlendNext]_sbVars
             PROVE  open' \in BOOLEAN /\ armed' \in BOOLEAN /\ contacted' \in BOOLEAN
  OBVIOUS
<1>1. CASE SmartDies
  BY <1>1, Zenon DEF SmartDies, Starts
<1>2. CASE CalibrationDone \/ NextPeriod
  BY <1>2, Zenon DEF CalibrationDone, NextPeriod
<1>3. ASSUME NEW blocked \in BOOLEAN, Evaluate(blocked)
      PROVE  open' \in BOOLEAN /\ armed' \in BOOLEAN /\ contacted' \in BOOLEAN
  BY <1>3, Zenon DEF Evaluate
<1>4. CASE UnreferencedTick
  BY <1>4, Zenon DEF UnreferencedTick
<1>5. CASE CooledTick
  <2>1. open' = open
    BY <1>5, Zenon DEF CooledTick
  <2>2. ASSUME NEW w, NEW r, NEW err, NEW margin, Compute(w, r, err, margin)
        PROVE  armed' = TRUE /\ contacted' \in BOOLEAN
    BY <2>2, Zenon DEF Compute
  <2>3. ASSUME NEW r, CurveAlone(r) PROVE armed' = FALSE /\ contacted' = contacted
    BY <2>3, Zenon DEF CurveAlone
  <2>4. armed' \in BOOLEAN /\ contacted' \in BOOLEAN
    BY <1>5, <2>2, <2>3, Zenon DEF CooledTick
  <2> QED BY <2>1, <2>4
<1>6. ASSUME NEW f \in Tachs, Yields(f) \/ OtherTick(f)
      PROVE  open' \in BOOLEAN /\ armed' \in BOOLEAN /\ contacted' \in BOOLEAN
  BY <1>6, Zenon DEF Yields, OtherTick
<1>7. CASE UNCHANGED sbVars
  BY <1>7, Zenon DEF sbVars
<1> QED BY <1>1, <1>2, <1>3, <1>4, <1>5, <1>6, <1>7 DEF BlendNext, Tachs

\* ... and who is due, the cold start and the calm.
LEMMA BlendRestStep == BlendRest /\ [BlendNext]_sbVars => BlendRest'
<1> SUFFICES ASSUME BlendRest, [BlendNext]_sbVars
             PROVE  due' \subseteq Tachs \cup {Evaluator} /\ cold' \in 0 .. Pinned /\ calm' \in 0 .. NoTick
  BY FlagsStep DEF BlendRest
<1>a. due \subseteq Tachs \cup {Evaluator} /\ cold \in 0 .. Pinned /\ calm \in 0 .. NoTick
      /\ Pinned \in Nat /\ WeightTop \in Nat \ {0} /\ NoTick = WeightTop + 1
  BY BlendAssumption DEF BlendRest, NoTick
<1>1. CASE SmartDies
  BY <1>1, <1>a DEF SmartDies, Starts
<1>2. CASE CalibrationDone
  BY <1>2, <1>a DEF CalibrationDone
<1>3. CASE NextPeriod
  <2>1. /\ due' = Tachs \cup {Evaluator} /\ cold' = (IF cold = 0 THEN 0 ELSE cold - 1)
        /\ calm' = Lower(calm + 1, WeightTop)
    BY <1>3 DEF NextPeriod
  <2> QED BY <1>a, <2>1 DEF Lower
<1>4. ASSUME NEW blocked \in BOOLEAN, Evaluate(blocked)
      PROVE  due' \subseteq Tachs \cup {Evaluator} /\ cold' \in 0 .. Pinned /\ calm' \in 0 .. NoTick
  BY <1>4, <1>a DEF Evaluate
<1>5. ASSUME NEW f \in Tachs, UnreferencedTick \/ Yields(f) \/ OtherTick(f)
      PROVE  due' \subseteq Tachs \cup {Evaluator} /\ cold' \in 0 .. Pinned /\ calm' \in 0 .. NoTick
  BY <1>5, <1>a DEF UnreferencedTick, Yields, OtherTick, Takes
<1>6. CASE CooledTick
  BY <1>6, <1>a DEF CooledTick, Takes
<1>7. CASE UNCHANGED sbVars
  BY <1>7, <1>a DEF sbVars
<1> QED BY <1>1, <1>2, <1>3, <1>4, <1>5, <1>6, <1>7 DEF BlendNext, Tachs

\* With the blend's invariant these are its types.
LEMMA BlendTyped == BlendInv /\ BlendRest => BlendTypeOK
  BY DEF BlendInv, WeightInv, IntegratorInv, OutInv, GateInv, BlendRest, BlendTypeOK
-----------------------------------------------------------------------------
\* The envelope's records count steps of the ladder, and a D in hand has saved
\* fewer steps than it has passed.
EnvNotes ==
    /\ saved \in Kv /\ note \in Kv /\ rung \in 1 .. Len(Ladder) + 1
    /\ epc \in {"stepD", "holdD"} => note.count < rung
    /\ epc = "holdD" => rung \in Rung

\* What is saved is the record in memory, and the file holds it or the one before.
LEMMA SavesTyped ==
    ASSUME saved \in Kv, NEW entry \in Kv, Saves(entry)
    PROVE  saved' \in Kv /\ note' \in Kv /\ note' = entry
BY DEF Saves

\* D begins at the first rung with a count of none, or ends at once.
LEMMA EntersTyped ==
    ASSUME saved \in Kv, note \in Kv, NEW d \in EnvDuty, EntersD(d)
    PROVE  /\ saved' \in Kv /\ note' \in Kv /\ rung' = 1 /\ epc' \in {"leaveC", "over", "stepD"}
           /\ epc' = "stepD" => note'.count = 0
<1>1. CASE StepsAbove(d) = {}
  BY <1>1 DEF EntersD
<1>2. CASE StepsAbove(d) # {}
  <2> DEFINE entry == [state |-> "probing_D", count |-> 0, base |-> d]
  <2>1. entry \in Kv /\ entry.count = 0
    BY LadderShape DEF Kv, States
  <2>2. epc' = "stepD" /\ rung' = 1 /\ Saves(entry)
    BY <1>2 DEF EntersD
  <2> HIDE DEF entry
  <2> QED BY <2>1, <2>2, SavesTyped
<1> QED BY <1>1, <1>2

\* Every step of the envelope probe keeps that.
LEMMA EnvNotesStep == EnvInv /\ EnvNotes /\ [EnvNext]_eVars => EnvNotes'
<1> SUFFICES ASSUME EnvInv, EnvNotes, [EnvNext]_eVars PROVE EnvNotes'
  OBVIOUS
<1>a. /\ saved \in Kv /\ note \in Kv /\ rung \in 1 .. Len(Ladder) + 1 /\ rung \in Nat \ {0}
      /\ epc \in {"stepD", "holdD"} => note.count < rung
      /\ epc = "holdD" => rung \in Rung
      /\ reg \in EnvDuty /\ base \in EnvDuty /\ Len(Ladder) \in Nat /\ Rung = 1 .. Len(Ladder)
      /\ epc \in {"check", "hold"} => rung \in Rung
      /\ note.count \in 0 .. Len(Ladder) /\ saved.count \in 0 .. Len(Ladder)
  BY LadderShape DEF EnvNotes, EnvInv, EnvShape, Kv
<1>1. CASE LaunchProbe
  <2>1. Blank \in Kv
    BY LadderShape DEF Blank, Kv, States, EnvDuty
  <2>2. epc' = "start" /\ saved' = saved /\ note' = Blank /\ rung' = 1
    BY <1>1 DEF LaunchProbe
  <2> QED BY <1>a, <2>1, <2>2 DEF EnvNotes
<1>2. CASE SkipComplete \/ NoBaseline \/ Cancelled \/ LeaveD \/ LeaveC
  <2>1. saved' = saved /\ note' = note /\ rung' = rung /\ epc' \in {"over", "leaveC", "leaveD"}
    BY <1>2 DEF SkipComplete, NoBaseline, Cancelled, LeaveD, LeaveC, pass
  <2> QED BY <1>a, <2>1 DEF EnvNotes
<1>3. CASE BeginC
  <2> DEFINE entry == [saved EXCEPT !.state = "probing", !.base = reg]
  <2>1. entry \in Kv
    BY <1>a DEF Kv, States
  <2>2. Saves(entry) /\ rung' = FirstStep /\ epc' = "step"
    BY <1>3 DEF BeginC
  <2> HIDE DEF entry
  <2>3. FirstStep \in 1 .. Len(Ladder) + 1
    BY <1>a DEF FirstStep
  <2> QED BY <1>a, <2>1, <2>2, <2>3, SavesTyped DEF EnvNotes
<1>4. CASE ResumeD \/ FallBack
  <2>1. saved.base \in EnvDuty
    BY <1>a DEF Kv
  <2>2. PICK d \in EnvDuty : EntersD(d)
    BY <1>4, <1>a, <2>1 DEF ResumeD, FallBack
  <2> QED BY <1>a, <2>2, EntersTyped DEF EnvNotes
<1>5. CASE WriteC
  BY <1>5, <1>a DEF WriteC, StepWrite, EnvNotes, pass
<1>6. CASE ReadBackC \/ AbortC
  <2> DEFINE entry == [note EXCEPT !.state = "aborted_C"]
  <2>1. entry \in Kv
    BY <1>a DEF Kv, States
  <2>2. /\ Saves(entry) \/ (saved' = saved /\ note' = note)
        /\ rung' = rung /\ epc' \in {"aborting", "hold"}
    BY <1>6 DEF ReadBackC, AbortC
  <2> HIDE DEF entry
  <2> QED BY <1>a, <2>1, <2>2, SavesTyped DEF EnvNotes
<1>7. ASSUME NEW hot \in BOOLEAN, HoldC(hot) PROVE EnvNotes'
  <2> DEFINE entry == [note EXCEPT !.count = rung]
  <2>1. epc = "hold" /\ Saves(entry) /\ rung' \in {rung, rung + 1} /\ epc' \in {"ended", "step"}
    BY <1>7 DEF HoldC
  <2>2. entry \in Kv
    BY <1>a, <2>1 DEF Kv
  <2> HIDE DEF entry
  <2> QED BY <1>a, <2>1, <2>2, SavesTyped DEF EnvNotes
<1>8. CASE CompleteC \/ CompleteD
  <2>1. PICK s \in {"complete_C", "complete_D"} : Saves([note EXCEPT !.state = s])
    BY <1>8 DEF CompleteC, CompleteD
  <2>2. rung' = rung /\ epc' \in {"leaveC", "leaveD"}
    BY <1>8 DEF CompleteC, CompleteD
  <2> DEFINE entry == [note EXCEPT !.state = s]
  <2>3. entry \in Kv /\ Saves(entry)
    BY <1>a, <2>1 DEF Kv, States
  <2> HIDE DEF entry
  <2> QED BY <1>a, <2>2, <2>3, SavesTyped DEF EnvNotes
<1>9. CASE SkipD
  BY <1>9, <1>a DEF SkipD, EnvNotes
<1>10. CASE WriteD
  <2>1. rung' = rung /\ note' = note /\ saved' = saved /\ epc' \in {"holdD", "leaveD"} /\ rung \in Rung
        /\ epc = "stepD"
    BY <1>10 DEF WriteD, StepWrite, pass
  <2> QED BY <1>a, <2>1 DEF EnvNotes
<1>11. CASE HoldD
  <2> DEFINE entry == [note EXCEPT !.count = @ + 1]
  <2>1. epc = "holdD" /\ epc' = "stepD" /\ rung' = rung + 1 /\ Saves(entry)
    BY <1>11 DEF HoldD
  <2>2. note.count + 1 \in 0 .. Len(Ladder) /\ note.count + 1 < rung + 1
    BY <1>a, <2>1
  <2>3. entry \in Kv /\ entry.count = note.count + 1
    BY <1>a, <2>2 DEF Kv
  <2> HIDE DEF entry
  <2> QED BY <1>a, <2>1, <2>2, <2>3, SavesTyped DEF EnvNotes
<1>12. CASE Contest \/ UNCHANGED eVars
  BY <1>12, <1>a DEF Contest, eVars, pass, EnvNotes
<1>13. CASE EndOfLife
  BY <1>13, <1>a DEF EndOfLife, pass, EnvNotes
<1> QED BY <1>1, <1>2, <1>3, <1>4, <1>5, <1>6, <1>7, <1>8, <1>9, <1>10, <1>11, <1>12, <1>13
        DEF EnvNext, EnvStep

\* Where the pass stands, its flags, what it found and the bounds of the model.
EnvPlaces == {"off", "start", "step", "check", "hold", "ended", "aborting",
              "stepD", "holdD", "leaveD", "leaveC", "over"}
EnvFlags == epc \in EnvPlaces /\ inC \in BOOLEAN /\ strayed \in BOOLEAN
EnvCounts ==
    /\ facing \in EnvPolarities /\ found \subseteq EnvDuty
    /\ lives \in 0 .. MaxLives /\ hots \in 0 .. MaxHot
    /\ contests \in 0 .. MaxContests /\ errors \in 0 .. MaxEnvErrors

\* Every step keeps the place and the flags.
LEMMA EnvFlagsStep == EnvFlags /\ [EnvNext]_eVars => EnvFlags'
<1> SUFFICES ASSUME EnvFlags, [EnvNext]_eVars PROVE EnvFlags'
  OBVIOUS
<1>1. epc' \in EnvPlaces
  BY DEF EnvFlags, EnvPlaces, EnvNext, EnvStep, LaunchProbe, SkipComplete, BeginC, NoBaseline, ResumeD, WriteC,
     ReadBackC, HoldC, AbortC, FallBack, CompleteC, SkipD, WriteD, HoldD, CompleteD, LeaveD, LeaveC, Cancelled,
     Contest, EndOfLife, EntersD, StepWrite, eVars
<1>2. inC' \in BOOLEAN
  BY Zenon DEF EnvFlags, EnvNext, EnvStep, LaunchProbe, SkipComplete, BeginC, NoBaseline, ResumeD, WriteC,
     ReadBackC, HoldC, AbortC, FallBack, CompleteC, SkipD, WriteD, HoldD, CompleteD, LeaveD, LeaveC, Cancelled,
     Contest, EndOfLife, pass, eVars
<1>3. strayed' \in BOOLEAN
  BY Zenon DEF EnvFlags, EnvNext, EnvStep, LaunchProbe, SkipComplete, BeginC, NoBaseline, ResumeD, WriteC,
     ReadBackC, HoldC, AbortC, FallBack, CompleteC, SkipD, WriteD, HoldD, CompleteD, LeaveD, LeaveC, Cancelled,
     Contest, EndOfLife, past, eVars
<1> QED BY <1>1, <1>2, <1>3 DEF EnvFlags

\* Every step keeps the counts, each of which is raised below its bound.
LEMMA EnvCountsStep == EnvInv /\ EnvCounts /\ [EnvNext]_eVars => EnvCounts'
<1> SUFFICES ASSUME EnvInv, EnvCounts, [EnvNext]_eVars PROVE EnvCounts'
  OBVIOUS
<1>1. facing' = facing
  BY DEF EnvNext, EnvStep, LaunchProbe, SkipComplete, BeginC, NoBaseline, ResumeD, WriteC,
     ReadBackC, HoldC, AbortC, FallBack, CompleteC, SkipD, WriteD, HoldD, CompleteD, LeaveD, LeaveC, Cancelled,
     Contest, EndOfLife, eVars
<1>2. found' \in {found, found \cup {reg}}
  BY DEF EnvNext, EnvStep, LaunchProbe, SkipComplete, BeginC, NoBaseline, ResumeD, WriteC,
     ReadBackC, HoldC, AbortC, FallBack, CompleteC, SkipD, WriteD, HoldD, CompleteD, LeaveD, LeaveC, Cancelled,
     Contest, EndOfLife, past, eVars
<1>3. lives' = lives \/ (lives < MaxLives /\ lives' = lives + 1)
  BY DEF EnvNext, EnvStep, LaunchProbe, SkipComplete, BeginC, NoBaseline, ResumeD, WriteC,
     ReadBackC, HoldC, AbortC, FallBack, CompleteC, SkipD, WriteD, HoldD, CompleteD, LeaveD, LeaveC, Cancelled,
     Contest, EndOfLife, counts, eVars
<1>4. hots' = hots \/ hots' = hots + 0 \/ (hots < MaxHot /\ hots' = hots + 1)
  BY DEF EnvNext, EnvStep, LaunchProbe, SkipComplete, BeginC, NoBaseline, ResumeD, WriteC,
     ReadBackC, HoldC, AbortC, FallBack, CompleteC, SkipD, WriteD, HoldD, CompleteD, LeaveD, LeaveC, Cancelled,
     Contest, EndOfLife, counts, eVars
<1>5. contests' = contests \/ (contests < MaxContests /\ contests' = contests + 1)
  BY DEF EnvNext, EnvStep, LaunchProbe, SkipComplete, BeginC, NoBaseline, ResumeD, WriteC,
     ReadBackC, HoldC, AbortC, FallBack, CompleteC, SkipD, WriteD, HoldD, CompleteD, LeaveD, LeaveC, Cancelled,
     Contest, EndOfLife, counts, eVars
<1>6. errors' = errors \/ (errors < MaxEnvErrors /\ errors' = errors + 1)
  BY DEF EnvNext, EnvStep, LaunchProbe, SkipComplete, BeginC, NoBaseline, ResumeD, WriteC, Saves, StepWrite, EntersD,
     ReadBackC, HoldC, AbortC, FallBack, CompleteC, SkipD, WriteD, HoldD, CompleteD, LeaveD, LeaveC, Cancelled,
     Contest, EndOfLife, counts, eVars
<1>7. reg \in EnvDuty
  BY DEF EnvInv, EnvShape
<1>8. {MaxLives, MaxHot, MaxContests, MaxEnvErrors} \subseteq Nat
  BY EnvelopeAssumption
<1>9. facing' \in EnvPolarities /\ found' \subseteq EnvDuty
  BY <1>1, <1>2, <1>7 DEF EnvCounts
<1>10. /\ lives \in 0 .. MaxLives /\ hots \in 0 .. MaxHot
       /\ contests \in 0 .. MaxContests /\ errors \in 0 .. MaxEnvErrors
  BY DEF EnvCounts
<1>11. /\ lives' \in 0 .. MaxLives /\ hots' \in 0 .. MaxHot
       /\ contests' \in 0 .. MaxContests /\ errors' \in 0 .. MaxEnvErrors
  BY <1>3, <1>4, <1>5, <1>6, <1>8, <1>10
<1> QED BY <1>9, <1>11 DEF EnvCounts

\* With the envelope's invariant these are its types.
LEMMA EnvTyped == EnvInv /\ EnvNotes /\ EnvFlags /\ EnvCounts => EnvTypeOK
  BY DEF EnvInv, EnvShape, EnvNotes, EnvFlags, EnvCounts, EnvPlaces, EnvTypeOK

-----------------------------------------------------------------------------
\* The modules of the host, and what the bounds keep.
ModulesTyped ==
    /\ kernel \in 1 .. MaxKernel /\ mods \subseteq Modules
    /\ kos \subseteq OutOfTree \X (1 .. MaxKernel)
    /\ dkms \subseteq OutOfTree /\ blacklisted \subseteq {Shadow} /\ owed \subseteq OutOfTree
    /\ boots \in 0 .. MaxBoots /\ installFaults \in 0 .. MaxInstallFaults
    /\ probing \in Seq(Seq(Modules))

\* The bootloader's two flags and the history of the gap.
BootFlags == grubFile \in BOOLEAN /\ grubCfg \in BOOLEAN /\ gap \in BOOLEAN

\* Every step of the installation keeps its flags.
LEMMA BootFlagsStep == BootFlags /\ [DriverNext]_diVars => BootFlags'
<1> SUFFICES ASSUME BootFlags, [DriverNext]_diVars PROVE BootFlags'
  OBVIOUS
<1>1. grubFile' \in BOOLEAN
  BY Zenon DEF BootFlags, DriverNext, ProbeBegins, ProbeNext, PlanDriver, StepFails, Build, CopyModule, Depmod,
     RegisterDKMS, Modprobe, ModprobeBusy, ModprobeRefused, BlacklistRival, ModprobeAgain, Verify, SweepNothing,
     SweepRival, ForbidRival, Persist, Cleanup, InstallerDies, HostBoots, Unloads, Blacklists, diVars
<1>2. grubCfg' \in BOOLEAN
  BY Zenon DEF BootFlags, DriverNext, ProbeBegins, ProbeNext, PlanDriver, StepFails, Build, CopyModule, Depmod,
     RegisterDKMS, Modprobe, ModprobeBusy, ModprobeRefused, BlacklistRival, ModprobeAgain, Verify, SweepNothing,
     SweepRival, ForbidRival, Persist, Cleanup, InstallerDies, HostBoots, Unloads, Blacklists, diVars
<1>3. gap' \in BOOLEAN
  BY Zenon DEF BootFlags, DriverNext, ProbeBegins, ProbeNext, PlanDriver, StepFails, Build, CopyModule, Depmod,
     RegisterDKMS, Modprobe, ModprobeBusy, ModprobeRefused, BlacklistRival, ModprobeAgain, Verify, SweepNothing,
     SweepRival, ForbidRival, Persist, Cleanup, InstallerDies, HostBoots, Unloads, Blacklists, diVars
<1> QED BY <1>1, <1>2, <1>3 DEF BootFlags

\* The lists that the package's probe goes through are of modules.
LEMMA ListsTyped == Lists \subseteq Seq(Seq(Modules))
<1>1. Shadow \in Modules /\ Plain \in Modules
  BY DEF Modules
<1> DEFINE kernels == <<Shadow, Plain>>
<1>2. << >> \in Seq(Modules) /\ <<Shadow>> \in Seq(Modules) /\ <<Plain>> \in Seq(Modules)
  BY <1>1
<1>3. kernels \in Seq(Modules)
  BY <1>1
<1> HIDE DEF kernels
<1>4. ASSUME NEW h \in Seq(Modules), NEW d \in Seq(Modules) PROVE <<h, d, kernels>> \in Seq(Seq(Modules))
  BY <1>3
<1>5. Lists = {<<h, d, kernels>> : h \in {<< >>, <<Shadow>>, <<Plain>>}, d \in {<<Shadow>>, <<Plain>>}}
  BY DEF Lists, kernels
<1>6. ASSUME NEW l \in Lists PROVE l \in Seq(Seq(Modules))
  <2>1. PICK h \in {<< >>, <<Shadow>>, <<Plain>>}, d \in {<<Shadow>>, <<Plain>>} : l = <<h, d, kernels>>
    BY <1>5
  <2>2. h \in Seq(Modules) /\ d \in Seq(Modules)
    BY <1>2
  <2> QED BY <1>4, <2>1, <2>2
<1> QED BY <1>6

\* The head and the tail of a sequence that is not empty.
LEMMA TailTyped ==
    ASSUME NEW T, NEW s \in Seq(T), s # << >>
    PROVE  Head(s) \in T /\ Tail(s) \in Seq(T)
  BY HeadTailProperties

\* The same sequence with another head.
LEMMA FirstTyped ==
    ASSUME NEW T, NEW s \in Seq(T), s # << >>, NEW x \in T
    PROVE  [s EXCEPT ![1] = x] \in Seq(T)
  BY ExceptSeq

\* One fault more keeps the bound.
LEMMA FaultTyped ==
    /\ MaxInstallFaults \in Nat /\ MaxBoots \in Nat
    /\ ModulesTyped /\ (Fault \/ UNCHANGED installFaults) => installFaults' \in 0 .. MaxInstallFaults
    /\ ModulesTyped /\ (Killing \/ UNCHANGED boots) => boots' \in 0 .. MaxBoots
  BY DriverAssumption DEF Fault, Killing, ModulesTyped

\* Every step of the installation keeps the modules.
LEMMA ModulesStep == DriverInv /\ ModulesTyped /\ [DriverNext]_diVars => ModulesTyped'
<1> SUFFICES ASSUME DriverInv, ModulesTyped, [DriverNext]_diVars PROVE ModulesTyped'
  OBVIOUS
<1>a. OutOfTree \subseteq Modules /\ Shadow \in Modules /\ Plain \in Modules
  BY DEF Modules
<1>b. stage # "idle" => m0 \in OutOfTree
  BY TailTyped DEF DriverInv, DriverShape, m0
<1>1. CASE ProbeBegins
  <2>1. probing' \in Seq(Seq(Modules))
    BY <1>1, ListsTyped DEF ProbeBegins, ModulesTyped
  <2>2. Fault \/ UNCHANGED installFaults
    BY <1>1 DEF ProbeBegins, PersistModule
  <2> QED BY <1>1, <2>1, <2>2, FaultTyped DEF ProbeBegins, ModulesTyped
<1>2. CASE ProbeNext
  <2> DEFINE now == Head(probing)
  <2>1. now \in Seq(Modules) /\ Tail(probing) \in Seq(Seq(Modules)) /\ probing # << >>
    BY <1>2, TailTyped DEF ProbeNext, ModulesTyped
  <2>2. now # << >> => Head(now) \in Modules /\ Tail(now) \in Seq(Modules)
    BY <2>1, TailTyped
  <2>3. now # << >> => [probing EXCEPT ![1] = Tail(now)] \in Seq(Seq(Modules))
    BY <2>1, <2>2, FirstTyped DEF ModulesTyped
  <2>4. << >> \in Seq(Seq(Modules))
    OBVIOUS
  <2>5. Fault \/ UNCHANGED installFaults
    BY <1>2 DEF ProbeNext, PersistModule
  <2>6. \/ probing' \in {<< >>, Tail(probing)}
        \/ now # << >> /\ probing' = [probing EXCEPT ![1] = Tail(now)]
    BY <1>2 DEF ProbeNext, NextList
  <2>7. mods' = mods \/ (now # << >> /\ mods' \in {mods \ {Head(now)}, mods \cup {Head(now)}})
    BY <1>2 DEF ProbeNext
  <2>8. UNCHANGED <<kernel, kos, dkms, blacklisted, owed, boots>>
    BY <1>2 DEF ProbeNext
  <2>9. probing' \in Seq(Seq(Modules))
    BY <2>1, <2>3, <2>4, <2>6
  <2>10. mods' \subseteq Modules
    BY <2>2, <2>7 DEF ModulesTyped
  <2> HIDE DEF now
  <2> QED BY <2>5, <2>8, <2>9, <2>10, FaultTyped DEF ModulesTyped
<1>3. CASE PlanDriver \/ Build \/ Verify \/ SweepNothing
  BY <1>3 DEF PlanDriver, Build, Verify, SweepNothing, ModulesTyped
<1>4. CASE StepFails \/ Modprobe \/ ModprobeBusy \/ ModprobeAgain
  <2>1. /\ mods' \in {mods, mods \ {m0}, mods \cup {m0}} /\ m0 \in OutOfTree
        /\ Fault \/ UNCHANGED installFaults
        /\ UNCHANGED <<kernel, kos, dkms, blacklisted, owed, boots, probing>>
    BY <1>4, <1>b DEF StepFails, Modprobe, ModprobeBusy, ModprobeAgain
  <2> QED BY <1>a, <2>1, FaultTyped DEF ModulesTyped
<1>5. CASE ModprobeRefused \/ SweepRival
  <2>1. /\ mods' \in {mods, mods \ {Shadow}} /\ (Fault \/ UNCHANGED installFaults)
        /\ UNCHANGED <<kernel, kos, dkms, blacklisted, owed, boots, probing>>
    BY <1>5 DEF ModprobeRefused, SweepRival, Unloads
  <2> QED BY <2>1, FaultTyped DEF ModulesTyped
<1>6. CASE BlacklistRival \/ ForbidRival
  <2>1. /\ blacklisted' \in {blacklisted, blacklisted \cup {Shadow}} /\ (Fault \/ UNCHANGED installFaults)
        /\ UNCHANGED <<kernel, mods, kos, dkms, owed, boots, probing>>
    BY <1>6 DEF BlacklistRival, ForbidRival, Blacklists
  <2> QED BY <2>1, FaultTyped DEF ModulesTyped
<1>7. CASE CopyModule
  <2>1. m0 \in OutOfTree /\ kernel \in 1 .. MaxKernel
    BY <1>7, <1>b DEF CopyModule, ModulesTyped
  <2> QED BY <1>7, <2>1 DEF CopyModule, ModulesTyped
<1>8. CASE Depmod \/ RegisterDKMS
  <2>1. /\ dkms' \in {dkms, dkms \ {m0}, dkms \cup {m0}} /\ m0 \in OutOfTree
        /\ Fault \/ UNCHANGED installFaults
        /\ UNCHANGED <<kernel, mods, kos, blacklisted, owed, boots, probing>>
    BY <1>8, <1>b DEF Depmod, RegisterDKMS
  <2> QED BY <2>1, FaultTyped DEF ModulesTyped
<1>9. CASE Persist
  <2>1. /\ owed' \in {owed, owed \cup {m0}} /\ m0 \in OutOfTree /\ (Fault \/ UNCHANGED installFaults)
        /\ UNCHANGED <<kernel, mods, kos, dkms, blacklisted, boots, probing>>
    BY <1>9, <1>b DEF Persist
  <2> QED BY <2>1, FaultTyped DEF ModulesTyped
<1>10. ASSUME NEW m \in OutOfTree, Cleanup(m) PROVE ModulesTyped'
  <2>1. /\ kos' \subseteq kos /\ dkms' \subseteq dkms /\ owed' \subseteq owed
        /\ UNCHANGED <<kernel, mods, blacklisted, boots, installFaults, probing>>
    BY <1>10 DEF Cleanup
  <2> QED BY <2>1 DEF ModulesTyped
<1>11. CASE InstallerDies
  <2>1. Killing /\ UNCHANGED <<kernel, mods, kos, dkms, blacklisted, owed, installFaults, probing>>
    BY <1>11 DEF InstallerDies
  <2> QED BY <2>1, FaultTyped DEF ModulesTyped
<1>12. CASE HostBoots
  <2>1. /\ Killing /\ probing' = << >> /\ UNCHANGED <<kos, blacklisted>> /\ mods' = BootSet'
        /\ host' = host /\ loadConf' = loadConf
    BY <1>12 DEF HostBoots
  <2>2. /\ kernel' = kernel \/ (kernel < MaxKernel /\ kernel' = kernel + 1)
        /\ dkms' \subseteq dkms /\ owed' \subseteq owed /\ (Fault \/ UNCHANGED installFaults)
    BY <1>12 DEF HostBoots, SameKernel, NewKernel
  <2>3. kernel' \in 1 .. MaxKernel
    BY <2>2, DriverAssumption DEF ModulesTyped
  <2>4. SelfLoading' \subseteq {Shadow}
    BY DEF SelfLoading
  <2>5. loadConf \subseteq Modules
    BY Names, <1>a DEF DriverInv, DriverShape, BootsOnlyControlling, OutOfTree
  <2>6. BootSet' \subseteq Modules
    BY <1>a, <2>1, <2>4, <2>5 DEF BootSet
  <2>7. << >> \in Seq(Seq(Modules))
    OBVIOUS
  <2> QED BY <2>1, <2>2, <2>3, <2>6, <2>7, FaultTyped DEF ModulesTyped
<1>13. CASE UNCHANGED diVars
  BY <1>13 DEF diVars, ModulesTyped
<1> QED BY <1>1, <1>2, <1>3, <1>4, <1>5, <1>6, <1>7, <1>8, <1>9, <1>10, <1>11, <1>12, <1>13 DEF DriverNext

\* With the driver's invariant these are its types.
LEMMA DriverTyped == DriverInv /\ ModulesTyped /\ BootFlags => DriverTypeOK
<1> SUFFICES ASSUME DriverInv, ModulesTyped, BootFlags PROVE DriverTypeOK
  OBVIOUS
<1>1. loadConf \subseteq Modules
  BY Names DEF DriverInv, DriverShape, BootsOnlyControlling, OutOfTree, Modules
<1>2. \A i \in DOMAIN probing : probing[i] \in Seq(Modules)
  BY DEF ModulesTyped
<1> QED BY <1>1, <1>2 DEF DriverInv, DriverShape, ModulesTyped, BootFlags, DriverTypeOK

\* What the invariants of the log, the backends, the watcher and the store say of
\* their types.
LEMMA PartsTyped ==
    /\ LogInv => LogTypeOK
    /\ HalInv => HalTypeOK
    /\ StoreInv => StoreTypeOK
    /\ WatchInv => WatcherTypeOK
<1>1. Unarmed \notin Nat
  BY DEF Unarmed
<1>2. WatchInv => WatcherTypeOK
  BY <1>1 DEF WatchInv, TimersInv, CandidatesInv, Waits, WatcherTypeOK
<1> QED BY <1>2 DEF LogInv, LogShape, HalInv, StoreInv

\* The daemon's watchdog is the watchdog.
LEMMA WatchdogImplemented == SafetySpec => Spec
<1>1. SafetyInit => Init
  BY DEF SafetyInit
<1>2. [SafetyNext]_<<part, vars, wVars, lVars, halVars, hVars, eVars, ssVars, diVars, sbVars>> => [Next]_vars
  BY DEF SafetyNext
<1> QED BY <1>1, <1>2, PTL DEF SafetySpec, Spec

\* The types of the parts, with the invariants they need.
TypesInv ==
    /\ CauseInv /\ HeartInv /\ CohortTyped
    /\ BlendInv /\ BlendRest
    /\ EnvInv /\ EnvNotes /\ EnvFlags /\ EnvCounts
    /\ DriverInv /\ ModulesTyped /\ BootFlags
    /\ WatchInv /\ HalInv

\* It holds at the start, ...
LEMMA TypesBegin == SafetyInit => TypesInv
<1> SUFFICES ASSUME SafetyInit PROVE TypesInv
  OBVIOUS
<1>1. WatcherInit /\ HalInit /\ HeartbeatInit /\ EnvInit /\ DriverInit /\ BlendInit
  BY DEF SafetyInit
<1>2. CohortTyped
  BY <1>1, HeartbeatAssumption DEF HeartbeatInit, CohortTyped, Nobody, Started
<1>3. BlendRest
  <2>1. open \in BOOLEAN /\ armed \in BOOLEAN /\ contacted \in BOOLEAN
    BY <1>1, Zenon DEF BlendInit
  <2>2. due = Tachs \cup {Evaluator} /\ cold = 0 /\ calm = 0 /\ NoTick = WeightTop + 1
    BY <1>1 DEF BlendInit, NoTick
  <2> QED BY <2>1, <2>2, BlendAssumption DEF BlendRest
<1>4. EnvNotes
  <2>1. Blank \in Kv
    BY LadderShape DEF Blank, Kv, States, EnvDuty
  <2>2. saved = Blank /\ note = Blank /\ rung = 1 /\ epc = "off"
    BY <1>1 DEF EnvInit
  <2> QED BY <2>1, <2>2, LadderShape DEF EnvNotes
<1>5. EnvFlags /\ EnvCounts
  <2>1. inC \in BOOLEAN /\ strayed \in BOOLEAN
    BY <1>1, Zenon DEF EnvInit
  <2>2. epc \in EnvPlaces
    BY <1>1 DEF EnvInit, EnvPlaces
  <2>3. EnvCounts
    BY <1>1, EnvelopeAssumption DEF EnvInit, EnvCounts
  <2> QED BY <2>1, <2>2, <2>3 DEF EnvFlags
<1>6. BootFlags
  BY <1>1 DEF DriverInit, BootFlags
<1>7. ModulesTyped
  <2>1. SelfLoading \subseteq Modules
    BY DEF SelfLoading, Modules
  <2>2. << >> \in Seq(Seq(Modules))
    OBVIOUS
  <2> QED BY <1>1, <2>1, <2>2, DriverAssumption DEF DriverInit, ModulesTyped
<1> QED BY <1>1, <1>2, <1>3, <1>4, <1>5, <1>6, <1>7, CauseInit, HeartInvInit, BlendInvInit, EnvInitInv,
           DriverInitInv, WatchInvInit, HalBegins DEF TypesInv

\* ... and every step of the daemon keeps it.
LEMMA TypesStep ==
    TypesInv /\ [SafetyNext]_<<part, vars, wVars, lVars, halVars, hVars, eVars, ssVars, diVars, sbVars>>
        => TypesInv'
<1> SUFFICES ASSUME TypesInv,
                    [SafetyNext]_<<part, vars, wVars, lVars, halVars, hVars, eVars, ssVars, diVars, sbVars>>
             PROVE  TypesInv'
  OBVIOUS
<1>1. /\ [HeartbeatNext]_hVars /\ [BlendNext]_sbVars /\ [EnvNext]_eVars /\ [DriverNext]_diVars
      /\ [WatcherNext]_wVars /\ [HalNext]_halVars
  BY DEF SafetyNext
<1>2. CauseInv' /\ HeartInv' /\ CohortTyped'
  BY <1>1, CauseStep, HeartInvStep, CohortStep DEF TypesInv
<1>3. BlendInv' /\ BlendRest'
  BY <1>1, BlendInvStep, BlendRestStep DEF TypesInv
<1>4. EnvInv' /\ EnvNotes' /\ EnvFlags' /\ EnvCounts'
  BY <1>1, EnvStepInv, EnvNotesStep, EnvFlagsStep, EnvCountsStep DEF TypesInv
<1>5. DriverInv' /\ ModulesTyped' /\ BootFlags'
  BY <1>1, DriverStep, ModulesStep, BootFlagsStep DEF TypesInv
<1>6. WatchInv' /\ HalInv'
  BY <1>1, WatchInvStep, HalStep DEF TypesInv
<1> QED BY <1>2, <1>3, <1>4, <1>5, <1>6 DEF TypesInv

\* Every part keeps its types, for every value of the constants: a record of the
\* envelope probe counts no more steps than the ladder has, a heartbeat's
\* controller is never behind its ticker, a log's files hold nothing but headers,
\* records and torn items, and no installed module is not a module.
THEOREM PartsAreTyped == SafetySpec => []PartsTypeOK
<1>1. SafetySpec => []TypesInv
  BY TypesBegin, TypesStep, PTL DEF SafetySpec
<1>2. SafetySpec => []TypeOK
  BY WatchdogImplemented, TypeCorrect, PTL
<1>3. TypesInv /\ TypeOK /\ StoreInv /\ LogInv => PartsTypeOK
  BY PartsTyped, HeartbeatTyped, BlendTyped, EnvTyped, DriverTyped DEF TypesInv, PartsTypeOK
<1> QED BY <1>1, <1>2, <1>3, SurvivalInvs, PTL

=============================================================================
