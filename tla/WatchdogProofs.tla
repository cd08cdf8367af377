--------------------------- MODULE WatchdogProofs ---------------------------
(***************************************************************************)
(* Theorems about Watchdog for every set of channels, every chip, every    *)
(* number of callers and a registry of any length.                         *)
(*                                                                         *)
(* A state has many baselines: those of the registry and those of the      *)
(* snapshots of the restores under way.  The arguments follow one of them: *)
(* BaselineOrigin says that a step creates at most one, the one Register   *)
(* captures, so an invariant about every baseline needs an argument about  *)
(* Capture and about the store it reads, and none about the other actions. *)
(***************************************************************************)
EXTENDS Watchdog, SequenceTheorems, WellFoundedInduction, TLAPS

-----------------------------------------------------------------------------
(* The decisions of PwmEnable, for every chip: the handback walks never     *)
(* yield manual mode, Register never captures it, and no restore leaves a   *)
(* fan held at a duty byte of ventd's while the chip offers a value that    *)
(* would have freed it.                                                     *)

\* The restore walk starts after the value Restore has already tried.
LEMMA WalkTail == /\ Tail(SafePreDaemonEnableSequence) = <<99, 0>>
                  /\ Head(SafePreDaemonEnableSequence) = 2
BY DEF SafePreDaemonEnableSequence

\* A walk yields the value at an index of its sequence that the driver takes,
\* or Unknown when it takes none.  The walks have at most three values, so the
\* least index exists by inspection.
LEMMA FirstAcceptedIsTaken ==
    ASSUME NEW c \in Channel, NEW n \in 1..3, NEW seq, DOMAIN seq = 1..n
    PROVE  \/ /\ FirstAccepted(c, seq) = Unknown
              /\ \A i \in 1..n : seq[i] \notin Accepts[c]
           \/ \E i \in 1..n : /\ FirstAccepted(c, seq) = seq[i]
                              /\ seq[i] \in Accepts[c]
<1> DEFINE taken == {i \in DOMAIN seq : seq[i] \in Accepts[c]}
<1>1. CASE taken = {}
  BY <1>1 DEF FirstAccepted
<1>2. CASE taken # {}
  <2> DEFINE k == CHOOSE i \in taken : \A j \in taken : i <= j
  <2>1. \E i \in taken : \A j \in taken : i <= j
    <3>1. taken \subseteq {1, 2, 3} /\ taken # {}
      BY <1>2
    <3> HIDE DEF taken
    <3>2. CASE 1 \in taken
      BY <3>1, <3>2
    <3>3. CASE 1 \notin taken /\ 2 \in taken
      BY <3>1, <3>3
    <3>4. CASE 1 \notin taken /\ 2 \notin taken
      <4>1. taken = {3}
        BY <3>1, <3>4
      <4> QED BY <4>1
    <3> QED BY <3>2, <3>3, <3>4
  <2>2. k \in taken
    BY <2>1
  <2>3. FirstAccepted(c, seq) = seq[k]
    BY <1>2 DEF FirstAccepted
  <2> HIDE DEF k
  <2>4. k \in 1..n /\ seq[k] \in Accepts[c]
    BY <2>2
  <2> QED BY <2>3, <2>4
<1> QED BY <1>1, <1>2

\* The two walks of the code, spelled out: Restore's walk over 99 and 0, and
\* the handback walk over 2, 99 and 0.
LEMMA WalkValues ==
    ASSUME NEW c \in Channel
    PROVE  /\ FirstAccepted(c, Tail(SafePreDaemonEnableSequence))
                  \in {Unknown} \cup ({99, 0} \cap Accepts[c])
           /\ FirstAccepted(c, SafePreDaemonEnableSequence)
                  \in {Unknown} \cup ({2, 99, 0} \cap Accepts[c])
<1>1. ASSUME NEW seq, seq = <<99, 0>>
      PROVE  FirstAccepted(c, seq) \in {Unknown} \cup ({99, 0} \cap Accepts[c])
  <2>1. DOMAIN seq = 1..2 /\ \A i \in 1..2 : seq[i] \in {99, 0}
    BY <1>1
  <2>2. 2 \in 1..3
    OBVIOUS
  <2>3. \/ FirstAccepted(c, seq) = Unknown
        \/ \E i \in 1..2 : /\ FirstAccepted(c, seq) = seq[i]
                           /\ seq[i] \in Accepts[c]
    BY <2>1, <2>2, FirstAcceptedIsTaken
  <2> QED BY <2>1, <2>3
<1>2. ASSUME NEW seq, seq = <<2, 99, 0>>
      PROVE  FirstAccepted(c, seq)
                \in {Unknown} \cup ({2, 99, 0} \cap Accepts[c])
  <2>1. DOMAIN seq = 1..3 /\ \A i \in 1..3 : seq[i] \in {2, 99, 0}
    BY <1>2
  <2>2. 3 \in 1..3
    OBVIOUS
  <2>3. \/ FirstAccepted(c, seq) = Unknown
        \/ \E i \in 1..3 : /\ FirstAccepted(c, seq) = seq[i]
                           /\ seq[i] \in Accepts[c]
    BY <2>1, <2>2, FirstAcceptedIsTaken
  <2> QED BY <2>1, <2>3
<1> QED BY <1>1, <1>2, WalkTail DEF SafePreDaemonEnableSequence

\* The firmware handback never writes manual mode, on any chip: a register it
\* leaves in manual mode was already there (RULE-WD-RECOVER-HANDBACK).
LEMMA HandBackNeverManual ==
    ASSUME NEW c \in Channel, NEW en \in Mode, NEW o
    PROVE  /\ HandBack(c, en, o) \in Mode
           /\ HandBack(c, en, o) = Manual => en = Manual
BY WalkValues, ModeAssumption DEF HandBack, Manual, Unknown

\* What Register captures is never manual mode, nor is what it persists.
LEMMA CaptureNeverManual ==
    ASSUME NEW live \in Mode \cup {Unknown}, NEW stored \in Mode \cup {Unknown}
    PROVE  LET got == Capture(live, stored)
           IN  /\ got.orig \in (Mode \cup {Unknown}) \ {Manual}
               /\ got.fallback \in BOOLEAN
               /\ got.persist \in (Mode \cup {Unknown}) \ {Manual}
               /\ got.persist # Unknown => got.persist = live
               /\ got.fallback \/ got.orig \in {Unknown, live, stored}
BY WalkTail, ModeAssumption DEF Capture, Manual, Unknown

\* Restoring a baseline writes legal values, and persists only a value of the
\* fallback walk that the chip has just taken.
LEMMA RestoreEffectLegal ==
    ASSUME NEW c \in Channel, NEW e, e.orig \in Mode \cup {Unknown},
           NEW en \in Mode, NEW d \in Duty, NEW o \in IoOutcome
    PROVE  LET out == RestoreEffect(c, e, en, d, o)
           IN  /\ out.enable \in Mode
               /\ out.duty \in Duty
               /\ out.persist \in (Mode \cup {Unknown}) \ {Manual}
               /\ out.persist # Unknown => out.persist = out.enable
<1>1. {0, 1, 2, 99} \subseteq Mode /\ Mode \subseteq Nat
  BY ModeAssumption
<1>2. CASE c \in Vendor
  BY <1>1, <1>2 DEF RestoreEffect, RestoreVendor, Chip, Manual, Unknown, Duty
<1>3. CASE c \notin Vendor
  BY <1>1, <1>3, WalkValues
     DEF RestoreEffect, RestoreHwmon, FullSpeed, Chip, Manual, Unknown, Duty
<1> QED BY <1>2, <1>3

\* The failsafe ladder of Restore is complete: whichever write fails, the fan
\* ends in an automatic mode or at full speed, unless nothing can be written,
\* a vendor primitive failed, or the chip rejects every value above manual
\* mode that the baseline allows.
LEMMA RestoreEffectHandsBack ==
    ASSUME NEW c \in Channel, NEW e, e.orig \in Mode \cup {Unknown},
           e.orig # Manual, NEW en \in Mode, NEW d \in Duty,
           NEW o \in IoOutcome,
           o # "all_fail", c \in Vendor => o = "ok", c \notin Vendor => c \in EnablePath \/ e.orig = Unknown,
           ~Unrestorable(c, e)
    PROVE  LET out == RestoreEffect(c, e, en, d, o)
           IN  ~Held(c, out.enable, out.duty)
<1>1. CASE c \in Vendor
  BY <1>1 DEF RestoreEffect, RestoreVendor, Chip, Held, Manual
<1>2. CASE c \notin Vendor
  BY <1>2, WalkValues, ModeAssumption
     DEF RestoreEffect, RestoreHwmon, FullSpeed, Chip, Manual, Unknown,
         Held, Unrestorable
<1> QED BY <1>1, <1>2

-----------------------------------------------------------------------------
(* Sequences.                                                              *)

\* A nonempty set of positions of a sequence has a last one.
LEMMA LastPosition ==
    ASSUME NEW n \in Nat, NEW own, own \subseteq 1..n, own # {}
    PROVE  \E i \in own : \A j \in own : j <= i
<1> DEFINE mirror == {k \in 0..n : n - k \in own}
<1>1. mirror \subseteq Nat /\ mirror # {}
  <2>1. PICK i \in own : TRUE
    OBVIOUS
  <2>2. n - i \in mirror
    BY <2>1
  <2>3. mirror \subseteq Nat
    OBVIOUS
  <2> HIDE DEF mirror
  <2> QED BY <2>2, <2>3
<1> DEFINE below == {p \in Nat \X Nat : p[1] < p[2]}
<1>2. PICK k \in mirror : \A y \in mirror : <<y, k>> \notin below
  <2>1. IsWellFoundedOn(below, Nat)
    BY NatLessThanWellFounded DEF OpToRel
  <2> HIDE DEF mirror, below
  <2> QED BY <1>1, <2>1, WFMin
<1>3. ASSUME NEW y \in mirror
      PROVE  k <= y
  <2>1. y \in Nat /\ k \in Nat
    BY <1>1
  <2>2. y < k => <<y, k>> \in below
    BY <2>1
  <2> HIDE DEF mirror, below
  <2> QED BY <1>2, <2>1, <2>2
<1>4. \A j \in own : n - j \in mirror
  OBVIOUS
<1> QED BY <1>2, <1>3, <1>4

\* Removing an element leaves the others, and adds none.
LEMMA RemoveAtKeeps ==
    ASSUME NEW S, NEW s \in Seq(S), NEW i \in 1..Len(s)
    PROVE  /\ RemoveAt(s, i) \in Seq(S)
           /\ Range(RemoveAt(s, i)) \subseteq Range(s)
<1> DEFINE front == SubSeq(s, 1, i - 1)
           back == SubSeq(s, i + 1, Len(s))
<1>1. Len(s) \in Nat /\ \A j \in 1..Len(s) : s[j] \in S
  BY LenProperties, ElementOfSeq
<1>2. /\ front \in Seq(Range(s))
      /\ back \in Seq(Range(s))
  <2>1. \A j \in 1..(i - 1) : s[j] \in Range(s)
    BY <1>1, LenProperties DEF Range
  <2>2. \A j \in (i + 1)..Len(s) : s[j] \in Range(s)
    BY <1>1, LenProperties DEF Range
  <2> QED BY <1>1, <2>1, <2>2, SubSeqProperties
<1>3. RemoveAt(s, i) \in Seq(Range(s))
  BY <1>2, ConcatProperties DEF RemoveAt
<1>4. Range(s) \subseteq S
  BY <1>1, LenProperties DEF Range
<1>5. RemoveAt(s, i) \in Seq(S)
  BY <1>3, <1>4, SeqMonotonic
<1>6. Range(RemoveAt(s, i)) \subseteq Range(s)
  BY <1>3, LenProperties, ElementOfSeq DEF Range
<1> QED BY <1>5, <1>6

\* Appending adds one element to the range.
LEMMA AppendRange ==
    ASSUME NEW S, NEW s \in Seq(S), NEW e \in S
    PROVE  /\ Append(s, e) \in Seq(S)
           /\ Range(Append(s, e)) \subseteq Range(s) \cup {e}
<1>1. /\ Append(s, e) \in Seq(S)
      /\ Len(Append(s, e)) = Len(s) + 1
      /\ \A i \in 1..Len(s) : Append(s, e)[i] = s[i]
      /\ Append(s, e)[Len(s) + 1] = e
  BY AppendProperties
<1>2. Len(s) \in Nat /\ DOMAIN s = 1..Len(s)
  BY LenProperties
<1>3. DOMAIN Append(s, e) = 1..(Len(s) + 1)
  BY <1>1, LenProperties
<1> QED BY <1>1, <1>2, <1>3 DEF Range

\* The entry RestoreOne and Deregister act on is the last one of its path.
LEMMA TopIsEntry ==
    ASSUME NEW c \in Channel, entries \in Seq(Entry), Top(c) # 0
    PROVE  /\ Top(c) \in 1..Len(entries)
           /\ entries[Top(c)].path = c
           /\ entries[Top(c)] \in Entry
           /\ entries[Top(c)] \in Range(entries)
<1> DEFINE own == {i \in DOMAIN entries : entries[i].path = c}
<1>1. Len(entries) \in Nat /\ DOMAIN entries = 1..Len(entries)
  BY LenProperties
<1>2. own # {} /\ own \subseteq 1..Len(entries)
  BY <1>1 DEF Top
<1>3. \E i \in own : \A j \in own : j <= i
  <2> HIDE DEF own
  <2> QED BY <1>1, <1>2, LastPosition
<1>4. Top(c) \in own
  BY <1>2, <1>3 DEF Top
<1> QED BY <1>1, <1>4, ElementOfSeq DEF Range

-----------------------------------------------------------------------------
(* Type correctness.                                                       *)

\* The registers, the store and the history after one restored entry.
LEMMA RestoreEntryEffectTypes ==
    ASSUME TypeOK, NEW e \in Entry, NEW saved \in BOOLEAN,
           RestoreEntryEffect(e, saved)
    PROVE  /\ store' \in [Key -> Mode \cup {Unknown}]
           /\ enable' \in [Channel -> Mode]
           /\ duty' \in [Channel -> Duty]
           /\ io' \in [Channel -> IoOutcome]
           /\ seen' \in [Channel -> SUBSET Mode]
<1> DEFINE c == e.path
           out == RestoreEffect(c, e, enable[c], duty[c], io[c])
<1>1. c \in Channel /\ e.orig \in Mode \cup {Unknown}
  BY DEF Entry
<1>2. enable[c] \in Mode /\ duty[c] \in Duty /\ io[c] \in IoOutcome
  BY <1>1 DEF TypeOK
<1>3. /\ out.enable \in Mode
      /\ out.duty \in Duty
      /\ out.persist \in Mode \cup {Unknown}
  BY <1>1, <1>2, RestoreEffectLegal
<1> HIDE DEF out
<1>4. /\ enable' = [enable EXCEPT ![c] = out.enable]
      /\ duty' = [duty EXCEPT ![c] = out.duty]
      /\ seen' = [seen EXCEPT ![c] = @ \cup {out.enable}]
      /\ Save(KeyOf(c), out.persist, saved)
      /\ io' = io
  BY DEF RestoreEntryEffect, out
<1>5. store' \in [Key -> Mode \cup {Unknown}]
  BY <1>1, <1>3, <1>4 DEF Save, TypeOK, Key
<1> QED BY <1>1, <1>3, <1>4, <1>5 DEF TypeOK

\* What Register pushes and persists.
LEMMA RegisterCaptures ==
    ASSUME TypeOK, NEW c \in Channel, NEW readOk \in BOOLEAN
    PROVE  LET live == LiveEnable(c, readOk)
               stored == store[KeyOf(c)]
           IN  /\ live \in Mode \cup {Unknown}
               /\ live \in {enable[c], Unknown}
               /\ stored \in Mode \cup {Unknown}
               /\ live # Unknown => c \in EnablePath
BY ModeAssumption DEF LiveEnable, TypeOK, Key, Unknown

\* The types of the variables hold initially and are preserved by each step.
LEMMA TypeInit == Init => TypeOK
<1> SUFFICES ASSUME Init PROVE TypeOK
  OBVIOUS
<1>1. FirmwareMode \cup {Manual} \subseteq Mode
  BY ModeAssumption, FirmwareAssumption DEF Manual
<1>2. NoCall \in Call /\ NoCall.left \subseteq DOMAIN NoCall.snap
  BY EmptySeq DEF NoCall, Call
<1>3. entries \in Seq(Entry)
  BY EmptySeq DEF Init
<1>4. enable \in [Channel -> Mode]
  BY <1>1 DEF Init
<1> QED BY <1>1, <1>2, <1>3, <1>4 DEF Init, TypeOK, Duty, IoOutcome

LEMMA TypeStep == TypeOK /\ [Next]_vars => TypeOK'
<1> SUFFICES ASSUME TypeOK, [Next]_vars PROVE TypeOK'
  OBVIOUS
<1>1. ASSUME NEW c \in Channel, NEW readOk \in BOOLEAN, NEW saved \in BOOLEAN,
             Register(c, readOk, saved)
      PROVE  TypeOK'
  <2> DEFINE got == Capture(LiveEnable(c, readOk), store[KeyOf(c)])
             e == [path |-> c, orig |-> got.orig, fallback |-> got.fallback]
  <2>1. /\ got.orig \in Mode \cup {Unknown}
        /\ got.fallback \in BOOLEAN
        /\ got.persist \in Mode \cup {Unknown}
    BY RegisterCaptures, CaptureNeverManual
  <2> HIDE DEF got
  <2>2. e \in Entry
    BY <2>1 DEF Entry
  <2>3. entries' = Append(entries, e) /\ Save(KeyOf(c), got.persist, saved)
    BY <1>1 DEF Register, got
  <2>4. entries' \in Seq(Entry)
    BY <2>2, <2>3, AppendRange DEF TypeOK
  <2>5. store' \in [Key -> Mode \cup {Unknown}]
    BY <2>1, <2>3 DEF Save, TypeOK, Key
  <2> QED BY <1>1, <2>4, <2>5 DEF Register, TypeOK, chip
<1>2. ASSUME NEW c \in Channel, Deregister(c)
      PROVE  TypeOK'
  <2>1. entries' \in Seq(Entry)
    BY <1>2, TopIsEntry, RemoveAtKeeps DEF Deregister, TypeOK
  <2> QED BY <1>2, <2>1 DEF Deregister, TypeOK, chip
<1>3. ASSUME NEW c \in Channel, NEW saved \in BOOLEAN, RestoreOne(c, saved)
      PROVE  TypeOK'
  <2>1. CASE Top(c) = 0
    BY <1>3, <2>1 DEF RestoreOne, TypeOK, chip
  <2>2. CASE Top(c) # 0
    <3>1. entries[Top(c)] \in Entry
      BY <2>2, TopIsEntry DEF TypeOK
    <3>2. RestoreEntryEffect(entries[Top(c)], saved)
      BY <1>3, <2>2 DEF RestoreOne
    <3> QED BY <1>3, <3>1, <3>2, RestoreEntryEffectTypes DEF RestoreOne, TypeOK
  <2> QED BY <2>1, <2>2
<1>4. ASSUME NEW r \in Caller, RestoreCall(r)
      PROVE  TypeOK'
  <2>1. DOMAIN entries \subseteq Nat
    BY LenProperties DEF TypeOK
  <2>2. ASSUME NEW i \in DOMAIN entries
        PROVE  entries[i].path \in Channel
    <3>1. entries[i] \in Entry
      BY LenProperties, ElementOfSeq DEF TypeOK
    <3> QED BY <3>1 DEF Entry
  <2>3. call' \in [Caller -> Call]
    <3>1. CASE entries = << >>
      BY <1>4, <3>1, EmptySeq DEF RestoreCall, TypeOK, Call, NoCall
    <3>2. CASE entries # << >>
      <4> DEFINE new == [open |-> "waiting", snap |-> entries,
                         left |-> DOMAIN entries,
                         incomplete |-> {entries[i].path : i \in DOMAIN entries},
                         abandoned |-> {}]
      <4>1. new \in Call
        BY <2>1, <2>2 DEF Call, TypeOK
      <4>2. call' = [call EXCEPT ![r] = new]
        BY <1>4, <3>2 DEF RestoreCall
      <4> HIDE DEF new
      <4> QED BY <4>1, <4>2 DEF TypeOK
    <3> QED BY <3>1, <3>2
  <2>4. \A q \in Caller : call'[q].left \subseteq DOMAIN call'[q].snap
    BY <1>4 DEF RestoreCall, TypeOK, NoCall
  <2> QED BY <1>4, <2>3, <2>4 DEF RestoreCall, TypeOK, chip
<1>5. ASSUME NEW r \in Caller, NEW i \in call[r].left, Finish(r, i)
      PROVE  /\ call' \in [Caller -> Call]
             /\ \A q \in Caller : call'[q].left \subseteq DOMAIN call'[q].snap
  <2> DEFINE new == [call[r] EXCEPT !.left = @ \ {i},
                         !.incomplete = @ \ {call[r].snap[i].path}]
  <2>1. call' \in [Caller -> Call]
    <3>1. call' = [call EXCEPT ![r] = new]
      BY <1>5 DEF Finish, TypeOK
    <3>2. call[r] \in Call
      BY DEF TypeOK
    <3>3. new \in Call
      BY <3>2 DEF Call
    <3> HIDE DEF new
    <3> QED BY <3>1, <3>3 DEF TypeOK
  <2>2. \A q \in Caller : call'[q].left \subseteq DOMAIN call'[q].snap
    BY <1>5 DEF Finish, TypeOK, Call
  <2> QED BY <2>1, <2>2
<1>6. ASSUME NEW r \in Caller, NEW saved \in BOOLEAN, NEW i \in call[r].left,
             RestoreEntry(r, i, saved)
      PROVE  TypeOK'
  <2>1. call[r].snap[i] \in Entry
    BY LenProperties, ElementOfSeq DEF TypeOK, Call
  <2>2. RestoreEntryEffect(call[r].snap[i], saved) /\ Finish(r, i)
    BY <1>6 DEF RestoreEntry
  <2> QED BY <1>5, <1>6, <2>1, <2>2, RestoreEntryEffectTypes
          DEF RestoreEntry, TypeOK
<1>7. ASSUME NEW r \in Caller, NEW i \in call[r].left, RestoreSkip(r, i)
      PROVE  TypeOK'
  BY <1>5, <1>7 DEF RestoreSkip, TypeOK, chip
<1>8. ASSUME NEW r \in Caller, RestoreDone(r) \/ RestoreDeadline(r)
      PROVE  TypeOK'
  <2> DEFINE new(named) == [call[r] EXCEPT !.open = "returned",
                                            !.abandoned = named]
  <2>1. PICK named \in SUBSET Channel : call' = [call EXCEPT ![r] = new(named)]
    <3>1. call[r] \in Call
      BY DEF TypeOK
    <3>2. CASE RestoreDone(r)
      <4>1. call' = [call EXCEPT ![r] = [call[r] EXCEPT !.open = "returned"]]
        BY <3>2 DEF RestoreDone
      <4>2. [call[r] EXCEPT !.open = "returned"] = new(call[r].abandoned)
        BY <3>1 DEF Call
      <4>3. call[r].abandoned \in SUBSET Channel
        BY <3>1 DEF Call
      <4> QED BY <4>1, <4>2, <4>3
    <3>3. CASE RestoreDeadline(r)
      <4>1. call' = [call EXCEPT ![r] = new(call[r].incomplete)]
        BY <3>3 DEF RestoreDeadline, TypeOK
      <4>2. call[r].incomplete \in SUBSET Channel
        BY <3>1 DEF Call
      <4> QED BY <4>1, <4>2
    <3> QED BY <1>8, <3>2, <3>3
  <2>2. call[r] \in Call /\ call[r].left \subseteq DOMAIN call[r].snap
    BY DEF TypeOK
  <2>3. /\ new(named) \in Call
        /\ new(named).left = call[r].left /\ new(named).snap = call[r].snap
    BY <2>2 DEF Call
  <2> HIDE DEF new
  <2>4. call' \in [Caller -> Call]
    BY <2>1, <2>3 DEF TypeOK
  <2>5. \A q \in Caller : call'[q].left \subseteq DOMAIN call'[q].snap
    BY <2>1, <2>2, <2>3 DEF TypeOK
  <2> QED BY <1>8, <2>4, <2>5 DEF RestoreDone, RestoreDeadline, TypeOK, chip
<1>9. ASSUME NEW c \in Channel, TakeManual(c)
      PROVE  TypeOK'
  BY <1>9, ModeAssumption DEF TakeManual, TypeOK, Manual, Duty
<1>15. ASSUME NEW c \in Channel, WriteDuty(c)
       PROVE  TypeOK'
  BY <1>15 DEF WriteDuty, TypeOK, Duty
<1>10. ASSUME NEW c \in Channel, NEW m \in FirmwareMode, FirmwareReasserts(c, m)
       PROVE  TypeOK'
  BY <1>10, FirmwareAssumption DEF FirmwareReasserts, TypeOK, Duty
<1>11. ASSUME NEW c \in Faulty, NEW o \in IoOutcome, IoChanges(c, o)
       PROVE  TypeOK'
  BY <1>11 DEF IoChanges, TypeOK
<1>12. ASSUME NEW c \in Channel, RecoverChannel(c)
       PROVE  TypeOK'
  <2>1. HandBack(c, enable[c], io[c]) \in Mode
    BY HandBackNeverManual DEF TypeOK
  <2> QED BY <1>12, <2>1 DEF RecoverChannel, TypeOK
<1>13. CASE ProcessDies
  <2>1. NoCall \in Call /\ NoCall.left \subseteq DOMAIN NoCall.snap
    BY EmptySeq DEF NoCall, Call
  <2> QED BY <1>13, <2>1, EmptySeq DEF ProcessDies, TypeOK, chip
<1>14. CASE UNCHANGED vars
  BY <1>14 DEF vars, TypeOK
<1> QED BY <1>1, <1>2, <1>3, <1>4, <1>6, <1>7, <1>8, <1>9, <1>10, <1>11,
           <1>12, <1>13, <1>14, <1>15 DEF Next

\* The registry, the store, the chips and every restore under way keep the
\* shape the code gives them, in every reachable state.
THEOREM TypeCorrect == Spec => []TypeOK
BY TypeInit, TypeStep, PTL DEF Spec

-----------------------------------------------------------------------------
(* What one step does to the baselines, the store and the history.         *)

\* The entry Register pushes for c.
Captured(c, readOk) ==
    LET got == Capture(LiveEnable(c, readOk), store[KeyOf(c)])
    IN  [path |-> c, orig |-> got.orig, fallback |-> got.fallback]

\* A baseline is in the registry or in a snapshot; a step adds at most the one
\* that Register captures.
LEMMA BaselineOrigin ==
    ASSUME TypeOK, [Next]_vars, NEW e \in Baselines'
    PROVE  \/ e \in Baselines
           \/ \E c \in Channel, readOk \in BOOLEAN : e = Captured(c, readOk)
<1>1. ASSUME NEW c \in Channel, NEW readOk \in BOOLEAN, NEW saved \in BOOLEAN,
             Register(c, readOk, saved)
      PROVE  e \in Baselines \/ e = Captured(c, readOk)
  <2> DEFINE new == Captured(c, readOk)
  <2>1. entries' = Append(entries, new) /\ call' = call
    BY <1>1 DEF Register, Captured
  <2>2. new \in Entry
    BY RegisterCaptures, CaptureNeverManual DEF Captured, Entry
  <2> HIDE DEF new
  <2>3. Range(entries') \subseteq Range(entries) \cup {new}
    BY <2>1, <2>2, AppendRange DEF TypeOK
  <2> QED BY <2>1, <2>3 DEF Baselines, new
<1>2. ASSUME Range(entries') \subseteq Range(entries),
             \A q \in Caller : \/ call'[q].snap = call[q].snap
                               \/ call'[q].snap = entries
                               \/ call'[q].snap = << >>
      PROVE  e \in Baselines
  <2>1. Range(<< >>) = {}
    BY DEF Range
  <2> QED BY <1>2, <2>1 DEF Baselines
<1>3. ASSUME NEW c \in Channel, Deregister(c)
      PROVE  e \in Baselines
  <2>1. Range(entries') \subseteq Range(entries)
    BY <1>3, TopIsEntry, RemoveAtKeeps DEF Deregister, TypeOK
  <2> QED BY <1>2, <1>3, <2>1 DEF Deregister
<1>4. ASSUME NEW r \in Caller, RestoreCall(r)
      PROVE  e \in Baselines
  BY <1>2, <1>4 DEF RestoreCall, TypeOK, NoCall
<1>5. ASSUME NEW r \in Caller, NEW i, Finish(r, i)
      PROVE  \A q \in Caller : call'[q].snap = call[q].snap
  BY <1>5 DEF Finish, TypeOK, Call
<1>6. ASSUME NEW r \in Caller, NEW saved \in BOOLEAN, NEW i \in call[r].left,
             RestoreEntry(r, i, saved) \/ RestoreSkip(r, i)
      PROVE  e \in Baselines
  BY <1>2, <1>5, <1>6 DEF RestoreEntry, RestoreSkip
<1>7. ASSUME NEW r \in Caller, RestoreDone(r) \/ RestoreDeadline(r)
      PROVE  e \in Baselines
  <2>1. \A q \in Caller : call'[q].snap = call[q].snap
    <3>1. CASE RestoreDone(r)
      BY <3>1 DEF RestoreDone, TypeOK, Call
    <3>2. CASE RestoreDeadline(r)
      BY <3>2 DEF RestoreDeadline, TypeOK, Call
    <3> QED BY <1>7, <3>1, <3>2
  <2> QED BY <1>2, <1>7, <2>1 DEF RestoreDone, RestoreDeadline
<1>8. CASE ProcessDies
  BY <1>2, <1>8 DEF ProcessDies, NoCall, Range
<1>9. CASE UNCHANGED registry
  BY <1>2, <1>9 DEF registry
<1> QED BY <1>1, <1>3, <1>4, <1>6, <1>7, <1>8, <1>9
        DEF Next, RestoreOne, TakeManual, WriteDuty, FirmwareReasserts, IoChanges,
            RecoverChannel, vars, registry

\* A restored entry changes the store only at its channel's key, to the value
\* it has just left in the register, and never to manual mode.
LEMMA RestoreEntryEffectStores ==
    ASSUME TypeOK, NEW e \in Entry, NEW saved \in BOOLEAN,
           RestoreEntryEffect(e, saved), NEW k \in Key
    PROVE  /\ \/ store'[k] = store[k]
              \/ /\ k = KeyOf(e.path)
                 /\ store'[k] = enable'[e.path]
                 /\ store'[k] # Manual
           /\ \A d \in Channel : seen[d] \subseteq seen'[d]
           /\ \A d \in Channel :
                 enable'[d] = enable[d] \/ enable'[d] \in seen'[d]
<1> DEFINE c == e.path
           out == RestoreEffect(c, e, enable[c], duty[c], io[c])
<1>1. c \in Channel /\ e.orig \in Mode \cup {Unknown}
  BY DEF Entry
<1>2. enable[c] \in Mode /\ duty[c] \in Duty /\ io[c] \in IoOutcome
  BY <1>1 DEF TypeOK
<1>3. /\ out.persist # Manual
      /\ out.persist # Unknown => out.persist = out.enable
  BY <1>1, <1>2, RestoreEffectLegal
<1> HIDE DEF out
<1>4. /\ enable' = [enable EXCEPT ![c] = out.enable]
      /\ seen' = [seen EXCEPT ![c] = @ \cup {out.enable}]
      /\ Save(KeyOf(c), out.persist, saved)
  BY DEF RestoreEntryEffect, out
<1> QED BY <1>1, <1>3, <1>4 DEF Save, TypeOK, Key

\* A step changes the store only at the key of one channel, to a value that is
\* in that channel's register before or after it, and never to manual mode.
\* The history only grows, and covers the register.
LEMMA StoreOrigin ==
    ASSUME TypeOK, [Next]_vars, NEW k \in Key
    PROVE  /\ \/ store'[k] = store[k]
              \/ /\ store'[k] # Manual
                 /\ \E c \in Channel : /\ k = KeyOf(c)
                                       /\ store'[k] \in {enable[c], enable'[c]}
           /\ \A d \in Channel : seen[d] \subseteq seen'[d]
           /\ \A d \in Channel :
                 enable'[d] = enable[d] \/ enable'[d] \in seen'[d]
<1>1. ASSUME NEW c \in Channel, NEW readOk \in BOOLEAN, NEW saved \in BOOLEAN,
             Register(c, readOk, saved)
      PROVE  /\ \/ store'[k] = store[k]
                \/ /\ store'[k] # Manual
                   /\ k = KeyOf(c)
                   /\ store'[k] = enable[c]
             /\ seen' = seen /\ enable' = enable
  <2> DEFINE got == Capture(LiveEnable(c, readOk), store[KeyOf(c)])
  <2>1. /\ got.persist # Manual
        /\ got.persist # Unknown => got.persist = enable[c]
    BY RegisterCaptures, CaptureNeverManual
  <2> HIDE DEF got
  <2>2. Save(KeyOf(c), got.persist, saved)
    BY <1>1 DEF Register, got
  <2> QED BY <1>1, <2>1, <2>2 DEF Save, TypeOK, Register, chip, Key
<1>2. ASSUME NEW c \in Channel, NEW saved \in BOOLEAN, RestoreOne(c, saved),
             Top(c) # 0
      PROVE  /\ \/ store'[k] = store[k]
                \/ /\ store'[k] # Manual
                   /\ \E d \in Channel : k = KeyOf(d) /\ store'[k] = enable'[d]
             /\ \A d \in Channel : seen[d] \subseteq seen'[d]
             /\ \A d \in Channel :
                   enable'[d] = enable[d] \/ enable'[d] \in seen'[d]
  <2>1. entries[Top(c)] \in Entry /\ entries[Top(c)].path \in Channel
    BY <1>2, TopIsEntry DEF TypeOK
  <2>2. RestoreEntryEffect(entries[Top(c)], saved)
    BY <1>2 DEF RestoreOne
  <2> QED BY <2>1, <2>2, RestoreEntryEffectStores
<1>3. ASSUME NEW r \in Caller, NEW saved \in BOOLEAN, NEW i \in call[r].left,
             RestoreEntry(r, i, saved)
      PROVE  /\ \/ store'[k] = store[k]
                \/ /\ store'[k] # Manual
                   /\ \E d \in Channel : k = KeyOf(d) /\ store'[k] = enable'[d]
             /\ \A d \in Channel : seen[d] \subseteq seen'[d]
             /\ \A d \in Channel :
                   enable'[d] = enable[d] \/ enable'[d] \in seen'[d]
  <2>1. call[r].snap[i] \in Entry
    BY LenProperties, ElementOfSeq DEF TypeOK, Call
  <2>2. call[r].snap[i].path \in Channel
    BY <2>1 DEF Entry
  <2>3. RestoreEntryEffect(call[r].snap[i], saved)
    BY <1>3 DEF RestoreEntry
  <2> QED BY <2>1, <2>2, <2>3, RestoreEntryEffectStores
<1>4. ASSUME NEW c \in Channel, TakeManual(c)
      PROVE  /\ store' = store
             /\ \A d \in Channel : seen[d] \subseteq seen'[d]
             /\ \A d \in Channel :
                   enable'[d] = enable[d] \/ enable'[d] \in seen'[d]
  BY <1>4 DEF TakeManual, TypeOK
<1>5. ASSUME NEW c \in Channel, NEW m \in FirmwareMode, FirmwareReasserts(c, m)
      PROVE  /\ store' = store
             /\ \A d \in Channel : seen[d] \subseteq seen'[d]
             /\ \A d \in Channel :
                   enable'[d] = enable[d] \/ enable'[d] \in seen'[d]
  BY <1>5 DEF FirmwareReasserts, TypeOK
<1>6. ASSUME NEW c \in Channel, RecoverChannel(c)
      PROVE  /\ store' = store
             /\ \A d \in Channel : seen[d] \subseteq seen'[d]
             /\ \A d \in Channel :
                   enable'[d] = enable[d] \/ enable'[d] \in seen'[d]
  BY <1>6 DEF RecoverChannel, TypeOK
<1>7. CASE store' = store /\ seen' = seen /\ enable' = enable
  BY <1>7
<1>8. ASSUME NEW c \in Channel, NEW saved \in BOOLEAN, RestoreOne(c, saved),
             Top(c) = 0
      PROVE  store' = store /\ seen' = seen /\ enable' = enable
  BY <1>8 DEF RestoreOne, chip
<1> QED BY <1>1, <1>2, <1>3, <1>4, <1>5, <1>6, <1>7, <1>8
        DEF Next, Deregister, RestoreCall, RestoreSkip, RestoreDone,
            RestoreDeadline, WriteDuty, IoChanges, ProcessDies, vars, chip

-----------------------------------------------------------------------------
(* The baselines.                                                          *)

\* No registry entry, no snapshot of a restore under way and no stored value
\* is ever manual mode, whatever the order of registrations, restores,
\* deregistrations, failed reads and saves, crashes and recoveries: an exit
\* path never restores a fan to the mode that pins it at a dead daemon's duty.
THEOREM BaselinesNeverManual == Spec => []NoManualBaseline
<1>1. Init => NoManualBaseline
  BY ModeAssumption DEF Init, NoManualBaseline, Baselines, Range, NoCall,
                        Manual, Unknown
<1>2. TypeOK /\ NoManualBaseline /\ [Next]_vars => NoManualBaseline'
  <2> SUFFICES ASSUME TypeOK, NoManualBaseline, [Next]_vars
               PROVE  NoManualBaseline'
    OBVIOUS
  <2>1. ASSUME NEW e \in Baselines' PROVE e.orig # Manual
    <3>1. ASSUME NEW c \in Channel, NEW readOk \in BOOLEAN,
                 e = Captured(c, readOk)
          PROVE  e.orig # Manual
      BY <3>1, RegisterCaptures, CaptureNeverManual DEF Captured
    <3> QED BY <3>1, BaselineOrigin DEF NoManualBaseline
  <2>2. ASSUME NEW k \in Key PROVE store'[k] # Manual
    BY StoreOrigin DEF NoManualBaseline
  <2> QED BY <2>1, <2>2 DEF NoManualBaseline
<1> QED BY <1>1, <1>2, TypeCorrect, PTL DEF Spec

\* OwnBaseline is not inductive by itself: the value Register reads must be in
\* the channel's history already.
HistoryCovers == \A c \in Channel : enable[c] \in seen[c]

OwnBaselineInv == OwnBaseline /\ HistoryCovers

\* Provided no two channels share a store key, an authoritative baseline is a
\* mode its own chip has reported or taken: no sequence of registrations,
\* saves and crashes restores one fan to another fan's mode.
THEOREM BaselineIsOwn ==
    ASSUME \A c, d \in Channel : KeyOf(c) = KeyOf(d) => c = d
    PROVE  Spec => []OwnBaseline
<1>1. Init => OwnBaselineInv
  BY DEF Init, OwnBaselineInv, OwnBaseline, HistoryCovers, Baselines, Range,
         NoCall, Key
<1>2. TypeOK /\ OwnBaselineInv /\ [Next]_vars => OwnBaselineInv'
  <2> SUFFICES ASSUME TypeOK, OwnBaselineInv, [Next]_vars
               PROVE  OwnBaselineInv'
    OBVIOUS
  <2>1. \A d \in Channel : seen[d] \subseteq seen'[d]
    <3>1. ASSUME NEW d \in Channel PROVE seen[d] \subseteq seen'[d]
      <4>1. KeyOf(d) \in Key
        BY DEF Key
      <4> QED BY <4>1, StoreOrigin
    <3> QED BY <3>1
  <2>2. HistoryCovers'
    <3>1. ASSUME NEW d \in Channel PROVE enable'[d] \in seen'[d]
      <4>1. KeyOf(d) \in Key
        BY DEF Key
      <4> QED BY <2>1, <4>1, StoreOrigin DEF OwnBaselineInv, HistoryCovers
    <3> QED BY <3>1 DEF HistoryCovers
  <2>3. ASSUME NEW c \in Channel
        PROVE  store'[KeyOf(c)] \in seen'[c] \cup {Unknown}
    <3>1. KeyOf(c) \in Key
      BY DEF Key
    <3>2. CASE store'[KeyOf(c)] = store[KeyOf(c)]
      BY <2>1, <3>2 DEF OwnBaselineInv, OwnBaseline
    <3>3. CASE store'[KeyOf(c)] # store[KeyOf(c)]
      <4>1. PICK d \in Channel : /\ KeyOf(c) = KeyOf(d)
                                 /\ store'[KeyOf(c)] \in {enable[d], enable'[d]}
        BY <3>1, <3>3, StoreOrigin
      <4>2. store'[KeyOf(c)] \in {enable[c], enable'[c]}
        BY <4>1
      <4> QED BY <2>1, <2>2, <4>2 DEF OwnBaselineInv, HistoryCovers
    <3> QED BY <3>2, <3>3
  <2>4. ASSUME NEW e \in Baselines'
        PROVE  e.fallback \/ e.orig = Unknown \/ e.orig \in seen'[e.path]
    <3>1. CASE e \in Baselines
      <4>1. e.path \in Channel
        <5>1. Range(entries) \subseteq Entry
          BY LenProperties, ElementOfSeq DEF TypeOK, Range
        <5>2. \A r \in Caller : Range(call[r].snap) \subseteq Entry
          BY LenProperties, ElementOfSeq DEF TypeOK, Call, Range
        <5> QED BY <3>1, <5>1, <5>2 DEF Baselines, Entry
      <4> QED BY <2>1, <3>1, <4>1 DEF OwnBaselineInv, OwnBaseline
    <3>2. ASSUME NEW c \in Channel, NEW readOk \in BOOLEAN,
                 e = Captured(c, readOk)
          PROVE  e.fallback \/ e.orig = Unknown \/ e.orig \in seen'[e.path]
      <4>1. /\ e.path = c
            /\ \/ e.fallback
               \/ e.orig \in {Unknown, enable[c], store[KeyOf(c)]}
        BY <3>2, RegisterCaptures, CaptureNeverManual DEF Captured
      <4> QED BY <2>1, <4>1 DEF OwnBaselineInv, OwnBaseline, HistoryCovers
    <3> QED BY <3>1, <3>2, BaselineOrigin
  <2> QED BY <2>2, <2>3, <2>4 DEF OwnBaselineInv, OwnBaseline
<1>3. OwnBaselineInv => OwnBaseline
  BY DEF OwnBaselineInv
<1> QED BY <1>1, <1>2, <1>3, TypeCorrect, PTL DEF Spec

-----------------------------------------------------------------------------
(* The restore.                                                            *)

\* A channel without a register to read has no baseline: Register captures
\* Unknown for it, and Restore then drives it to full speed.
Unreadable(e) == e.path \notin EnablePath => e.orig = Unknown

LEMMA BaselinesReadable == Spec => [](\A e \in Baselines : Unreadable(e))
<1>1. Init => \A e \in Baselines : Unreadable(e)
  BY DEF Init, Baselines, Range, NoCall
<1>2. TypeOK /\ (\A e \in Baselines : Unreadable(e)) /\ [Next]_vars
        => (\A e \in Baselines : Unreadable(e))'
  <2> SUFFICES ASSUME TypeOK, \A e \in Baselines : Unreadable(e), [Next]_vars,
                      NEW e \in Baselines'
               PROVE  Unreadable(e)
    OBVIOUS
  <2>1. ASSUME NEW c \in Channel, NEW readOk \in BOOLEAN,
               e = Captured(c, readOk)
        PROVE  Unreadable(e)
    BY <2>1 DEF Captured, Unreadable, Capture, LiveEnable
  <2> QED BY <2>1, BaselineOrigin
<1> QED BY <1>1, <1>2, TypeCorrect, PTL DEF Spec

\* Which step finishes a goroutine of a call that is still within its budget.
LEMMA FinishedByRestore ==
    ASSUME TypeOK, [Next]_vars, NEW r \in Caller,
           call[r].open = "waiting", call'[r].open = "waiting",
           NEW i \in call[r].left, i \notin call'[r].left
    PROVE  \E saved \in BOOLEAN : RestoreEntryEffect(call[r].snap[i], saved)
<1>1. ASSUME NEW q \in Caller, NEW j, Finish(q, j)
      PROVE  q = r /\ j = i
  BY <1>1 DEF Finish, TypeOK, Call
<1>2. ASSUME NEW q \in Caller, NEW saved \in BOOLEAN, NEW j \in call[q].left,
             RestoreEntry(q, j, saved)
      PROVE  RestoreEntryEffect(call[r].snap[i], saved)
  BY <1>1, <1>2 DEF RestoreEntry
<1>3. ASSUME NEW q \in Caller, NEW j \in call[q].left, RestoreSkip(q, j)
      PROVE  FALSE
  BY <1>1, <1>3 DEF RestoreSkip
<1>4. ASSUME NEW q \in Caller, RestoreCall(q)
      PROVE  FALSE
  BY <1>4 DEF RestoreCall, TypeOK
<1>5. ASSUME NEW q \in Caller, RestoreDone(q)
      PROVE  FALSE
  BY <1>5 DEF RestoreDone, TypeOK, Call
<1>6. ASSUME NEW q \in Caller, RestoreDeadline(q)
      PROVE  FALSE
  BY <1>6 DEF RestoreDeadline, TypeOK, Call
<1>7. CASE ProcessDies
  BY <1>7 DEF ProcessDies, NoCall
<1>8. CASE call' = call
  BY <1>8
<1> QED BY <1>2, <1>3, <1>4, <1>5, <1>6, <1>7, <1>8
        DEF Next, Register, Deregister, RestoreOne, TakeManual, WriteDuty,
            FirmwareReasserts, IoChanges, RecoverChannel, vars

\* Within its budget, the restore of one entry leaves the fan in a mode of its
\* own or at full speed, whichever of its writes failed, unless nothing could
\* be written or the chip takes no value the baseline allows.
THEOREM RestoreAlwaysHandsBack == Spec => RestoreHandsBack
<1> DEFINE Step ==
      \A r \in Caller :
         call[r].open = "waiting" /\ call'[r].open = "waiting" =>
           \A i \in call[r].left \ call'[r].left :
              RestoredIn(call[r].snap[i], io[call[r].snap[i].path])
<1>1. /\ TypeOK /\ NoManualBaseline
      /\ \A e \in Baselines : Unreadable(e)
      /\ [Next]_vars
      => Step
  <2> SUFFICES ASSUME TypeOK, NoManualBaseline,
                      \A e \in Baselines : Unreadable(e), [Next]_vars,
                      NEW r \in Caller,
                      call[r].open = "waiting", call'[r].open = "waiting",
                      NEW i \in call[r].left, i \notin call'[r].left
               PROVE  RestoredIn(call[r].snap[i], io[call[r].snap[i].path])
    OBVIOUS
  <2> DEFINE e == call[r].snap[i]
             c == e.path
             out == RestoreEffect(c, e, enable[c], duty[c], io[c])
  <2>1. e \in Entry /\ e \in Baselines
    BY LenProperties, ElementOfSeq DEF TypeOK, Call, Baselines, Range
  <2> HIDE DEF e
  <2>2. c \in Channel /\ e.orig \in Mode \cup {Unknown} /\ e.orig # Manual
    BY <2>1 DEF Entry, NoManualBaseline
  <2>3. enable[c] \in Mode /\ duty[c] \in Duty /\ io[c] \in IoOutcome
    BY <2>2 DEF TypeOK
  <2>4. enable'[c] = out.enable /\ duty'[c] = out.duty
    <3>1. PICK saved \in BOOLEAN : RestoreEntryEffect(e, saved)
      BY FinishedByRestore DEF e
    <3> QED BY <2>2, <3>1 DEF RestoreEntryEffect, TypeOK
  <2>5. c \in EnablePath \/ e.orig = Unknown
    BY <2>1 DEF Unreadable
  <2>6. ~Unrestorable(c, e) /\ io[c] # "all_fail" /\ (c \in Vendor => io[c] = "ok")
          => ~Held(c, out.enable, out.duty)
    BY <2>2, <2>3, <2>5, RestoreEffectHandsBack
  <2> HIDE DEF c, out
  <2>7. \/ ~Held(c, enable'[c], duty'[c])
        \/ Unrestorable(c, e)
        \/ io[c] = "all_fail"
        \/ io[c] = "enable_fails" /\ c \in Vendor
    BY <2>3, <2>4, <2>6 DEF IoOutcome
  <2> QED BY <2>7 DEF RestoredIn, c, e
<1>2. /\ TypeOK /\ NoManualBaseline
      /\ \A e \in Baselines : Unreadable(e)
      /\ [Next]_vars
      => [Step]_vars
  BY <1>1
<1>3. Spec => [][Step]_vars
  BY <1>2, TypeCorrect, BaselinesNeverManual, BaselinesReadable, PTL DEF Spec
<1> QED BY <1>3 DEF RestoreHandsBack

\* The map RestoreCtx reports from follows the goroutines of its call, as long
\* as no path was registered twice when the call began.
NamesOf(r) ==
    /\ call[r].abandoned = {}
    /\ NoDuplicates(r) => call[r].incomplete = StillInFlight(r)

NamesFollow == \A r \in Caller : call[r].open = "waiting" => NamesOf(r)

LEMMA NamesFollowGoroutines == Spec => []NamesFollow
<1>1. Init => NamesFollow
  BY DEF Init, NamesFollow, NoCall
<1>2. TypeOK /\ NamesFollow /\ [Next]_vars => NamesFollow'
  <2> SUFFICES ASSUME TypeOK, NamesFollow, [Next]_vars, NEW r \in Caller,
                      call'[r].open = "waiting"
               PROVE  NamesOf(r)'
    BY DEF NamesFollow
  <2>1. ASSUME NEW q \in Caller, NEW i \in call[q].left, Finish(q, i)
        PROVE  NamesOf(r)'
    <3>1. CASE q # r
      <4>1. call'[r] = call[r]
        BY <2>1, <3>1 DEF Finish, TypeOK
      <4> QED BY <4>1 DEF NamesFollow, NamesOf, StillInFlight, NoDuplicates
    <3>2. CASE q = r
      <4>1. /\ call'[r].open = call[r].open
            /\ call'[r].snap = call[r].snap
            /\ call'[r].left = call[r].left \ {i}
            /\ call'[r].abandoned = call[r].abandoned
            /\ call'[r].incomplete = call[r].incomplete \ {call[r].snap[i].path}
        BY <2>1, <3>2 DEF Finish, TypeOK, Call
      <4>2. NamesOf(r)
        BY <4>1 DEF NamesFollow
      <4>3. call[r].left \subseteq DOMAIN call[r].snap
        BY DEF TypeOK
      <4>4. NoDuplicates(r) =>
              \A j \in call[r].left :
                 call[r].snap[j].path = call[r].snap[i].path => j = i
        BY <2>1, <3>2, <4>3 DEF NoDuplicates
      <4>5. NoDuplicates(r)' => NoDuplicates(r)
        BY <4>1 DEF NoDuplicates
      <4>6. NoDuplicates(r) =>
              call'[r].incomplete = {call[r].snap[j].path : j \in call[r].left \ {i}}
        BY <4>1, <4>2, <4>4 DEF NamesOf, StillInFlight
      <4>7. StillInFlight(r)' = {call[r].snap[j].path : j \in call[r].left \ {i}}
        BY <4>1 DEF StillInFlight
      <4>8. call'[r].abandoned = {}
        BY <4>1, <4>2 DEF NamesOf
      <4>9. NoDuplicates(r)' => call'[r].incomplete = StillInFlight(r)'
        BY <4>5, <4>6, <4>7
      <4> QED BY <4>8, <4>9 DEF NamesOf
    <3> QED BY <3>1, <3>2
  <2>2. ASSUME NEW q \in Caller, RestoreCall(q)
        PROVE  NamesOf(r)'
    <3>1. CASE q # r
      BY <2>2, <3>1 DEF RestoreCall, TypeOK, NamesFollow, NamesOf,
                        StillInFlight, NoDuplicates
    <3>2. CASE q = r
      BY <2>2, <3>2 DEF RestoreCall, TypeOK, NamesOf, StillInFlight, NoCall
    <3> QED BY <3>1, <3>2
  <2>3. ASSUME NEW q \in Caller, RestoreDone(q) \/ RestoreDeadline(q)
        PROVE  call'[r] = call[r]
    <3>1. CASE q # r
      BY <2>3, <3>1 DEF RestoreDone, RestoreDeadline, TypeOK
    <3>2. CASE q = r
      <4>1. call'[r].open = "returned"
        <5>1. CASE RestoreDone(q)
          BY <3>2, <5>1 DEF RestoreDone, TypeOK, Call
        <5>2. CASE RestoreDeadline(q)
          BY <3>2, <5>2 DEF RestoreDeadline, TypeOK, Call
        <5> QED BY <2>3, <5>1, <5>2
      <4> QED BY <4>1
    <3> QED BY <3>1, <3>2
  <2>4. ASSUME call'[r] = call[r]
        PROVE  NamesOf(r)'
    BY <2>4 DEF NamesFollow, NamesOf, StillInFlight, NoDuplicates
  <2>5. CASE ProcessDies
    BY <2>5 DEF ProcessDies, NoCall
  <2>6. CASE call' = call
    BY <2>4, <2>6
  <2> QED BY <2>1, <2>2, <2>3, <2>4, <2>5, <2>6
          DEF Next, Register, Deregister, RestoreOne, RestoreEntry, RestoreSkip,
              TakeManual, WriteDuty, FirmwareReasserts, IoChanges, RecoverChannel, vars
<1> QED BY <1>1, <1>2, TypeCorrect, PTL DEF Spec

\* When the budget of a restore runs out, the channels it reports as abandoned
\* are exactly those whose goroutines are still in flight, as long as no path
\* was registered twice.
THEOREM AbandonedChannelsAreNamed == Spec => AbandonedAreNamed
<1> DEFINE Step ==
      \A r \in Caller :
         call[r].open = "waiting" /\ call'[r].open = "returned" /\ NoDuplicates(r)
           => call'[r].abandoned = StillInFlight(r)
<1>1. TypeOK /\ NamesFollow /\ [Next]_vars => [Step]_vars
  <2> SUFFICES ASSUME TypeOK, NamesFollow, [Next]_vars, NEW r \in Caller,
                      call[r].open = "waiting", call'[r].open = "returned",
                      NoDuplicates(r)
               PROVE  call'[r].abandoned = StillInFlight(r)
    OBVIOUS
  <2>1. call[r].abandoned = {} /\ call[r].incomplete = StillInFlight(r)
    BY DEF NamesFollow, NamesOf
  <2>2. ASSUME NEW q \in Caller, q # r, call'[r] = call[r]
        PROVE  FALSE
    BY <2>2
  <2>3. CASE RestoreDone(r)
    <3>1. call'[r].abandoned = call[r].abandoned /\ call[r].left = {}
      BY <2>3 DEF RestoreDone, TypeOK, Call
    <3> QED BY <2>1, <3>1 DEF StillInFlight
  <2>4. CASE RestoreDeadline(r)
    <3>1. call'[r].abandoned = call[r].incomplete
      BY <2>4 DEF RestoreDeadline, TypeOK, Call
    <3> QED BY <2>1, <3>1
  <2>5. ASSUME NEW q \in Caller, q # r, RestoreDone(q) \/ RestoreDeadline(q)
        PROVE  FALSE
    BY <2>2, <2>5 DEF RestoreDone, RestoreDeadline, TypeOK
  <2>6. ASSUME NEW q \in Caller, NEW i, Finish(q, i)
        PROVE  FALSE
    <3>1. call'[r].open = call[r].open
      BY <2>6 DEF Finish, TypeOK, Call
    <3> QED BY <3>1
  <2>7. ASSUME NEW q \in Caller, RestoreCall(q)
        PROVE  FALSE
    BY <2>7 DEF RestoreCall, TypeOK
  <2>8. CASE ProcessDies
    BY <2>8 DEF ProcessDies, NoCall
  <2>9. CASE call' = call
    BY <2>9
  <2> QED BY <2>3, <2>4, <2>5, <2>6, <2>7, <2>8, <2>9
          DEF Next, Register, Deregister, RestoreOne, RestoreEntry, RestoreSkip,
              TakeManual, WriteDuty, FirmwareReasserts, IoChanges, RecoverChannel, vars
<1>2. Spec => [][Step]_vars
  BY <1>1, TypeCorrect, NamesFollowGoroutines, PTL DEF Spec
<1> QED BY <1>2 DEF AbandonedAreNamed

-----------------------------------------------------------------------------
(* Which baselines a chip takes.                                           *)

\* Channels that share a store key, which the code does not exclude, are of one
\* driver: the key names the chip and the index.
SameDriver ==
    \A c, d \in Channel :
        KeyOf(c) = KeyOf(d) => /\ c \in EnablePath => d \in EnablePath
                               /\ Accepts[c] = Accepts[d]

\* What the register of c can hold: a mode of the BIOS, one its driver took, or
\* manual mode.
MayHold(c) == Accepts[c] \cup FirmwareMode \cup {Manual}

\* What Restore may be asked to write to it: one of these, or the first value of
\* the walk.
Allowed(e) ==
    e.path \in EnablePath =>
        \/ e.orig \in MayHold(e.path) \cup {Unknown}
        \/ e.fallback /\ e.orig = 2

\* Registers, stored values and baselines are such modes.
ModesInv ==
    /\ \A c \in EnablePath : /\ enable[c] \in MayHold(c)
                             /\ store[KeyOf(c)] \in MayHold(c) \cup {Unknown}
    /\ \A e \in Baselines : Allowed(e)

\* A restored entry leaves a register at a mode it may hold.
LEMMA RestoreEntryEffectModes ==
    ASSUME TypeOK, NEW e \in Entry, NEW saved \in BOOLEAN,
           RestoreEntryEffect(e, saved), NEW c \in EnablePath
    PROVE  enable'[c] = enable[c] \/ enable'[c] \in MayHold(c)
<1> DEFINE out == RestoreEffect(e.path, e, enable[e.path], duty[e.path], io[e.path])
<1>1. e.path \in Channel /\ c \in Channel /\ c \notin Vendor
  BY ChannelAssumption DEF Entry
<1>2. enable' = [enable EXCEPT ![e.path] = out.enable]
  BY DEF RestoreEntryEffect
<1>3. CASE e.path # c
  <2> HIDE DEF out
  <2> QED BY <1>1, <1>2, <1>3 DEF TypeOK
<1>4. CASE e.path = c
  <2>1. out.enable = enable[c] \/ out.enable \in MayHold(c)
    <3>1. FirstAccepted(c, Tail(SafePreDaemonEnableSequence)) \in {Unknown} \cup Accepts[c]
      BY <1>1, WalkValues
    <3> QED BY <1>1, <1>4, <3>1 DEF RestoreEffect, RestoreHwmon, FullSpeed, Chip, MayHold
  <2> HIDE DEF out
  <2>2. enable'[c] = out.enable
    BY <1>1, <1>2, <1>4 DEF TypeOK
  <2> QED BY <2>1, <2>2
<1> QED BY <1>3, <1>4

\* Every step leaves a register at a mode it may hold.
LEMMA EnableOrigin ==
    ASSUME TypeOK, [Next]_vars, NEW c \in EnablePath
    PROVE  enable'[c] = enable[c] \/ enable'[c] \in MayHold(c)
<1>0. c \in Channel
  BY ChannelAssumption
<1>1. ASSUME NEW d \in Channel, NEW saved \in BOOLEAN, RestoreOne(d, saved)
      PROVE  enable'[c] = enable[c] \/ enable'[c] \in MayHold(c)
  <2>1. CASE Top(d) = 0
    BY <1>1, <2>1 DEF RestoreOne, chip
  <2>2. CASE Top(d) # 0
    <3>1. entries[Top(d)] \in Entry
      BY <2>2, TopIsEntry DEF TypeOK
    <3> QED BY <1>1, <2>2, <3>1, RestoreEntryEffectModes DEF RestoreOne
  <2> QED BY <2>1, <2>2
<1>2. ASSUME NEW r \in Caller, NEW saved \in BOOLEAN, NEW i \in call[r].left,
             RestoreEntry(r, i, saved)
      PROVE  enable'[c] = enable[c] \/ enable'[c] \in MayHold(c)
  <2>1. call[r].snap[i] \in Entry
    BY LenProperties, ElementOfSeq DEF TypeOK, Call
  <2> QED BY <1>2, <2>1, RestoreEntryEffectModes DEF RestoreEntry
<1>3. ASSUME NEW d \in Channel, TakeManual(d)
      PROVE  enable'[c] = enable[c] \/ enable'[c] \in MayHold(c)
  BY <1>0, <1>3 DEF TakeManual, TypeOK, MayHold
<1>4. ASSUME NEW d \in Channel, NEW m \in FirmwareMode, FirmwareReasserts(d, m)
      PROVE  enable'[c] = enable[c] \/ enable'[c] \in MayHold(c)
  BY <1>0, <1>4 DEF FirmwareReasserts, TypeOK, MayHold
<1>5. ASSUME NEW d \in Channel, RecoverChannel(d)
      PROVE  enable'[c] = enable[c] \/ enable'[c] \in MayHold(c)
  <2>1. HandBack(d, enable[d], io[d]) = enable[d] \/ HandBack(d, enable[d], io[d]) \in MayHold(d)
    BY WalkValues DEF HandBack, MayHold
  <2> QED BY <1>0, <1>5, <2>1 DEF RecoverChannel, TypeOK
<1>6. CASE enable' = enable
  BY <1>6
<1> QED BY <1>1, <1>2, <1>3, <1>4, <1>5, <1>6
        DEF Next, Register, Deregister, RestoreCall, RestoreSkip, RestoreDone,
            RestoreDeadline, WriteDuty, IoChanges, ProcessDies, vars, chip

\* With one driver per key, no baseline of a fan is a mode its driver refuses,
\* other than a mode the BIOS set.
LEMMA ModesAreKnown ==
    ASSUME SameDriver
    PROVE  Spec => []ModesInv
<1>1. Init => ModesInv
  BY ChannelAssumption DEF Init, ModesInv, MayHold, Baselines, Range, NoCall, Key
<1>2. TypeOK /\ ModesInv /\ [Next]_vars => ModesInv'
  <2> SUFFICES ASSUME TypeOK, ModesInv, [Next]_vars
               PROVE  ModesInv'
    OBVIOUS
  <2>1. ASSUME NEW c \in EnablePath PROVE enable'[c] \in MayHold(c)
    BY <2>1, EnableOrigin DEF ModesInv
  <2>2. ASSUME NEW c \in EnablePath
        PROVE  store'[KeyOf(c)] \in MayHold(c) \cup {Unknown}
    <3>1. KeyOf(c) \in Key /\ c \in Channel
      BY ChannelAssumption DEF Key
    <3>2. CASE store'[KeyOf(c)] = store[KeyOf(c)]
      BY <3>2 DEF ModesInv
    <3>3. CASE store'[KeyOf(c)] # store[KeyOf(c)]
      <4>1. PICK d \in Channel : /\ KeyOf(c) = KeyOf(d)
                                 /\ store'[KeyOf(c)] \in {enable[d], enable'[d]}
        BY <3>1, <3>3, StoreOrigin
      <4>2. d \in EnablePath /\ MayHold(d) = MayHold(c)
        BY <3>1, <4>1 DEF SameDriver, MayHold
      <4> QED BY <2>1, <4>1, <4>2 DEF ModesInv
    <3> QED BY <3>2, <3>3
  <2>3. ASSUME NEW e \in Baselines' PROVE Allowed(e)
    <3>1. ASSUME NEW c \in Channel, NEW readOk \in BOOLEAN,
                 e = Captured(c, readOk)
          PROVE  Allowed(e)
      <4> DEFINE live == LiveEnable(c, readOk)
                 stored == store[KeyOf(c)]
      <4>1. live \in {enable[c], Unknown}
        BY DEF LiveEnable
      <4> HIDE DEF live, stored
      <4>2. /\ e.path = c /\ e.orig = Capture(live, stored).orig
            /\ e.fallback = Capture(live, stored).fallback
        BY <3>1 DEF Captured, live, stored
      <4>3. \/ e.orig \in {Unknown, live, stored}
            \/ e.fallback /\ e.orig = 2
        BY <4>2, WalkTail DEF Capture
      <4>4. c \in EnablePath => /\ live \in MayHold(c) \cup {Unknown}
                                /\ stored \in MayHold(c) \cup {Unknown}
        BY <4>1 DEF ModesInv, stored
      <4> QED BY <4>2, <4>3, <4>4 DEF Allowed
    <3> QED BY <3>1, BaselineOrigin DEF ModesInv
  <2> QED BY <2>1, <2>2, <2>3 DEF ModesInv
<1> QED BY <1>1, <1>2, TypeCorrect, PTL DEF Spec

\* A walk that fails after its first value takes that value.
LEMMA WalkFromHead ==
    ASSUME NEW c \in Channel, FirstAccepted(c, SafePreDaemonEnableSequence) # Unknown,
           2 \notin Accepts[c]
    PROVE  FirstAccepted(c, Tail(SafePreDaemonEnableSequence)) # Unknown
<1>1. FirstAccepted(c, SafePreDaemonEnableSequence) \in {99, 0} \cap Accepts[c]
  BY WalkValues
<1> DEFINE seq == Tail(SafePreDaemonEnableSequence)
<1>5. seq = <<99, 0>>
  BY WalkTail
<1> HIDE DEF seq
<1>2. DOMAIN seq = 1..2 /\ seq[1] = 99 /\ seq[2] = 0 /\ 2 \in 1..3
  BY <1>5
<1>3. \/ /\ FirstAccepted(c, seq) = Unknown
         /\ \A i \in 1..2 : seq[i] \notin Accepts[c]
      \/ \E i \in 1..2 : FirstAccepted(c, seq) = seq[i]
  BY <1>2, FirstAcceptedIsTaken
<1>4. 1 \in 1..2 /\ 2 \in 1..2 /\ \A i \in 1..2 : i = 1 \/ i = 2
  OBVIOUS
<1> QED BY <1>1, <1>2, <1>3, <1>4 DEF seq, Unknown

\* A chip that takes what its BIOS set and what the walk offers can be restored
\* from every baseline the registry holds.
LEMMA AllowedIsRestorable ==
    ASSUME NEW e \in Entry, Allowed(e), Unreadable(e), e.orig # Manual,
           e.path \in EnablePath =>
               /\ FirstAccepted(e.path, SafePreDaemonEnableSequence) # Unknown
               /\ FirmwareMode \subseteq Accepts[e.path]
    PROVE  ~Unrestorable(e.path, e)
<1>1. e.path \in Channel
  BY DEF Entry
<1>2. CASE e.path \notin EnablePath
  BY <1>2 DEF Unreadable, Unrestorable, Unknown, Manual
<1>3. CASE e.path \in EnablePath
  <2>1. MayHold(e.path) \subseteq Accepts[e.path]
    BY <1>3, AcceptsAssumption DEF MayHold
  <2>2. CASE e.orig \in MayHold(e.path) \cup {Unknown}
    BY <2>1, <2>2 DEF Unrestorable, Unknown, Manual
  <2>3. CASE e.fallback /\ e.orig = 2
    BY <1>1, <1>3, <2>3, WalkFromHead DEF Unrestorable
  <2> QED BY <1>3, <2>2, <2>3 DEF Allowed
<1> QED BY <1>2, <1>3
=============================================================================
