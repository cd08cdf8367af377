-------------------------- MODULE LifecycleProofs --------------------------
(***************************************************************************)
(* The life of a ventd process implements the watchdog's specification, so *)
(* what is proved of the watchdog holds of the daemon; the daemon's own    *)
(* state keeps its type; and every writer has its registration.  The       *)
(* second half is what an exit leaves behind, for any fans, probe list,    *)
(* sweeps and restores: every configured fan is handed back, and no        *)
(* sibling of a controlled channel starts a new process in manual mode.    *)
(* The last part is the safety of the abstract promise, FanAuthority.      *)
(***************************************************************************)
EXTENDS Lifecycle, WatchdogProofs, FiniteSetTheorems, FunctionTheorems

\* The channel the probe goroutine works on is a channel.
LEMMA PositionChannel ==
    ASSUME LifeTypeOK, probe.pc \notin {"off", "done"}
    PROVE  Probed \in Channel
BY LifecycleAssumption, ElementOfSeq DEF LifeTypeOK, Probed

LEMMA ListChannels ==
    ASSUME NEW c \in Range(ProbeList)
    PROVE  c \in Channel
BY LifecycleAssumption, ElementOfSeq DEF Range

\* A registration of the daemon is a registration of the watchdog.
LEMMA RegistersSteps ==
    ASSUME NEW c \in Channel, Registers(c)
    PROVE  Next
BY DEF Registers, Next

LEMMA DriveSteps ==
    ASSUME NEW c \in Channel, Drive(c)
    PROVE  Next
BY DEF Drive, Next

LEMMA ControlChannels ==
    /\ Control \subseteq Channel /\ Control \subseteq Caller
    /\ Main \in Caller
    /\ Sweepable \subseteq Channel
BY LifecycleAssumption

\* Every step of the process is a step of the watchdog or leaves it alone.
LEMMA LifeStepImplements ==
    ASSUME LifeTypeOK, [LifeNext]_lifeVars
    PROVE  [Next]_vars
<1> USE ControlChannels
<1>1. CASE Start \/ FansRegistered \/ Serve
  BY <1>1 DEF Start, FansRegistered, Serve
<1>2. ASSUME NEW c \in Channel, RegisterFan(c) \/ ReconcileChannel(c)
      PROVE  [Next]_vars
  BY <1>2, RegistersSteps DEF RegisterFan, ReconcileChannel, Next
<1>3. ASSUME NEW c \in Control, ControllerTick(c) \/ ControllerLeaves(c)
      PROVE  [Next]_vars
  BY <1>3, DriveSteps DEF ControllerTick, ControllerLeaves, Next
<1>4. CASE ProbeRegisters \/ ProbeReturns \/ ProbeRestores \/ ProbePops
  <2>1. CASE ProbeRegisters
    BY <2>1, PositionChannel, RegistersSteps DEF ProbeRegisters
  <2>2. CASE ProbeReturns
    BY <2>2 DEF ProbeReturns
  <2>3. CASE ProbeRestores
    <3>1. Probed \in Channel
      BY <2>3, PositionChannel DEF ProbeRestores
    <3>2. PICK saved \in BOOLEAN : RestoreOne(Probed, saved)
      BY <2>3 DEF ProbeRestores
    <3> QED BY <3>1, <3>2 DEF Next
  <2>4. CASE ProbePops
    <3>1. Probed \in Channel /\ Deregister(Probed)
      BY <2>4, PositionChannel DEF ProbePops
    <3> QED BY <3>1 DEF Next
  <2> QED BY <1>4, <2>1, <2>2, <2>3, <2>4
<1>5. ASSUME NEW c \in Range(ProbeList), ProbeWrites(c)
      PROVE  [Next]_vars
  BY <1>5, ListChannels DEF ProbeWrites, Next
<1>6. ASSUME NEW c \in Channel,
             \/ SweepStarts(c) \/ SweepWrites(c)
             \/ SweepCleansUp(c) \/ SweepPops(c)
      PROVE  [Next]_vars
  <2>1. CASE SweepStarts(c)
    BY <2>1, RegistersSteps DEF SweepStarts
  <2>2. CASE SweepWrites(c)
    BY <2>2, DriveSteps DEF SweepWrites
  <2>3. CASE SweepCleansUp(c)
    BY <2>3, DriveSteps DEF SweepCleansUp
  <2>4. CASE SweepPops(c)
    BY <2>4 DEF SweepPops, Next
  <2> QED BY <1>6, <2>1, <2>2, <2>3, <2>4
<1>7. CASE Stop \/ Drained
  BY <1>7 DEF Stop, Drained
<1>8. CASE MainRestores
  BY <1>8 DEF MainRestores, Next
<1>9. CASE Exit \/ Kill
  BY <1>9 DEF Exit, Kill, ProcessEnds, Next
<1>10. ASSUME NEW c \in Control, SeeFailure(c)
       PROVE  [Next]_vars
  BY <1>10 DEF SeeFailure
<1>11. ASSUME NEW r \in Caller, RestoreStep(r) \/ RestoreTimesOut(r)
       PROVE  [Next]_vars
  BY <1>11 DEF RestoreStep, RestoreTimesOut, Next
<1>12. ASSUME NEW c \in Channel, RecoverStep(c)
       PROVE  [Next]_vars
  BY <1>12 DEF RecoverStep, Next
<1>13. CASE Machine
  BY <1>13, FaultyAssumption DEF Machine, Next
<1>14. CASE UNCHANGED lifeVars
  BY <1>14 DEF lifeVars
<1> QED BY <1>1, <1>2, <1>3, <1>4, <1>5, <1>6, <1>7, <1>8, <1>9, <1>10, <1>11,
           <1>12, <1>13, <1>14 DEF LifeNext

-----------------------------------------------------------------------------
(* The type of the process.                                                *)

LEMMA LifeTypeInit ==
    ASSUME LifeInit
    PROVE  LifeTypeOK
BY TypeInit DEF LifeInit, LifeTypeOK, NoProbe, MainState, ProbeState, SweepState

\* What the steps of the process leave of its type to the watchdog.
ProcessTypeOK ==
    /\ main \in MainState
    /\ todo \subseteq Channel
    /\ failed \in BOOLEAN
    /\ probe \in [pc : ProbeState, at : Nat]
    /\ probe.pc \notin {"off", "done"} => probe.at \in DOMAIN ProbeList
    /\ polarity \in BOOLEAN
    /\ sweep \in [Channel -> SweepState]
    /\ late \subseteq Channel
    /\ recover \subseteq Channel

LEMMA AdvanceTypes ==
    ASSUME ProcessTypeOK, probe.pc \notin {"off", "done"},
           NEW next \in ProbeState, Advance(next)
    PROVE  /\ probe' \in [pc : ProbeState, at : Nat]
           /\ probe'.at \in DOMAIN ProbeList
<1>1. ProbeList \in Seq(Channel) /\ probe.at \in 1..Len(ProbeList)
  BY LifecycleAssumption DEF ProcessTypeOK
<1> QED BY <1>1 DEF Advance, ProcessTypeOK

LEMMA ProcessTypeStep ==
    ASSUME ProcessTypeOK, [LifeNext]_lifeVars
    PROVE  ProcessTypeOK'
<1> USE LifecycleAssumption, ChannelAssumption
    DEF ProcessTypeOK, MainState, ProbeState, SweepState
<1>1. CASE Start
  <2>1. ProbeList # << >> => 1 \in DOMAIN ProbeList
    BY DEF NoProbe
  <2> QED BY <1>1, <2>1 DEF Start, NoProbe
<1>2. CASE FansRegistered \/ Serve
  BY <1>2 DEF FansRegistered, Serve, Unmanaged
<1>3. ASSUME NEW c \in Channel, RegisterFan(c) \/ ReconcileChannel(c)
      PROVE  ProcessTypeOK'
  BY <1>3 DEF RegisterFan, ReconcileChannel
<1>4. CASE UNCHANGED process
  BY <1>4 DEF process
<1>5. CASE ProbeRegisters
  BY <1>5, AdvanceTypes DEF ProbeRegisters
<1>6. CASE ProbeReturns
  <2>1. 1 \in DOMAIN ProbeList
    BY <1>6 DEF ProbeReturns
  <2> QED BY <1>6, <2>1 DEF ProbeReturns
<1>7. CASE ProbeRestores
  BY <1>7 DEF ProbeRestores
<1>8. CASE ProbePops
  <2>1. probe.at \in 1..Len(ProbeList)
    BY <1>8 DEF ProbePops
  <2> QED BY <1>8, <2>1 DEF ProbePops
<1>9. ASSUME NEW c \in Channel, SweepStarts(c) \/ SweepWrites(c)
      PROVE  ProcessTypeOK'
  BY <1>9 DEF SweepStarts, SweepWrites, Swept, Serving
<1>10. ASSUME NEW c \in Channel, SweepCleansUp(c) \/ SweepPops(c)
       PROVE  ProcessTypeOK'
  BY <1>10 DEF SweepCleansUp, SweepPops, Swept, Serving
<1>11. CASE Stop \/ Drained \/ MainRestores
  BY <1>11 DEF Stop, Drained, MainRestores
<1>12. CASE Exit \/ Kill
  <2>1. recover' \subseteq Channel /\ failed' \in BOOLEAN
    BY <1>12 DEF Exit, Kill
  <2>2. /\ main' = "down" /\ todo' = {} /\ probe' = [pc |-> "off", at |-> 1]
        /\ sweep' = [c \in Channel |-> "idle"]
        /\ polarity' = polarity /\ late' = late
    BY <1>12 DEF Exit, Kill, ProcessEnds, NoProbe
  <2> QED BY <2>1, <2>2
<1>13. ASSUME NEW c \in Control, SeeFailure(c)
       PROVE  ProcessTypeOK'
  BY <1>13 DEF SeeFailure
<1>14. ASSUME NEW c \in Channel, RecoverStep(c)
       PROVE  ProcessTypeOK'
  BY <1>14 DEF RecoverStep
<1>15. CASE UNCHANGED lifeVars
  BY <1>4, <1>15 DEF lifeVars
<1> QED BY <1>1, <1>2, <1>3, <1>4, <1>5, <1>6, <1>7, <1>8, <1>9, <1>10, <1>11,
           <1>12, <1>13, <1>14, <1>15
        DEF LifeNext, ControllerTick, ControllerLeaves, ProbeWrites,
            RestoreStep, RestoreTimesOut, Machine

LEMMA LifeTypeStep ==
    ASSUME LifeTypeOK, [LifeNext]_lifeVars
    PROVE  LifeTypeOK'
<1>1. TypeOK /\ ProcessTypeOK
  BY DEF LifeTypeOK, ProcessTypeOK
<1>2. TypeOK'
  BY <1>1, LifeStepImplements, TypeStep
<1>3. ProcessTypeOK'
  BY <1>1, ProcessTypeStep
<1> QED BY <1>2, <1>3 DEF LifeTypeOK, ProcessTypeOK

\* The state of the process and of its watchdog keeps its type, so the polarity
\* goroutine never works at a position outside its channel list.
THEOREM LifeTypeCorrect == LifeSpec => []LifeTypeOK
BY LifeTypeInit, LifeTypeStep, PTL DEF LifeSpec

\* The daemon uses its watchdog as the watchdog's specification expects: every
\* behaviour of the process is one of the watchdog.
THEOREM LifeImplementsWatchdog == LifeSpec => Spec
<1>1. LifeInit => Init
  BY DEF LifeInit
<1>2. LifeTypeOK /\ [LifeNext]_lifeVars => [Next]_vars
  BY LifeStepImplements
<1> QED BY <1>1, <1>2, LifeTypeCorrect, PTL DEF LifeSpec, Spec

\* Across start-up, sweeps, the probe, crashes, restarts and recovery no fan's
\* restore baseline is manual mode.
THEOREM DaemonBaselinesNeverManual == LifeSpec => []NoManualBaseline
BY LifeImplementsWatchdog, BaselinesNeverManual, PTL

\* Every restore of the process, a controller's or the final one, hands back
\* each fan it finishes within its budget.
THEOREM DaemonRestoresHandBack == LifeSpec => RestoreHandsBack
BY LifeImplementsWatchdog, RestoreAlwaysHandsBack, PTL

-----------------------------------------------------------------------------
(* Every registration has an owner, and every owner its registration.       *)

\* The positions of c's entries in a registry s.
EntriesOf(s, c) == {i \in DOMAIN s : s[i].path = c}

\* How many registrations of c the daemon, a sweep and the probe own.
DaemonShare(c) == IF DaemonOwns(c) THEN 1 ELSE 0
SweepShare(c) == IF sweep[c] # "idle" THEN 1 ELSE 0
ProbeTurns(c) == {i \in DOMAIN ProbeList : ProbeList[i] = c /\ ProbeOwns(i)}

\* The registrations and the owners of a channel, share by share.
LEMMA OwnersAreShares ==
    ASSUME NEW c
    PROVE  /\ Registrations(c) = Cardinality(EntriesOf(entries, c))
           /\ Owners(c) = DaemonShare(c) + SweepShare(c) + Cardinality(ProbeTurns(c))
  BY DEF Registrations, EntriesOf, Owners, DaemonShare, SweepShare, ProbeTurns

\* The probe has finitely many turns, so its share is a number.
LEMMA TurnsAreFinite ==
    ASSUME NEW T \in SUBSET DOMAIN ProbeList
    PROVE  IsFiniteSet(T) /\ Cardinality(T) \in Nat
<1>1. DOMAIN ProbeList = 1 .. Len(ProbeList) /\ Len(ProbeList) \in Nat
  BY LifecycleAssumption, LenProperties
<1>2. IsFiniteSet(1 .. Len(ProbeList))
  BY <1>1, FS_Interval
<1>3. IsFiniteSet(T)
  BY <1>1, <1>2, FS_Subset
<1> QED BY <1>3, FS_CardinalityType

\* The shares before and after a step.
LEMMA SharesSum ==
    ASSUME NEW c
    PROVE  /\ Owners(c) = DaemonShare(c) + SweepShare(c) + Cardinality(ProbeTurns(c))
           /\ Owners(c)' = DaemonShare(c)' + SweepShare(c)' + Cardinality(ProbeTurns(c)')
           /\ DaemonShare(c)' \in {0, 1} /\ SweepShare(c)' \in {0, 1} /\ Cardinality(ProbeTurns(c)') \in Nat
<1>1. ProbeTurns(c)' \in SUBSET DOMAIN ProbeList
  BY DEF ProbeTurns
<1> QED BY <1>1, TurnsAreFinite DEF Owners, DaemonShare, SweepShare, ProbeTurns

\* What each of the three owns is a number.
LEMMA SharesAreNumbers ==
    ASSUME NEW c
    PROVE  /\ IsFiniteSet(ProbeTurns(c)) /\ Cardinality(ProbeTurns(c)) \in Nat
           /\ DaemonShare(c) \in {0, 1} /\ SweepShare(c) \in {0, 1}
<1>1. ProbeTurns(c) \in SUBSET DOMAIN ProbeList
  BY DEF ProbeTurns
<1> QED BY <1>1, TurnsAreFinite DEF DaemonShare, SweepShare

\* A registry holds finitely many entries of a channel.
LEMMA EntriesAreFinite ==
    ASSUME NEW s \in Seq(Entry), NEW c
    PROVE  /\ DOMAIN s = 1 .. Len(s) /\ Len(s) \in Nat
           /\ IsFiniteSet(EntriesOf(s, c)) /\ Cardinality(EntriesOf(s, c)) \in Nat
<1>1. DOMAIN s = 1 .. Len(s) /\ Len(s) \in Nat
  BY LenProperties
<1>2. IsFiniteSet(1 .. Len(s))
  BY <1>1, FS_Interval
<1>3. IsFiniteSet(EntriesOf(s, c))
  BY <1>1, <1>2, FS_Subset DEF EntriesOf
<1> QED BY <1>1, <1>3, FS_CardinalityType

\* A push adds one entry of its path.
LEMMA PushCounts ==
    ASSUME NEW s \in Seq(Entry), NEW e \in Entry, NEW c
    PROVE  Cardinality(EntriesOf(Append(s, e), c))
             = Cardinality(EntriesOf(s, c)) + (IF e.path = c THEN 1 ELSE 0)
<1> DEFINE n == Len(s)
           t == Append(s, e)
<1>1. n \in Nat /\ DOMAIN s = 1 .. n
  BY LenProperties
<1>2. /\ t \in Seq(Entry) /\ DOMAIN t = 1 .. n + 1 /\ t[n + 1] = e
      /\ \A i \in 1 .. n : t[i] = s[i]
  BY <1>1, AppendProperties, LenProperties
<1> HIDE DEF t, n
<1>3. EntriesOf(t, c) = IF e.path = c THEN EntriesOf(s, c) \cup {n + 1} ELSE EntriesOf(s, c)
  BY <1>1, <1>2 DEF EntriesOf
<1>4. n + 1 \notin EntriesOf(s, c)
  BY <1>1 DEF EntriesOf
<1>5. IsFiniteSet(EntriesOf(s, c)) /\ Cardinality(EntriesOf(s, c)) \in Nat
  BY EntriesAreFinite
<1>6. Cardinality(EntriesOf(s, c) \cup {n + 1}) = Cardinality(EntriesOf(s, c)) + 1
  BY <1>4, <1>5, FS_AddElement
<1> QED BY <1>3, <1>5, <1>6 DEF t

\* A pop removes one entry, wherever in the slice it is, and moves the others.
LEMMA PopCounts ==
    ASSUME NEW s \in Seq(Entry), NEW k \in 1 .. Len(s), NEW c
    PROVE  Cardinality(EntriesOf(RemoveAt(s, k), c))
             = Cardinality(EntriesOf(s, c)) - (IF s[k].path = c THEN 1 ELSE 0)
<1> DEFINE n == Len(s)
           front == SubSeq(s, 1, k - 1)
           back == SubSeq(s, k + 1, n)
           t == RemoveAt(s, k)
<1>1. n \in Nat /\ DOMAIN s = 1 .. n /\ \A i \in 1 .. n : s[i] \in Entry
  BY LenProperties, ElementOfSeq
<1>2. /\ front \in Seq(Entry) /\ Len(front) = k - 1
      /\ \A i \in 1 .. k - 1 : front[i] = s[i]
  <2>1. 1 \in Int /\ k - 1 \in Int /\ \A i \in 1 .. k - 1 : s[i] \in Entry
    BY <1>1
  <2> HIDE DEF n
  <2>2. /\ front \in Seq(Entry) /\ Len(front) = (IF 1 <= k - 1 THEN (k - 1) - 1 + 1 ELSE 0)
        /\ \A i \in 1 .. (k - 1) - 1 + 1 : front[i] = s[1 + i - 1]
    BY <2>1, SubSeqProperties
  <2> HIDE DEF front
  <2> QED BY <2>1, <2>2
<1>3. /\ back \in Seq(Entry) /\ Len(back) = n - k
      /\ \A i \in 1 .. n - k : back[i] = s[k + i]
  <2>1. k + 1 \in Int /\ n \in Int /\ \A i \in k + 1 .. n : s[i] \in Entry
    BY <1>1
  <2>2. /\ back \in Seq(Entry) /\ Len(back) = (IF k + 1 <= n THEN n - (k + 1) + 1 ELSE 0)
        /\ \A i \in 1 .. n - (k + 1) + 1 : back[i] = s[(k + 1) + i - 1]
    BY <2>1, SubSeqProperties
  <2> HIDE DEF back, n
  <2> QED BY <1>1, <2>1, <2>2
<1>4. t = front \o back
  BY DEF RemoveAt
<1> HIDE DEF front, back, t, n
<1>5. /\ t \in Seq(Entry) /\ Len(t) = n - 1 /\ DOMAIN t = 1 .. n - 1
      /\ \A i \in 1 .. n - 1 : t[i] = IF i < k THEN s[i] ELSE s[i + 1]
  <2>1. /\ t \in Seq(Entry) /\ Len(t) = Len(front) + Len(back)
        /\ \A i \in 1 .. Len(front) + Len(back) :
             t[i] = IF i <= Len(front) THEN front[i] ELSE back[i - Len(front)]
    BY <1>2, <1>3, <1>4, ConcatProperties
  <2>2. Len(t) = n - 1
    BY <1>1, <1>2, <1>3, <2>1 DEF n
  <2>3. ASSUME NEW i \in 1 .. n - 1 PROVE t[i] = IF i < k THEN s[i] ELSE s[i + 1]
    <3>1. t[i] = IF i <= k - 1 THEN front[i] ELSE back[i - (k - 1)]
      BY <1>1, <1>2, <1>3, <2>1 DEF n
    <3>2. CASE i < k
      BY <1>1, <1>2, <3>1, <3>2 DEF n
    <3>3. CASE ~(i < k)
      <4>1. i - (k - 1) \in 1 .. n - k /\ k + (i - (k - 1)) = i + 1
        BY <1>1, <3>3 DEF n
      <4>2. back[i - (k - 1)] = s[i + 1]
        BY <1>3, <4>1
      <4> QED BY <1>1, <3>1, <3>3, <4>2 DEF n
    <3> QED BY <3>2, <3>3
  <2> QED BY <2>1, <2>2, <2>3, LenProperties
<1> DEFINE S == EntriesOf(s, c) \ {k}
           T == EntriesOf(t, c)
           f == [i \in S |-> IF i < k THEN i ELSE i - 1]
<1>6. k \in 1 .. n /\ \A i \in S : i \in 1 .. n /\ i # k /\ s[i].path = c
  BY <1>1 DEF EntriesOf, n
<1>7. f \in [S -> T]
  <2>1. ASSUME NEW i \in S PROVE (IF i < k THEN i ELSE i - 1) \in T
    <3>1. CASE i < k
      BY <1>1, <1>5, <1>6, <2>1, <3>1 DEF EntriesOf
    <3>2. CASE ~(i < k)
      <4>1. i - 1 \in 1 .. n - 1 /\ ~(i - 1 < k) /\ (i - 1) + 1 = i
        BY <1>1, <1>6, <2>1, <3>2
      <4>2. t[i - 1] = s[i]
        BY <1>5, <4>1
      <4> QED BY <1>5, <1>6, <3>2, <4>1, <4>2 DEF EntriesOf
    <3> QED BY <3>1, <3>2
  <2> HIDE DEF S, T
  <2> QED BY <2>1
<1>8. \A a, b \in S : f[a] = f[b] => a = b
  <2>1. \A i \in S : i \in 1 .. n /\ i # k
    BY <1>6
  <2> HIDE DEF S
  <2> QED BY <1>1, <1>6, <2>1
<1>9. ASSUME NEW j \in T PROVE \E i \in S : f[i] = j
  <2>1. j \in 1 .. n - 1 /\ t[j].path = c
    BY <1>5 DEF EntriesOf
  <2>2. CASE j < k
    <3>1. j \in S
      BY <1>1, <1>5, <1>6, <2>1, <2>2 DEF EntriesOf
    <3> HIDE DEF S, T
    <3> QED BY <2>2, <3>1
  <2>3. CASE ~(j < k)
    <3>1. j + 1 \in S
      BY <1>1, <1>5, <1>6, <2>1, <2>3 DEF EntriesOf
    <3>2. ~(j + 1 < k) /\ (j + 1) - 1 = j
      BY <1>6, <2>1, <2>3
    <3> HIDE DEF S, T
    <3> QED BY <3>1, <3>2
  <2> QED BY <2>2, <2>3
<1>10. ExistsBijection(S, T)
  <2> HIDE DEF f, S, T
  <2>1. f \in Bijection(S, T)
    BY <1>7, <1>8, <1>9, Fun_IsBij
  <2> QED BY <2>1 DEF ExistsBijection
<1>11. IsFiniteSet(EntriesOf(s, c)) /\ Cardinality(EntriesOf(s, c)) \in Nat
  BY EntriesAreFinite
<1>12. /\ IsFiniteSet(S)
       /\ Cardinality(S) = IF k \in EntriesOf(s, c) THEN Cardinality(EntriesOf(s, c)) - 1
                           ELSE Cardinality(EntriesOf(s, c))
  BY <1>11, FS_RemoveElement
<1>13. k \in EntriesOf(s, c) <=> s[k].path = c
  BY <1>1, <1>6 DEF EntriesOf
<1>14. Cardinality(T) = Cardinality(S)
  <2> HIDE DEF S, T
  <2> QED BY <1>10, <1>12, FS_Bijection
<1> QED BY <1>11, <1>12, <1>13, <1>14 DEF t

\* What the daemon and the probe own grows and shrinks with where they stand.
OwnInv ==
    /\ main = "down" => probe.pc = "off"
    /\ main = "registering" => todo \subseteq Fan
    /\ EntriesAreOwned

\* One more of b and no more of any other channel.
Grown(c, b) == IF b = c THEN 1 ELSE 0

\* Nobody registers or pops.
LEMMA SameOwners ==
    ASSUME EntriesAreOwned, UNCHANGED entries,
           \A c \in Channel : DaemonOwns(c)' <=> DaemonOwns(c),
           \A c \in Channel : sweep'[c] = "idle" <=> sweep[c] = "idle",
           \A i \in DOMAIN ProbeList : ProbeOwns(i)' <=> ProbeOwns(i)
    PROVE  EntriesAreOwned'
<1>1. ASSUME NEW c \in Channel PROVE Owners(c)' = Owners(c)
  <2>1. ProbeTurns(c)' = ProbeTurns(c)
    BY DEF ProbeTurns
  <2>2. DaemonShare(c)' = DaemonShare(c)
    BY DEF DaemonShare
  <2>3. SweepShare(c)' = SweepShare(c)
    BY DEF SweepShare
  <2>4. Owners(c)' = DaemonShare(c)' + SweepShare(c)' + Cardinality(ProbeTurns(c)')
    BY DEF Owners, DaemonShare, SweepShare, ProbeTurns
  <2> QED BY <2>1, <2>2, <2>3, <2>4, OwnersAreShares
<1>2. ASSUME NEW c \in Channel PROVE Registrations(c)' = Registrations(c)
  BY DEF Registrations
<1> QED BY <1>1, <1>2 DEF EntriesAreOwned

\* A registration of b, by whoever then owns one more.
LEMMA PushOwned ==
    ASSUME EntriesAreOwned, TypeOK, TypeOK', NEW b \in Channel, Registers(b),
           \A c \in Channel : Owners(c)' = Owners(c) + Grown(c, b)
    PROVE  EntriesAreOwned'
<1>1. PICK e : entries' = Append(entries, e) /\ e.path = b
  BY DEF Registers, Register
<1>2. entries \in Seq(Entry) /\ entries' \in Seq(Entry)
  BY DEF TypeOK
<1>3. e \in Entry
  <2>1. Len(entries) \in Nat /\ entries'[Len(entries) + 1] = e /\ Len(entries') = Len(entries) + 1
    BY <1>1, <1>2
  <2>2. Len(entries) + 1 \in 1 .. Len(entries')
    BY <2>1
  <2> QED BY <1>2, <2>1, <2>2, ElementOfSeq
<1>4. ASSUME NEW c \in Channel PROVE Registrations(c)' = Registrations(c) + Grown(c, b)
  <2>1. Registrations(c)' = Cardinality(EntriesOf(entries', c))
    BY DEF Registrations, EntriesOf
  <2>2. Registrations(c) = Cardinality(EntriesOf(entries, c))
    BY OwnersAreShares
  <2>3. Cardinality(EntriesOf(Append(entries, e), c))
           = Cardinality(EntriesOf(entries, c)) + (IF e.path = c THEN 1 ELSE 0)
    BY <1>2, <1>3, PushCounts
  <2> QED BY <1>1, <2>1, <2>2, <2>3 DEF Grown
<1>5. ASSUME NEW c \in Channel PROVE Registrations(c)' = Owners(c)'
  BY <1>4 DEF EntriesAreOwned
<1> QED BY <1>5 DEF EntriesAreOwned

\* A pop of b, by one who owned a registration of it.
LEMMA PopOwned ==
    ASSUME EntriesAreOwned, TypeOK, NEW b \in Channel, Deregister(b), Owners(b) # 0,
           \A c \in Channel : Owners(c) = Owners(c)' + Grown(c, b)
    PROVE  EntriesAreOwned'
<1>1. entries \in Seq(Entry)
  BY DEF TypeOK
<1>2. EntriesOf(entries, b) # {}
  <2>1. Cardinality(EntriesOf(entries, b)) # 0
    BY OwnersAreShares DEF EntriesAreOwned
  <2> QED BY <2>1, FS_EmptySet
<1>3. Top(b) # 0
  <2>1. EntriesOf(entries, b) \subseteq 1 .. Len(entries)
    BY <1>1, EntriesAreFinite DEF EntriesOf
  <2>2. Len(entries) \in Nat
    BY <1>1, EntriesAreFinite
  <2>3. \E i \in EntriesOf(entries, b) : \A j \in EntriesOf(entries, b) : j <= i
    BY <1>2, <2>1, <2>2, LastPosition
  <2>4. Top(b) \in EntriesOf(entries, b)
    BY <1>2, <2>3 DEF Top, EntriesOf
  <2> QED BY <2>1, <2>4
<1>4. Top(b) \in 1 .. Len(entries) /\ entries[Top(b)].path = b
  BY <1>1, <1>3, TopIsEntry
<1>5. entries' = RemoveAt(entries, Top(b))
  BY <1>3 DEF Deregister
<1>6. ASSUME NEW c \in Channel PROVE Registrations(c)' = Owners(c)'
  <2>1. Registrations(c)' = Cardinality(EntriesOf(entries', c))
    BY DEF Registrations, EntriesOf
  <2>2. Cardinality(EntriesOf(entries', c)) = Cardinality(EntriesOf(entries, c)) - Grown(c, b)
    BY <1>1, <1>4, <1>5, PopCounts DEF Grown
  <2>3. Cardinality(EntriesOf(entries, c)) = Owners(c)
    BY OwnersAreShares DEF EntriesAreOwned
  <2>4. Owners(c)' = DaemonShare(c)' + SweepShare(c)' + Cardinality(ProbeTurns(c)')
    BY DEF Owners, DaemonShare, SweepShare, ProbeTurns
  <2>5. DaemonShare(c)' \in {0, 1} /\ SweepShare(c)' \in {0, 1} /\ Cardinality(ProbeTurns(c)') \in Nat
    BY TurnsAreFinite DEF DaemonShare, SweepShare, ProbeTurns
  <2> QED BY <2>1, <2>2, <2>3, <2>4, <2>5 DEF Grown
<1> QED BY <1>6 DEF EntriesAreOwned

\* Nobody registers or pops, and main goes on past its start-up.
LEMMA MainOwned ==
    ASSUME OwnInv, UNCHANGED <<entries, probe, sweep>>,
           \/ main' = main /\ (main = "registering" => todo' = todo)
           \/ main = "registering" /\ todo = {} /\ main' \notin {"down", "registering"}
           \/ main \notin {"down", "registering"} /\ main' \notin {"down", "registering"}
    PROVE  OwnInv'
<1>1. \A c \in Channel : DaemonOwns(c)' <=> DaemonOwns(c)
  BY DEF DaemonOwns
<1>2. \A i \in DOMAIN ProbeList : ProbeOwns(i)' <=> ProbeOwns(i)
  BY DEF ProbeOwns
<1>3. EntriesAreOwned'
  BY <1>1, <1>2, SameOwners DEF OwnInv
<1> QED BY <1>3 DEF OwnInv

\* The end of the process ends every registration and every owner.
LEMMA EndOwned ==
    ASSUME ProcessEnds
    PROVE  OwnInv'
<1>1. /\ main' = "down" /\ probe'.pc = "off" /\ entries' = << >>
      /\ \A c \in Channel : sweep'[c] = "idle"
  BY DEF ProcessEnds, ProcessDies, NoProbe
<1>2. ASSUME NEW c \in Channel PROVE Registrations(c)' = 0 /\ Owners(c)' = 0
  <2>1. EntriesOf(entries', c) = {} /\ ProbeTurns(c)' = {}
    BY <1>1 DEF EntriesOf, ProbeTurns, ProbeOwns
  <2>2. DaemonShare(c)' = 0 /\ SweepShare(c)' = 0
    BY <1>1 DEF DaemonShare, DaemonOwns, SweepShare
  <2>3. Owners(c)' = DaemonShare(c)' + SweepShare(c)' + Cardinality(ProbeTurns(c)')
    BY DEF Owners, DaemonShare, SweepShare, ProbeTurns
  <2>4. Registrations(c)' = Cardinality(EntriesOf(entries', c))
    BY DEF Registrations, EntriesOf
  <2> QED BY <2>1, <2>2, <2>3, <2>4, FS_EmptySet
<1> QED BY <1>1, <1>2 DEF OwnInv, EntriesAreOwned

\* A start of the process owns nothing yet.
LEMMA StartOwned ==
    ASSUME OwnInv, Start
    PROVE  OwnInv'
<1>1. /\ main = "down" /\ main' = "registering" /\ todo' = Fan /\ UNCHANGED <<entries, sweep>>
      /\ probe.pc = "off" /\ probe'.at = 1 /\ probe'.pc \in {"done", "registering"}
  BY DEF Start, NoProbe, OwnInv, vars
<1>2. \A c \in Channel : ~DaemonOwns(c) /\ ~DaemonOwns(c)'
  BY <1>1 DEF DaemonOwns
<1>3. \A i \in DOMAIN ProbeList : ~ProbeOwns(i) /\ ~ProbeOwns(i)'
  BY <1>1, LifecycleAssumption, LenProperties DEF ProbeOwns
<1>4. EntriesAreOwned'
  BY <1>1, <1>2, <1>3, SameOwners DEF OwnInv
<1> QED BY <1>1, <1>4 DEF OwnInv

\* The daemon's registration of a fan at start-up.
LEMMA RegisterFanOwned ==
    ASSUME OwnInv, TypeOK, TypeOK', NEW b \in Channel, RegisterFan(b)
    PROVE  OwnInv'
<1>1. /\ main = "registering" /\ b \in todo /\ todo' = todo \ {b} /\ b \in Fan
      /\ UNCHANGED <<main, probe, sweep>> /\ Registers(b)
  BY DEF RegisterFan, OwnInv
<1>2. ASSUME NEW c \in Channel PROVE Owners(c)' = Owners(c) + Grown(c, b)
  <2>1. DaemonShare(c)' = DaemonShare(c) + Grown(c, b)
    BY <1>1 DEF DaemonShare, DaemonOwns, Grown
  <2>2. SweepShare(c)' = SweepShare(c) /\ ProbeTurns(c)' = ProbeTurns(c)
    BY <1>1 DEF SweepShare, ProbeTurns, ProbeOwns
  <2> QED BY <2>1, <2>2, SharesAreNumbers, SharesSum DEF Grown
<1>3. EntriesAreOwned'
  BY <1>1, <1>2, PushOwned DEF OwnInv
<1> QED BY <1>1, <1>3 DEF OwnInv

\* The sweep's registration and its pop.
LEMMA SweepOwned ==
    ASSUME OwnInv, LifeTypeOK, TypeOK', NEW b \in Channel, SweepStarts(b) \/ SweepPops(b)
    PROVE  OwnInv'
<1>1. /\ UNCHANGED <<main, todo, probe>> /\ TypeOK
      /\ \A c \in Channel : c # b => sweep'[c] = sweep[c]
  BY DEF SweepStarts, SweepPops, LifeTypeOK
<1>2. ASSUME NEW c \in Channel PROVE DaemonShare(c)' = DaemonShare(c) /\ ProbeTurns(c)' = ProbeTurns(c)
  BY <1>1 DEF DaemonShare, DaemonOwns, ProbeTurns, ProbeOwns
<1>3. CASE SweepStarts(b)
  <2>1. sweep[b] = "idle" /\ sweep'[b] # "idle" /\ Registers(b)
    BY <1>3 DEF SweepStarts, LifeTypeOK
  <2>2. ASSUME NEW c \in Channel PROVE Owners(c)' = Owners(c) + Grown(c, b)
    <3>1. SweepShare(c)' = SweepShare(c) + Grown(c, b)
      BY <1>1, <2>1 DEF SweepShare, Grown
    <3> QED BY <1>2, <3>1, SharesAreNumbers, SharesSum DEF Grown
  <2>3. EntriesAreOwned'
    BY <1>1, <2>1, <2>2, PushOwned DEF OwnInv
  <2> QED BY <1>1, <2>3 DEF OwnInv
<1>4. CASE SweepPops(b)
  <2>1. sweep[b] # "idle" /\ sweep'[b] = "idle" /\ Deregister(b)
    BY <1>4 DEF SweepPops, LifeTypeOK
  <2>2. ASSUME NEW c \in Channel PROVE Owners(c) = Owners(c)' + Grown(c, b)
    <3>1. SweepShare(c) = SweepShare(c)' + Grown(c, b)
      BY <1>1, <2>1 DEF SweepShare, Grown
    <3> QED BY <1>2, <3>1, SharesAreNumbers, SharesSum DEF Grown
  <2>3. Owners(b) # 0
    <3>1. SweepShare(b) = 1
      BY <2>1 DEF SweepShare
    <3> QED BY <3>1, SharesAreNumbers, OwnersAreShares
  <2>4. EntriesAreOwned'
    BY <1>1, <2>1, <2>2, <2>3, PopOwned DEF OwnInv
  <2> QED BY <1>1, <2>4 DEF OwnInv
<1> QED BY <1>3, <1>4

\* The probe's turns: how its position grows and shrinks what it owns.
LEMMA TurnsGrow ==
    ASSUME NEW T, NEW U, NEW i, NEW c, NEW b, IsFiniteSet(T), i \notin T,
           U = IF b = c THEN T \cup {i} ELSE T
    PROVE  Cardinality(U) = Cardinality(T) + Grown(c, b)
<1>1. Cardinality(T) \in Nat
  BY FS_CardinalityType
<1>2. Cardinality(T \cup {i}) = Cardinality(T) + 1
  BY FS_AddElement
<1> QED BY <1>1, <1>2 DEF Grown

\* The probe registers its next channel: it owns the turns before its position.
LEMMA ProbeRegistersOwned ==
    ASSUME OwnInv, LifeTypeOK, TypeOK', ProbeRegisters
    PROVE  OwnInv'
<1> DEFINE b == Probed
           n == Len(ProbeList)
<1>1. /\ UNCHANGED <<main, todo, sweep>> /\ probe.pc = "registering" /\ Registers(b)
      /\ probe' = IF probe.at = n THEN [pc |-> "probing", at |-> 1] ELSE [probe EXCEPT !.at = @ + 1]
      /\ main # "down"
  BY DEF ProbeRegisters, Advance, OwnInv
<1>2. b \in Channel /\ n \in Nat /\ DOMAIN ProbeList = 1 .. n /\ probe.at \in 1 .. n
  BY <1>1, PositionChannel, LifecycleAssumption, LenProperties DEF LifeTypeOK
<1>3. \A i \in 1 .. n : ProbeOwns(i) <=> i < probe.at
  BY <1>1 DEF ProbeOwns
<1>4. \A i \in 1 .. n : ProbeOwns(i)' <=> i <= probe.at
  <2>1. CASE probe.at = n
    BY <1>1, <1>2, <2>1 DEF ProbeOwns
  <2>2. CASE probe.at # n
    <3>1. probe'.pc = "registering" /\ probe'.at = probe.at + 1
      BY <1>1, <2>2 DEF LifeTypeOK
    <3> QED BY <1>2, <3>1 DEF ProbeOwns
  <2> QED BY <2>1, <2>2
<1>5. ASSUME NEW c \in Channel PROVE Owners(c)' = Owners(c) + Grown(c, b)
  <2>1. probe.at \notin ProbeTurns(c)
    BY <1>2, <1>3 DEF ProbeTurns
  <2>2. ProbeTurns(c)' = IF b = c THEN ProbeTurns(c) \cup {probe.at} ELSE ProbeTurns(c)
    BY <1>2, <1>3, <1>4 DEF ProbeTurns, Probed
  <2>3. Cardinality(ProbeTurns(c)') = Cardinality(ProbeTurns(c)) + Grown(c, b)
    BY <2>1, <2>2, TurnsGrow, SharesAreNumbers
  <2>4. DaemonShare(c)' = DaemonShare(c) /\ SweepShare(c)' = SweepShare(c)
    BY <1>1 DEF DaemonShare, DaemonOwns, SweepShare
  <2> HIDE DEF b
  <2> QED BY <2>3, <2>4, SharesAreNumbers, SharesSum DEF Grown
<1>6. EntriesAreOwned'
  BY <1>1, <1>2, <1>5, PushOwned DEF OwnInv, LifeTypeOK
<1> QED BY <1>1, <1>6 DEF OwnInv

\* The probe pops its next channel: it owns the turns from its position on.
LEMMA ProbePopsOwned ==
    ASSUME OwnInv, LifeTypeOK, ProbePops
    PROVE  OwnInv'
<1> DEFINE b == Probed
           n == Len(ProbeList)
<1>1. /\ UNCHANGED <<main, todo, sweep>> /\ probe.pc = "popping" /\ Deregister(b)
      /\ probe' = IF probe.at < n THEN [pc |-> "restoring", at |-> probe.at + 1] ELSE [pc |-> "done", at |-> 1]
      /\ main # "down"
  BY DEF ProbePops, OwnInv
<1>2. b \in Channel /\ n \in Nat /\ DOMAIN ProbeList = 1 .. n /\ probe.at \in 1 .. n
  BY <1>1, PositionChannel, LifecycleAssumption, LenProperties DEF LifeTypeOK
<1>3. \A i \in 1 .. n : ProbeOwns(i) <=> i >= probe.at
  BY <1>1 DEF ProbeOwns
<1>4. \A i \in 1 .. n : ProbeOwns(i)' <=> i > probe.at
  <2>1. CASE probe.at < n
    BY <1>1, <1>2, <2>1 DEF ProbeOwns
  <2>2. CASE ~(probe.at < n)
    BY <1>1, <1>2, <2>2 DEF ProbeOwns
  <2> QED BY <2>1, <2>2
<1>5. ASSUME NEW c \in Channel PROVE Owners(c) = Owners(c)' + Grown(c, b)
  <2>1. probe.at \notin ProbeTurns(c)' /\ IsFiniteSet(ProbeTurns(c)')
    BY <1>2, <1>4, TurnsAreFinite DEF ProbeTurns
  <2>2. ProbeTurns(c) = IF b = c THEN ProbeTurns(c)' \cup {probe.at} ELSE ProbeTurns(c)'
    BY <1>2, <1>3, <1>4 DEF ProbeTurns, Probed
  <2>3. Cardinality(ProbeTurns(c)) = Cardinality(ProbeTurns(c)') + Grown(c, b)
    BY <2>1, <2>2, TurnsGrow
  <2>4. DaemonShare(c)' = DaemonShare(c) /\ SweepShare(c)' = SweepShare(c)
    BY <1>1 DEF DaemonShare, DaemonOwns, SweepShare
  <2> HIDE DEF b
  <2> QED BY <2>3, <2>4, SharesAreNumbers, SharesSum DEF Grown
<1>6. Owners(b) # 0
  <2>1. probe.at \in ProbeTurns(b)
    BY <1>2, <1>3 DEF ProbeTurns, Probed
  <2>2. Cardinality(ProbeTurns(b)) # 0
    BY <2>1, SharesAreNumbers, FS_EmptySet
  <2> HIDE DEF b
  <2> QED BY <2>2, SharesAreNumbers, OwnersAreShares
<1>7. EntriesAreOwned'
  BY <1>1, <1>2, <1>5, <1>6, PopOwned DEF OwnInv, LifeTypeOK
<1> QED BY <1>1, <1>7 DEF OwnInv

\* The other steps of the probe and of a sweep.
LEMMA TurnsOwned ==
    ASSUME OwnInv, LifeTypeOK,
           ProbeReturns \/ ProbeRestores \/ \E c \in Channel : SweepCleansUp(c)
    PROVE  OwnInv'
<1>1. /\ UNCHANGED <<entries, main, todo>>
      /\ probe'.pc = "off" <=> probe.pc = "off"
  BY DEF ProbeReturns, ProbeRestores, SweepCleansUp, Drive, TakeManual, WriteDuty,
     RestoreOne, vars, LifeTypeOK
<1>2. \A c \in Channel : sweep'[c] = "idle" <=> sweep[c] = "idle"
  BY DEF ProbeReturns, ProbeRestores, SweepCleansUp, LifeTypeOK
<1>3. \A i \in DOMAIN ProbeList : ProbeOwns(i)' <=> ProbeOwns(i)
  <2>0. \A i \in DOMAIN ProbeList : i \in Nat /\ i >= 1
    BY LifecycleAssumption, LenProperties
  <2> QED BY <2>0 DEF ProbeReturns, ProbeRestores, SweepCleansUp, ProbeOwns, LifeTypeOK
<1>4. \A c \in Channel : DaemonOwns(c)' <=> DaemonOwns(c)
  BY <1>1 DEF DaemonOwns
<1>5. EntriesAreOwned'
  BY <1>1, <1>2, <1>3, <1>4, SameOwners DEF OwnInv
<1> QED BY <1>1, <1>5 DEF OwnInv

\* Before the first start nothing is registered and nobody owns anything.
LEMMA OwnInvInit == LifeInit => OwnInv
<1> SUFFICES ASSUME LifeInit PROVE OwnInv
  OBVIOUS
<1>1. main = "down" /\ probe.pc = "off" /\ entries = << >> /\ \A c \in Channel : sweep[c] = "idle"
  BY DEF LifeInit, Init, NoProbe
<1>2. ASSUME NEW c \in Channel PROVE Registrations(c) = Owners(c)
  <2>1. EntriesOf(entries, c) = {} /\ ProbeTurns(c) = {}
    BY <1>1 DEF EntriesOf, ProbeTurns, ProbeOwns
  <2>2. DaemonShare(c) = 0 /\ SweepShare(c) = 0
    BY <1>1 DEF DaemonShare, DaemonOwns, SweepShare
  <2> QED BY <2>1, <2>2, OwnersAreShares, FS_EmptySet
<1> QED BY <1>1, <1>2 DEF OwnInv, EntriesAreOwned

\* Every step of the process keeps the invariant.
LEMMA OwnInvStep ==
    ASSUME OwnInv, LifeTypeOK, LifeTypeOK', [LifeNext]_lifeVars
    PROVE  OwnInv'
<1>0. TypeOK /\ TypeOK'
  BY DEF LifeTypeOK
<1>1. CASE Start
  BY <1>1, StartOwned
<1>2. CASE FansRegistered \/ Serve \/ Stop \/ Drained \/ MainRestores
  <2>1. CASE FansRegistered \/ Serve
    BY <2>1, MainOwned DEF FansRegistered, Serve, vars
  <2>2. CASE Stop \/ Drained
    BY <2>2, MainOwned DEF Stop, Drained, Serving, vars
  <2>3. CASE MainRestores
    BY <2>3, MainOwned DEF MainRestores, RestoreCall, vars
  <2> QED BY <1>2, <2>1, <2>2, <2>3
<1>3. ASSUME NEW c \in Channel, RegisterFan(c) PROVE OwnInv'
  BY <1>0, <1>3, RegisterFanOwned
<1>4. ASSUME NEW c \in Channel, ReconcileChannel(c) \/ RecoverStep(c) PROVE OwnInv'
  BY <1>4, MainOwned DEF ReconcileChannel, RecoverStep, RecoverChannel, vars
<1>5. ASSUME NEW c, ControllerTick(c) \/ ControllerLeaves(c) \/ ProbeWrites(c) \/ SeeFailure(c) PROVE OwnInv'
  BY <1>5, MainOwned DEF ControllerTick, ControllerLeaves, ProbeWrites, SeeFailure,
     Serving, Drive, TakeManual, WriteDuty,
                         RestoreCall, process, vars
<1>6. CASE ProbeRegisters \/ ProbePops
  BY <1>0, <1>6, ProbeRegistersOwned, ProbePopsOwned
<1>7. CASE ProbeReturns \/ ProbeRestores \/ \E c \in Channel : SweepCleansUp(c)
  BY <1>7, TurnsOwned
<1>8. ASSUME NEW c \in Channel, SweepStarts(c) \/ SweepPops(c) PROVE OwnInv'
  BY <1>0, <1>8, SweepOwned
<1>9. ASSUME NEW c \in Channel, SweepWrites(c) PROVE OwnInv'
  BY <1>9, MainOwned DEF SweepWrites, Drive, TakeManual, WriteDuty
<1>10. CASE Exit \/ Kill
  BY <1>10, EndOwned DEF Exit, Kill
<1>11. ASSUME NEW r \in Caller, RestoreStep(r) \/ RestoreTimesOut(r) PROVE OwnInv'
  BY <1>11, MainOwned DEF RestoreStep, RestoreTimesOut, RestoreEntry, RestoreSkip,
     RestoreDone, RestoreDeadline, process
<1>12. CASE Machine \/ UNCHANGED lifeVars
  BY <1>12, MainOwned DEF Machine, FirmwareReasserts, IoChanges, process, lifeVars, vars
<1> QED BY <1>1, <1>2, <1>3, <1>4, <1>5, <1>6, <1>7, <1>8, <1>9, <1>10, <1>11,
           <1>12 DEF LifeNext

\* Watchdog registrations are exactly those whose owner has not yet popped
\* them (cmd/ventd/main.go:1463, calibrate.go:533 and :565): while the daemon,
\* a sweep or the polarity probe drives a channel, the registry holds one
\* entry for each of them, so the pop of one never strips another's cover.
THEOREM WritersAreCovered == LifeSpec => []EntriesAreOwned
<1>1. OwnInv /\ LifeTypeOK /\ LifeTypeOK' /\ [LifeNext]_lifeVars => OwnInv'
  BY OwnInvStep
<1>2. OwnInv => EntriesAreOwned
  BY DEF OwnInv
<1> QED BY <1>1, <1>2, OwnInvInit, LifeTypeCorrect, PTL DEF LifeSpec

-----------------------------------------------------------------------------
(* An exit.                                                                *)

\* Main's restore is not idle once it has been called, and the exit waits for
\* the controllers and the probe; before main serves no sweep and no restore is
\* under way.
StageInv ==
    /\ main \in {"joining", "restoring"} => \A k \in Control : call[k].open = "returned"
    /\ main = "restoring" => probe.pc = "done" /\ call[Main].open # "idle"
    /\ main \in {"down", "registering", "reconciling"} =>
         /\ \A c \in Channel : sweep[c] = "idle"
         /\ \A r \in Caller : call[r] = NoCall

\* The fan is handed back, or a goroutine of the last restore will do it.
Handed(c) ==
    \/ ~HeldNow(c)
    \/ /\ call[Main].open = "waiting"
       /\ \E i \in call[Main].left : call[Main].snap[i].path = c

\* Only a faulty channel's writes fail.
ChipInv == \A c \in Channel \ Faulty : io[c] = "ok"

\* The last restore hands back, or is about to, every fan main answers for.
FinalInv == main = "restoring" => \A c \in Fan \ late : Restorable(c) => Handed(c)

\* The siblings NoStrandedSibling speaks of.
Answers(c) == Takes(c) /\ (c \in Range(ProbeList) => FirmwareMode \subseteq Accepts[c])

\* Those the start-up scan has passed are in no manual mode.
SiblingInv ==
    main = "reconciling" => \A c \in Unmanaged \ todo : Answers(c) => enable[c] # Manual

\* What the watchdog's theorems say of the baselines.
BaselineInv ==
    /\ TypeOK /\ NoManualBaseline /\ ModesInv
    /\ \A e \in Baselines : Unreadable(e)

\* The inductive invariant of an orderly exit.
ExitInv == OwnInv /\ ChipInv /\ StageInv /\ FinalInv /\ SiblingInv

\* What Restore works on is a baseline.
LEMMA BaselineEntries ==
    ASSUME TypeOK
    PROVE  /\ \A c \in Channel : Top(c) # 0 =>
                /\ entries[Top(c)] \in Entry /\ entries[Top(c)] \in Baselines
                /\ entries[Top(c)].path = c
           /\ \A r \in Caller : \A i \in call[r].left :
                call[r].snap[i] \in Entry /\ call[r].snap[i] \in Baselines
<1>1. ASSUME NEW c \in Channel, Top(c) # 0
      PROVE  /\ entries[Top(c)] \in Entry /\ entries[Top(c)] \in Baselines
             /\ entries[Top(c)].path = c
  BY <1>1, TopIsEntry DEF TypeOK, Baselines
<1>2. ASSUME NEW r \in Caller, NEW i \in call[r].left
      PROVE  call[r].snap[i] \in Entry /\ call[r].snap[i] \in Baselines
  BY <1>2, LenProperties, ElementOfSeq DEF TypeOK, Call, Baselines, Range
<1> QED BY <1>1, <1>2

\* The restore of an entry frees its fan and touches no other.
LEMMA RestoreFrees ==
    ASSUME BaselineInv, ChipInv, NEW e \in Entry, e \in Baselines, NEW saved \in BOOLEAN,
           RestoreEntryEffect(e, saved), NEW c \in Channel
    PROVE  /\ e.path # c => enable'[c] = enable[c] /\ duty'[c] = duty[c]
           /\ e.path = c /\ Restorable(c) => ~HeldNow(c)'
<1> DEFINE out == RestoreEffect(e.path, e, enable[e.path], duty[e.path], io[e.path])
<1>0. e.path \in Channel /\ TypeOK /\ e.orig \in Mode \cup {Unknown}
  BY DEF Entry, BaselineInv
<1>1. /\ enable' = [enable EXCEPT ![e.path] = out.enable]
      /\ duty' = [duty EXCEPT ![e.path] = out.duty]
  BY DEF RestoreEntryEffect
<1>2. e.path # c => enable'[c] = enable[c] /\ duty'[c] = duty[c]
  <2> HIDE DEF out
  <2> QED BY <1>0, <1>1 DEF TypeOK
<1>3. ASSUME e.path = c, Restorable(c) PROVE ~HeldNow(c)'
  <2>1. ~Unrestorable(c, e) /\ e.orig # Manual /\ Unreadable(e)
    BY <1>3, AllowedIsRestorable DEF Restorable, Takes, BaselineInv, ModesInv,
       NoManualBaseline
  <2>2. io[c] = "ok" /\ enable[c] \in Mode /\ duty[c] \in Duty
    BY <1>0, <1>3 DEF ChipInv, Restorable, Takes, TypeOK
  <2>3. ~Held(c, out.enable, out.duty)
    BY <1>0, <1>3, <2>1, <2>2, RestoreEffectHandsBack DEF Unreadable, IoOutcome
  <2> HIDE DEF out
  <2>4. enable'[c] = out.enable /\ duty'[c] = out.duty
    BY <1>0, <1>1, <1>3 DEF TypeOK
  <2> QED BY <2>3, <2>4 DEF HeldNow
<1> QED BY <1>2, <1>3

\* ... and, of a sibling that answers, leaves no fan in manual mode that was not.
LEMMA RestoreKeepsFreed ==
    ASSUME BaselineInv, ChipInv, NEW e \in Entry, e \in Baselines, NEW saved \in BOOLEAN,
           RestoreEntryEffect(e, saved), NEW c \in EnablePath, enable[c] # Manual,
           Takes(c), e.path = c => FirmwareMode \subseteq Accepts[c]
    PROVE  enable'[c] # Manual
<1> DEFINE out == RestoreEffect(e.path, e, enable[e.path], duty[e.path], io[e.path])
<1>0. e.path \in Channel /\ TypeOK /\ e.orig \in Mode \cup {Unknown} /\ c \in Channel /\ c \notin Vendor
  BY ChannelAssumption DEF Entry, BaselineInv
<1>1. enable' = [enable EXCEPT ![e.path] = out.enable]
  BY DEF RestoreEntryEffect
<1>2. CASE e.path # c
  <2> HIDE DEF out
  <2> QED BY <1>0, <1>1, <1>2 DEF TypeOK
<1>3. CASE e.path = c
  <2>1. ~Unrestorable(c, e) /\ e.orig # Manual
    BY <1>3, AllowedIsRestorable DEF Takes, BaselineInv, ModesInv, NoManualBaseline
  <2>2. io[c] = "ok"
    BY <1>0 DEF ChipInv, Takes
  <2>3. FirstAccepted(c, Tail(SafePreDaemonEnableSequence)) \in {Unknown, 99, 0}
    BY <1>0, WalkValues
  <2>4. out.enable # Manual
    BY <1>0, <1>3, <2>1, <2>2, <2>3 DEF RestoreEffect, RestoreHwmon, FullSpeed, Chip,
       Unrestorable, Manual, Unknown
  <2> HIDE DEF out
  <2> QED BY <1>0, <1>1, <1>3, <2>4 DEF TypeOK
<1> QED BY <1>2, <1>3

\* The handback of a channel frees it if its chip answers.
LEMMA RecoverFrees ==
    ASSUME TypeOK, ChipInv, NEW d \in Channel, RecoverChannel(d), NEW c \in Channel
    PROVE  /\ d # c => enable'[c] = enable[c]
           /\ duty' = duty
           /\ enable'[c] = Manual => enable[c] = Manual
           /\ d = c /\ Takes(c) => enable'[c] # Manual
<1>1. d \in EnablePath /\ enable' = [enable EXCEPT ![d] = HandBack(d, enable[d], io[d])] /\ duty' = duty
  BY DEF RecoverChannel
<1>2. HandBack(d, enable[d], io[d]) = Manual => enable[d] = Manual
  BY HandBackNeverManual DEF TypeOK
<1>3. Takes(d) => HandBack(d, enable[d], io[d]) # Manual
  <2>1. FirstAccepted(d, SafePreDaemonEnableSequence) \in {Unknown, 2, 99, 0}
    BY WalkValues
  <2> QED BY <1>1, <2>1 DEF HandBack, Takes, ChipInv, Manual, Unknown
<1> QED BY <1>1, <1>2, <1>3 DEF TypeOK

\* The firmware takes a fan to its own mode.
LEMMA FirmwareFrees ==
    ASSUME TypeOK, NEW d \in Channel, NEW m \in FirmwareMode, FirmwareReasserts(d, m), NEW c \in Channel
    PROVE  /\ HeldNow(c)' => HeldNow(c)
           /\ enable'[c] = Manual => enable[c] = Manual
BY FirmwareAssumption DEF FirmwareReasserts, TypeOK, HeldNow, Held

\* A write drives one fan.
LEMMA DriveHolds ==
    ASSUME TypeOK, NEW d \in Channel, Drive(d), NEW c \in Channel, c # d
    PROVE  enable'[c] = enable[c] /\ duty'[c] = duty[c]
BY DEF Drive, TakeManual, WriteDuty, TypeOK

\* What sysfs writes do changes only for the faulty channels.
LEMMA ChipStep ==
    ASSUME TypeOK, ChipInv, [Next]_vars
    PROVE  ChipInv'
<1>1. ASSUME NEW d \in Faulty, NEW o, IoChanges(d, o) PROVE ChipInv'
  BY <1>1 DEF IoChanges, ChipInv, TypeOK
<1>2. CASE io' = io
  BY <1>2 DEF ChipInv
<1> QED BY <1>1, <1>2
        DEF Next, Register, Deregister, RestoreOne, RestoreEntryEffect, RestoreCall, RestoreEntry,
            RestoreSkip, RestoreDone, RestoreDeadline, TakeManual, WriteDuty, FirmwareReasserts,
            ProcessDies, RecoverChannel, vars, chip

\* A call does not come back to idle, and the calls of the others stay.
LEMMA CallStep ==
    ASSUME TypeOK, NEW r \in Caller, RestoreStep(r) \/ RestoreTimesOut(r)
    PROVE  /\ call[r].open # "idle" => call'[r].open # "idle"
           /\ call[r].open = "returned" => call'[r].open = "returned"
           /\ call[r] # NoCall
           /\ \A q \in Caller : q # r => call'[q] = call[q]
           /\ UNCHANGED <<entries, main, todo, failed, probe, polarity, sweep, late, recover>>
<1>1. CASE RestoreTimesOut(r)
  BY <1>1 DEF RestoreTimesOut, RestoreDeadline, TypeOK, Call, NoCall, process
<1>2. CASE RestoreStep(r)
  <2>1. CASE RestoreDone(r)
    BY <1>2, <2>1 DEF RestoreStep, RestoreDone, TypeOK, Call, NoCall, process
  <2>2. ASSUME NEW i \in call[r].left, Finish(r, i)
        PROVE  /\ call'[r].open = call[r].open
               /\ call[r] # NoCall
               /\ \A q \in Caller : q # r => call'[q] = call[q]
    BY <2>2 DEF Finish, TypeOK, Call, NoCall
  <2>3. \/ RestoreDone(r)
        \/ \E i \in call[r].left : Finish(r, i) /\ UNCHANGED entries
    BY <1>2 DEF RestoreStep, RestoreEntry, RestoreSkip
  <2> QED BY <1>2, <2>1, <2>2, <2>3 DEF RestoreStep, process
<1> QED BY <1>1, <1>2

\* The stages of the process follow one another.
LEMMA StageStep ==
    ASSUME OwnInv, StageInv, LifeTypeOK, [LifeNext]_lifeVars
    PROVE  StageInv'
<1>0. TypeOK /\ Main \in Caller /\ Main \notin Control /\ Control \subseteq Caller /\ Control \subseteq Channel
  BY LifecycleAssumption DEF LifeTypeOK
<1>1. ASSUME UNCHANGED <<call, sweep>>, probe.pc = "done" => probe'.pc = "done",
             \/ main' = main
             \/ main = "down" /\ main' = "registering"
             \/ main = "registering" /\ main' = "reconciling"
             \/ main' \in {"serving", "draining"}
      PROVE  StageInv'
  BY <1>1 DEF StageInv
<1>2. CASE Start \/ FansRegistered \/ Serve
  BY <1>1, <1>2 DEF Start, FansRegistered, Serve, vars, StageInv
<1>3. ASSUME NEW c \in Channel, RegisterFan(c) \/ ReconcileChannel(c) PROVE StageInv'
  BY <1>1, <1>3 DEF RegisterFan, Registers, Register, ReconcileChannel, RecoverChannel,
     vars
<1>4. ASSUME NEW c \in Control, ControllerTick(c) PROVE StageInv'
  BY <1>1, <1>4 DEF ControllerTick, Drive, TakeManual, WriteDuty, process
<1>5. ASSUME NEW c \in Control, ControllerLeaves(c) PROVE StageInv'
  <2>1. /\ call[c].open = "idle" /\ call'[Main] = call[Main]
        /\ UNCHANGED process /\ main \in {"serving", "draining", "joining", "restoring"}
    BY <1>0, <1>5 DEF ControllerLeaves, Looping, RestoreCall, TypeOK
  <2>2. main \notin {"joining", "restoring"}
    BY <1>0, <2>1 DEF StageInv
  <2> QED BY <2>1, <2>2 DEF StageInv, process
<1>6. CASE ProbeRegisters \/ ProbeReturns \/ ProbeRestores \/ ProbePops
  BY <1>1, <1>6 DEF ProbeRegisters, Registers, Register, ProbeReturns, ProbeRestores,
     RestoreOne, ProbePops, Deregister, vars
<1>7. ASSUME NEW c, ProbeWrites(c) PROVE StageInv'
  BY <1>1, <1>7 DEF ProbeWrites, WriteDuty, process
<1>8. ASSUME NEW c \in Channel, SweepStarts(c) \/ SweepWrites(c) \/ SweepCleansUp(c) \/ SweepPops(c)
      PROVE  StageInv'
  <2>1. /\ UNCHANGED <<main, probe, call>>
        /\ main \notin {"down", "registering", "reconciling"}
    <3>1. CASE SweepStarts(c)
      BY <3>1 DEF SweepStarts, Registers, Register
    <3>2. CASE SweepWrites(c)
      BY <3>2 DEF SweepWrites, Drive, TakeManual, WriteDuty, StageInv
    <3>3. CASE SweepCleansUp(c)
      BY <3>3 DEF SweepCleansUp, Drive, TakeManual, WriteDuty, StageInv, vars
    <3>4. CASE SweepPops(c)
      BY <3>4 DEF SweepPops, Deregister, StageInv
    <3> QED BY <1>8, <3>1, <3>2, <3>3, <3>4
  <2> QED BY <2>1 DEF StageInv
<1>9. CASE Stop
  BY <1>1, <1>9 DEF Stop, vars
<1>10. ASSUME NEW c \in Control, SeeFailure(c) PROVE StageInv'
  BY <1>1, <1>10 DEF SeeFailure, vars
<1>11. CASE Drained
  BY <1>11 DEF Drained, StageInv, vars
<1>12. CASE MainRestores
  <2>1. /\ main = "joining" /\ main' = "restoring" /\ probe.pc = "done" /\ UNCHANGED <<probe, sweep>>
        /\ call'[Main].open \in {"returned", "waiting"}
        /\ \A k \in Control : call'[k] = call[k]
    BY <1>0, <1>12 DEF MainRestores, RestoreCall, TypeOK, NoCall
  <2> QED BY <2>1 DEF StageInv
<1>13. CASE Exit \/ Kill
  <2>1. main' = "down" /\ (\A r \in Caller : call'[r] = NoCall) /\ \A c \in Channel : sweep'[c] = "idle"
    BY <1>13 DEF Exit, Kill, ProcessEnds, ProcessDies
  <2> QED BY <2>1 DEF StageInv
<1>14. ASSUME NEW r \in Caller, RestoreStep(r) \/ RestoreTimesOut(r) PROVE StageInv'
  <2>1. /\ call[r].open # "idle" => call'[r].open # "idle"
        /\ call[r].open = "returned" => call'[r].open = "returned"
        /\ call[r] # NoCall
        /\ \A q \in Caller : q # r => call'[q] = call[q]
        /\ UNCHANGED <<main, probe, sweep>>
    BY <1>0, <1>14, CallStep
  <2> QED BY <1>0, <2>1 DEF StageInv
<1>15. ASSUME NEW c \in Channel, RecoverStep(c) PROVE StageInv'
  BY <1>1, <1>15 DEF RecoverStep, RecoverChannel
<1>16. CASE Machine
  BY <1>1, <1>16 DEF Machine, FirmwareReasserts, IoChanges, process
<1>17. CASE UNCHANGED lifeVars
  BY <1>1, <1>17 DEF lifeVars, vars, process
<1> QED BY <1>2, <1>3, <1>4, <1>5, <1>6, <1>7, <1>8, <1>9, <1>10, <1>11, <1>12, <1>13,
           <1>14, <1>15, <1>16, <1>17 DEF LifeNext

\* A fan stays handed over a step that leaves main's restore and the fan alone.
LEMMA HandedStays ==
    ASSUME FinalInv, main = "restoring", main' = main, call'[Main] = call[Main], late \subseteq late',
           \A c \in Fan \ late' : Restorable(c) => (HeldNow(c)' => HeldNow(c))
    PROVE  FinalInv'
BY DEF FinalInv, Handed

\* When main calls its restore every fan has an entry, which the call takes.
LEMMA FinalCall ==
    ASSUME OwnInv, TypeOK, MainRestores
    PROVE  FinalInv'
<1>1. /\ main = "joining" /\ RestoreCall(Main) /\ Main \in Caller /\ Fan \subseteq Channel
  BY LifecycleAssumption DEF MainRestores
<1>2. ASSUME NEW c \in Fan PROVE \E i \in DOMAIN entries : entries[i].path = c
  <2>1. c \in Channel /\ Registrations(c) = Owners(c)
    BY <1>1 DEF OwnInv, EntriesAreOwned
  <2>2. DaemonShare(c) = 1
    BY <1>1 DEF DaemonShare, DaemonOwns
  <2>3. Owners(c) # 0
    BY <2>2, OwnersAreShares, SharesAreNumbers
  <2>4. EntriesOf(entries, c) # {}
    BY <2>1, <2>3, OwnersAreShares, FS_EmptySet
  <2> QED BY <2>4 DEF EntriesOf
<1>3. ASSUME NEW c \in Fan PROVE Handed(c)'
  <2>1. PICK i \in DOMAIN entries : entries[i].path = c
    BY <1>2
  <2>2. entries # << >>
    BY <2>1
  <2>3. /\ call'[Main].open = "waiting" /\ call'[Main].snap = entries
        /\ call'[Main].left = DOMAIN entries
    BY <1>1, <2>2 DEF RestoreCall, TypeOK
  <2> QED BY <2>1, <2>3 DEF Handed
<1> QED BY <1>3 DEF FinalInv

\* A goroutine of the last restore that is done has freed its fan; the budget
\* runs out on the slow ones.
LEMMA FinalRestore ==
    ASSUME BaselineInv, ChipInv, StageInv, FinalInv, LifeTypeOK, main = "restoring",
           NEW r \in Caller, RestoreStep(r) \/ RestoreTimesOut(r)
    PROVE  FinalInv'
<1>0. TypeOK /\ Main \in Caller /\ Fan \subseteq Channel
  BY LifecycleAssumption DEF LifeTypeOK
<1>1. UNCHANGED <<main, late>>
  BY <1>0, CallStep
<1>2. ASSUME NEW i \in call[r].left, NEW saved \in BOOLEAN, RestoreEntry(r, i, saved)
      PROVE  FinalInv'
  <2>1. /\ call[r].snap[i] \in Entry /\ call[r].snap[i] \in Baselines
    BY <1>0, BaselineEntries
  <2>2. RestoreEntryEffect(call[r].snap[i], saved)
    BY <1>2 DEF RestoreEntry
  <2>3. ASSUME NEW c \in Fan \ late, Restorable(c) PROVE Handed(c)'
    <3>1. /\ call[r].snap[i].path = c => ~HeldNow(c)'
          /\ call[r].snap[i].path # c => enable'[c] = enable[c] /\ duty'[c] = duty[c]
      BY <1>0, <2>1, <2>2, <2>3, RestoreFrees
    <3>2. CASE call[r].snap[i].path = c
      BY <3>1, <3>2 DEF Handed
    <3>3. CASE call[r].snap[i].path # c
      <4>1. /\ call'[Main].open = call[Main].open /\ call'[Main].snap = call[Main].snap
            /\ call'[Main].left = IF r = Main THEN call[Main].left \ {i} ELSE call[Main].left
        <5>1. call \in [Caller -> Call] /\ call[Main] \in Call /\ Main \in Caller
          BY <1>0 DEF TypeOK
        <5>2. call' = [call EXCEPT ![r] = [call[r] EXCEPT !.left = @ \ {i},
                                                           !.incomplete = @ \ {call[r].snap[i].path}]]
          BY <1>2, <5>1 DEF RestoreEntry, Finish
        <5>3. r # Main => call'[Main] = call[Main]
          BY <5>1, <5>2
        <5>4. CASE r = Main
          <6> DEFINE m == [call[Main] EXCEPT !.left = @ \ {i}, !.incomplete = @ \ {call[r].snap[i].path}]
          <6>1. m.open = call[Main].open /\ m.snap = call[Main].snap /\ m.left = call[Main].left \ {i}
            BY <5>1 DEF Call
          <6>2. call'[Main] = m
            BY <5>1, <5>2, <5>4
          <6> HIDE DEF m
          <6> QED BY <5>4, <6>1, <6>2
        <5>5. CASE r # Main
          BY <5>3, <5>5
        <5> QED BY <5>4, <5>5
      <4>2. HeldNow(c)' <=> HeldNow(c)
        BY <3>1, <3>3 DEF HeldNow
      <4>3. Handed(c)
        BY <2>3 DEF FinalInv
      <4> QED BY <3>3, <4>1, <4>2, <4>3 DEF Handed
    <3> QED BY <3>2, <3>3
  <2> QED BY <1>1, <2>3 DEF FinalInv
<1>3. ASSUME enable' = enable, duty' = duty, r # Main PROVE FinalInv'
  <2>1. call'[Main] = call[Main]
    BY <1>0, <1>3, CallStep
  <2> QED BY <1>1, <1>3, <2>1, HandedStays DEF HeldNow
<1>4. ASSUME enable' = enable, duty' = duty, r = Main,
             \A i \in call[Main].left : call[Main].open = "waiting" => call[Main].snap[i].path \in Slow
      PROVE  FinalInv'
  <2>1. ASSUME NEW c \in Fan \ late, Restorable(c) PROVE Handed(c)'
    <3>1. Handed(c) /\ c \notin Slow
      BY <2>1 DEF FinalInv, Restorable
    <3>2. ~HeldNow(c)
      BY <1>4, <3>1 DEF Handed
    <3> QED BY <1>4, <3>2 DEF Handed, HeldNow
  <2> QED BY <1>1, <2>1 DEF FinalInv
<1>5. CASE RestoreDone(r) \/ \E i \in call[r].left : RestoreSkip(r, i)
  <2>1. enable' = enable /\ duty' = duty
    BY <1>5 DEF RestoreDone, RestoreSkip, chip
  <2>2. \A i \in call[r].left : call[r].open # "waiting"
    BY <1>5 DEF RestoreDone, RestoreSkip
  <2> QED BY <1>3, <1>4, <2>1, <2>2
<1>6. CASE RestoreTimesOut(r)
  <2>1. enable' = enable /\ duty' = duty /\ \A i \in call[r].left : call[r].snap[i].path \in Slow
    BY <1>6 DEF RestoreTimesOut, RestoreDeadline, chip
  <2> QED BY <1>3, <1>4, <2>1
<1> QED BY <1>2, <1>5, <1>6 DEF RestoreStep

\* No writer that the exit waits for is left to undo the last restore.
LEMMA FinalStep ==
    ASSUME BaselineInv, ChipInv, OwnInv, StageInv, FinalInv, LifeTypeOK, [LifeNext]_lifeVars
    PROVE  FinalInv'
<1>0. TypeOK /\ Main \in Caller /\ Main \notin Control /\ Fan \subseteq Channel /\ Control \subseteq Channel
  BY LifecycleAssumption DEF LifeTypeOK
<1>1. CASE main' # "restoring"
  BY <1>1 DEF FinalInv
<1>2. CASE MainRestores
  BY <1>0, <1>2, FinalCall
<1>3. CASE main = "restoring" /\ main' = "restoring"
  <2>0. (\A k \in Control : call[k].open = "returned") /\ probe.pc = "done"
    BY <1>3 DEF StageInv
  <2>1. ASSUME NEW c \in Channel,
               SweepStarts(c) \/ SweepWrites(c) \/ SweepCleansUp(c) \/ SweepPops(c)
        PROVE  FinalInv'
    <3>1. late' = late \cup {c}
      BY <1>3, <2>1 DEF SweepStarts, SweepWrites, SweepCleansUp, SweepPops, Swept, Serving
    <3>2. CASE UNCHANGED <<enable, duty, call>>
      BY <1>3, <3>1, <3>2, HandedStays DEF HeldNow
    <3>3. CASE Drive(c)
      <4>1. call' = call
        BY <3>3 DEF Drive, TakeManual, WriteDuty
      <4>2. ASSUME NEW d \in Fan \ late' PROVE HeldNow(d)' <=> HeldNow(d)
        BY <1>0, <3>1, <3>3, <4>2, DriveHolds DEF HeldNow
      <4> QED BY <1>3, <3>1, <4>1, <4>2, HandedStays
    <3>4. UNCHANGED <<enable, duty, call>> \/ Drive(c)
      <4>1. CASE SweepStarts(c)
        BY <4>1 DEF SweepStarts, Registers, Register, chip
      <4>2. CASE SweepWrites(c) \/ SweepCleansUp(c)
        BY <4>2 DEF SweepWrites, SweepCleansUp, vars
      <4>3. CASE SweepPops(c)
        BY <4>3 DEF SweepPops, Deregister, chip
      <4> QED BY <2>1, <4>1, <4>2, <4>3
    <3> QED BY <3>2, <3>3, <3>4
  <2>2. ASSUME NEW r \in Caller, RestoreStep(r) \/ RestoreTimesOut(r) PROVE FinalInv'
    BY <1>3, <2>2, FinalRestore
  <2>3. ASSUME NEW c \in Channel, RecoverStep(c) PROVE FinalInv'
    <3>1. UNCHANGED <<call, late>> /\ RecoverChannel(c)
      BY <2>3 DEF RecoverStep, RecoverChannel
    <3>2. ASSUME NEW d \in Fan PROVE HeldNow(d)' => HeldNow(d)
      BY <1>0, <3>1, RecoverFrees DEF HeldNow, Held
    <3> QED BY <1>3, <3>1, <3>2, HandedStays
  <2>4. CASE Machine
    <3>1. UNCHANGED <<call, late>>
      BY <2>4 DEF Machine, FirmwareReasserts, IoChanges, process
    <3>2. ASSUME NEW d \in Fan PROVE HeldNow(d)' => HeldNow(d)
      <4>1. CASE \E c \in Channel, m \in FirmwareMode : FirmwareReasserts(c, m)
        BY <1>0, <4>1, FirmwareFrees
      <4>2. CASE \E c \in Faulty, o \in IoOutcome : IoChanges(c, o)
        BY <4>2 DEF IoChanges, HeldNow
      <4> QED BY <2>4, <4>1, <4>2 DEF Machine
    <3> QED BY <1>3, <3>1, <3>2, HandedStays
  <2>5. CASE UNCHANGED lifeVars
    BY <1>3, <2>5, HandedStays DEF lifeVars, vars, process, HeldNow
  <2>6. ~(Start \/ FansRegistered \/ Serve \/ Stop \/ Drained \/ MainRestores \/ Exit \/ Kill)
    BY <1>3 DEF Start, FansRegistered, Serve, Stop, Serving, Drained, MainRestores, Exit,
       Kill, ProcessEnds
  <2>7. ~(ProbeRegisters \/ ProbeReturns \/ ProbeRestores \/ ProbePops)
    BY <2>0 DEF ProbeRegisters, ProbeReturns, ProbeRestores, ProbePops
  <2>8. \A c \in Range(ProbeList) : ~ProbeWrites(c)
    BY <2>0 DEF ProbeWrites
  <2>9. \A c \in Control : ~(ControllerTick(c) \/ ControllerLeaves(c) \/ SeeFailure(c))
    BY <1>3, <2>0 DEF ControllerTick, ControllerLeaves, Looping, SeeFailure, Serving
  <2>10. \A c \in Channel : ~(RegisterFan(c) \/ ReconcileChannel(c))
    BY <1>3 DEF RegisterFan, ReconcileChannel
  <2> QED BY <2>1, <2>2, <2>3, <2>4, <2>5, <2>6, <2>7, <2>8, <2>9, <2>10 DEF LifeNext
<1>4. MainRestores \/ main' = main \/ main' # "restoring"
  BY DEF LifeNext, lifeVars, process, Start, FansRegistered, Serve, Stop, Drained,
     MainRestores, Exit, Kill,
     ProcessEnds, ProbeRegisters, ProbeReturns, ProbeRestores, ProbePops, ProbeWrites, ControllerTick,
     ControllerLeaves, SeeFailure, RegisterFan, ReconcileChannel, SweepStarts, SweepWrites, SweepCleansUp,
     SweepPops, RestoreStep, RestoreTimesOut, RecoverStep, Machine
<1> QED BY <1>1, <1>2, <1>3, <1>4

\* What the start-up scan has passed stays freed: nobody drives a fan yet, and
\* the probe's restores write no manual mode to a chip that answers.
LEMMA SiblingStep ==
    ASSUME BaselineInv, ChipInv, StageInv, SiblingInv, LifeTypeOK, [LifeNext]_lifeVars
    PROVE  SiblingInv'
<1>0. TypeOK /\ EnablePath \subseteq Channel /\ Unmanaged \subseteq EnablePath
  BY ChannelAssumption DEF LifeTypeOK, Unmanaged
<1>1. CASE main' # "reconciling"
  BY <1>1 DEF SiblingInv
<1>2. CASE FansRegistered
  BY <1>2 DEF FansRegistered, SiblingInv
<1>3. CASE main = "reconciling" /\ main' = "reconciling"
  <2> DEFINE Freed(c) == enable[c] # Manual => enable'[c] # Manual
  <2>0. (\A c \in Channel : sweep[c] = "idle") /\ \A r \in Caller : call[r] = NoCall
    BY <1>3 DEF StageInv
  <2>1. ASSUME todo' = todo, \A c \in EnablePath : Answers(c) => Freed(c)
        PROVE  SiblingInv'
    BY <1>0, <1>3, <2>1 DEF SiblingInv
  <2>2. ASSUME NEW d \in Channel, ReconcileChannel(d) PROVE SiblingInv'
    <3>1. todo' = todo \ {d}
      BY <2>2 DEF ReconcileChannel
    <3>2. CASE enable[d] = Manual
      <4>1. RecoverChannel(d)
        BY <2>2, <3>2 DEF ReconcileChannel
      <4>2. ASSUME NEW c \in Unmanaged \ todo', Answers(c) PROVE enable'[c] # Manual
        <5>1. /\ d # c => enable'[c] = enable[c]
              /\ d = c => enable'[c] # Manual
          BY <1>0, <4>1, <4>2, RecoverFrees DEF Answers
        <5> QED BY <1>3, <3>1, <4>2, <5>1 DEF SiblingInv
      <4> QED BY <4>2 DEF SiblingInv
    <3>3. CASE enable[d] # Manual
      <4>1. enable' = enable
        BY <2>2, <3>3 DEF ReconcileChannel, vars
      <4> QED BY <1>3, <3>1, <3>3, <4>1 DEF SiblingInv
    <3> QED BY <3>2, <3>3
  <2>3. CASE ProbeRestores
    <3>1. PICK saved \in BOOLEAN : RestoreOne(Probed, saved)
      BY <2>3 DEF ProbeRestores
    <3>2. Probed \in Channel /\ Probed \in Range(ProbeList) /\ todo' = todo
      BY <2>3, PositionChannel DEF ProbeRestores, LifeTypeOK, Range, Probed
    <3>3. CASE Top(Probed) = 0
      BY <2>1, <3>1, <3>2, <3>3 DEF RestoreOne, chip
    <3>4. CASE Top(Probed) # 0
      <4>1. RestoreEntryEffect(entries[Top(Probed)], saved)
        BY <3>1, <3>4 DEF RestoreOne
      <4>2. /\ entries[Top(Probed)] \in Entry /\ entries[Top(Probed)] \in Baselines
            /\ entries[Top(Probed)].path = Probed
        BY <1>0, <3>2, <3>4, BaselineEntries
      <4>3. ASSUME NEW c \in EnablePath, Answers(c) PROVE Freed(c)
        BY <3>2, <4>1, <4>2, <4>3, RestoreKeepsFreed DEF Answers
      <4> QED BY <2>1, <3>2, <4>3
    <3> QED BY <3>3, <3>4
  <2>4. ASSUME NEW d \in Channel, RecoverStep(d) PROVE SiblingInv'
    <3>1. todo' = todo /\ RecoverChannel(d)
      BY <2>4 DEF RecoverStep
    <3>2. ASSUME NEW c \in EnablePath PROVE Freed(c)
      BY <1>0, <3>1, RecoverFrees
    <3> QED BY <2>1, <3>1, <3>2
  <2>5. CASE Machine
    <3>1. todo' = todo
      BY <2>5 DEF Machine, process
    <3>2. ASSUME NEW c \in EnablePath PROVE Freed(c)
      <4>1. CASE \E d \in Channel, m \in FirmwareMode : FirmwareReasserts(d, m)
        BY <1>0, <4>1, FirmwareFrees
      <4>2. CASE \E d \in Faulty, o \in IoOutcome : IoChanges(d, o)
        BY <4>2 DEF IoChanges
      <4> QED BY <2>5, <4>1, <4>2 DEF Machine
    <3> QED BY <2>1, <3>1, <3>2
  <2>6. ASSUME todo' = todo, enable' = enable PROVE SiblingInv'
    BY <2>1, <2>6
  <2>7. CASE ProbeRegisters \/ ProbeReturns \/ ProbePops
    BY <2>6, <2>7 DEF ProbeRegisters, Registers, Register, ProbeReturns, ProbePops,
       Deregister, chip, vars
  <2>8. ASSUME NEW c, ProbeWrites(c) PROVE SiblingInv'
    BY <2>6, <2>8 DEF ProbeWrites, WriteDuty, process
  <2>9. CASE UNCHANGED lifeVars
    BY <2>6, <2>9 DEF lifeVars, vars, process
  <2>10. ~(Start \/ FansRegistered \/ Serve \/ Stop \/ Drained \/ MainRestores \/ Exit \/ Kill)
    BY <1>3 DEF Start, FansRegistered, Serve, Stop, Serving, Drained, MainRestores, Exit,
       Kill, ProcessEnds
  <2>11. \A c \in Control : ~(ControllerTick(c) \/ ControllerLeaves(c) \/ SeeFailure(c))
    BY <1>3 DEF ControllerTick, ControllerLeaves, Looping, SeeFailure, Serving
  <2>12. \A c \in Channel : ~(RegisterFan(c) \/ SweepStarts(c) \/ SweepWrites(c) \/ SweepCleansUp(c) \/ SweepPops(c))
    BY <1>3, <2>0 DEF RegisterFan, SweepStarts, SweepWrites, SweepCleansUp, SweepPops
  <2>13. \A r \in Caller : ~(RestoreStep(r) \/ RestoreTimesOut(r))
    BY <2>0 DEF RestoreStep, RestoreEntry, RestoreSkip, RestoreDone, RestoreTimesOut,
       RestoreDeadline, NoCall
  <2> QED BY <2>2, <2>3, <2>4, <2>5, <2>7, <2>8, <2>9, <2>10, <2>11, <2>12,
             <2>13 DEF LifeNext
<1>4. FansRegistered \/ main' = main \/ main' # "reconciling"
  BY DEF LifeNext, lifeVars, process, Start, FansRegistered, Serve, Stop, Drained,
     MainRestores, Exit, Kill,
     ProcessEnds, ProbeRegisters, ProbeReturns, ProbeRestores, ProbePops, ProbeWrites, ControllerTick,
     ControllerLeaves, SeeFailure, RegisterFan, ReconcileChannel, SweepStarts, SweepWrites, SweepCleansUp,
     SweepPops, RestoreStep, RestoreTimesOut, RecoverStep, Machine
<1> QED BY <1>1, <1>2, <1>3, <1>4

\* Before the first start nobody drives and nothing is under way.
LEMMA ExitInvInit == LifeInit => ExitInv
<1> SUFFICES ASSUME LifeInit PROVE ExitInv
  OBVIOUS
<1>1. OwnInv
  BY OwnInvInit
<1>2. /\ main = "down" /\ (\A c \in Channel : sweep[c] = "idle" /\ io[c] = "ok")
      /\ \A r \in Caller : call[r] = NoCall
  BY DEF LifeInit, Init
<1> QED BY <1>1, <1>2 DEF ExitInv, ChipInv, StageInv, FinalInv, SiblingInv

\* Every step of the process keeps the invariant.
LEMMA ExitInvStep ==
    ASSUME ExitInv, BaselineInv, LifeTypeOK, LifeTypeOK', [LifeNext]_lifeVars
    PROVE  ExitInv'
<1>1. OwnInv'
  BY OwnInvStep DEF ExitInv
<1>2. ChipInv'
  BY LifeStepImplements, ChipStep DEF ExitInv, LifeTypeOK
<1>3. StageInv' /\ FinalInv' /\ SiblingInv'
  BY StageStep, FinalStep, SiblingStep DEF ExitInv
<1> QED BY <1>1, <1>2, <1>3 DEF ExitInv

\* The invariant, with what the watchdog's theorems say of the baselines.
LEMMA ExitInvHolds ==
    ASSUME SameDriver
    PROVE  LifeSpec => [](ExitInv /\ BaselineInv /\ LifeTypeOK)
<1>1. ExitInv /\ BaselineInv /\ LifeTypeOK /\ LifeTypeOK' /\ [LifeNext]_lifeVars => ExitInv'
  BY ExitInvStep
<1>2. TypeOK /\ NoManualBaseline /\ ModesInv /\ (\A e \in Baselines : Unreadable(e)) => BaselineInv
  BY DEF BaselineInv
<1>3. Spec => []BaselineInv
  BY <1>2, TypeCorrect, BaselinesNeverManual, ModesAreKnown, BaselinesReadable, PTL
<1> QED BY <1>1, <1>3, ExitInvInit, LifeTypeCorrect, LifeImplementsWatchdog,
           PTL DEF LifeSpec

\* An orderly exit hands every configured fan back, however its controllers,
\* sweeps, probe, restores and the firmware interleave (main.go's deferred
\* polarityWG.Wait and wd.Restore).
THEOREM ExitsHandBack ==
    ASSUME SameDriver
    PROVE  LifeSpec => ExitHandsBack
<1> DEFINE Step == Exit => \A c \in Fan \ late : Restorable(c) => ~HeldNow(c)
<1>1. ExitInv => [Step]_lifeVars
  BY DEF ExitInv, FinalInv, Handed, Exit
<1>2. LifeSpec => [][Step]_lifeVars
  BY <1>1, ExitInvHolds, PTL
<1> QED BY <1>2 DEF ExitHandsBack

\* No sibling that answers is in manual mode when the controllers start
\* (reconcile.go's ReconcileUnmanagedManual).
THEOREM SiblingsAreFreed ==
    ASSUME SameDriver
    PROVE  LifeSpec => NoStrandedSibling
<1> DEFINE Step == Serve => \A c \in EnablePath \ Control, k \in Control \cap EnablePath :
          Takes(c) /\ ChipOf(k) = ChipOf(c)
          /\ (c \in Range(ProbeList) => FirmwareMode \subseteq Accepts[c])
            => enable[c] # Manual
<1>1. ExitInv => [Step]_lifeVars
  BY DEF ExitInv, SiblingInv, Answers, Unmanaged, Serve
<1>2. LifeSpec => [][Step]_lifeVars
  BY <1>1, ExitInvHolds, PTL
<1> QED BY <1>2 DEF NoStrandedSibling

-----------------------------------------------------------------------------
(* Exits go on: what can be said of ExitEnds without fairness.             *)

Exiting == main \in {"draining", "joining", "restoring"}

\* How far run() has come with its exit, a call of RestoreCtx with its restores,
\* and the polarity goroutine with the channels of its list.
ExitStage(m) == CASE m = "draining" -> 0 [] m = "joining" -> 1 [] OTHER -> 2
CallStage(open) == CASE open = "idle" -> 0 [] open = "waiting" -> 1 [] OTHER -> 2
ProbeStage(p) ==
    CASE p.pc = "registering" -> p.at
      [] p.pc = "probing" -> Len(ProbeList) + 1
      [] p.pc = "restoring" -> Len(ProbeList) + 2 * p.at
      [] p.pc = "popping" -> Len(ProbeList) + 2 * p.at + 1
      [] OTHER -> 3 * Len(ProbeList) + 2

\* The steps that fairness asks for while the process ends.
ExitStep ==
    \/ \E c \in Control : ControllerLeaves(c)
    \/ \E r \in Caller : RestoreStep(r) \/ RestoreTimesOut(r)
    \/ ProbeRegisters \/ ProbeReturns \/ ProbeRestores \/ ProbePops
    \/ Drained \/ MainRestores \/ Exit

\* No call of RestoreCtx is taken back, and none gets a goroutine more.
CallGoesOn(r) ==
    /\ CallStage(call'[r].open) >= CallStage(call[r].open)
    /\ call[r].open # "idle" => call'[r].left \subseteq call[r].left

\* Whatever the controllers, sweeps, chips and firmware do while the process ends:
\* run(), each restore and the polarity goroutine only come nearer to their ends,
\* and each step that fairness asks for brings one of them nearer.
ExitMovesOn ==
    Exiting /\ main' # "down" =>
        /\ main' \in {"draining", "joining", "restoring"} /\ ExitStage(main') >= ExitStage(main)
        /\ ProbeStage(probe') >= ProbeStage(probe)
        /\ \A r \in Caller : CallGoesOn(r)
        /\ ExitStep => \/ ExitStage(main') > ExitStage(main)
                       \/ ProbeStage(probe') > ProbeStage(probe)
                       \/ \E r \in Caller :
                            \/ CallStage(call'[r].open) > CallStage(call[r].open)
                            \/ call'[r].left # call[r].left

ExitsMoveOn == [][ExitMovesOn]_lifeVars

\* A call that has not changed has not gone back.
LEMMA CallStays ==
    ASSUME TypeOK, NEW r \in Caller, call'[r] = call[r]
    PROVE  CallGoesOn(r)
BY DEF CallGoesOn, CallStage

\* A step of a restore brings it nearer to its end.
LEMMA CallNearer ==
    ASSUME TypeOK, NEW r \in Caller, RestoreStep(r) \/ RestoreTimesOut(r)
    PROVE  /\ CallGoesOn(r)
           /\ CallStage(call'[r].open) > CallStage(call[r].open) \/ call'[r].left # call[r].left
<1>0. call \in [Caller -> Call]
  BY DEF TypeOK
<1>1. CASE RestoreTimesOut(r) \/ RestoreDone(r)
  <2>1. call[r].open = "waiting" /\ call'[r].open = "returned" /\ call'[r].left = call[r].left
    BY <1>0, <1>1 DEF RestoreTimesOut, RestoreDeadline, RestoreDone, Call
  <2> QED BY <2>1 DEF CallGoesOn, CallStage
<1>2. ASSUME NEW i \in call[r].left, Finish(r, i)
      PROVE  /\ CallGoesOn(r) /\ call'[r].left # call[r].left
  <2>1. call'[r].open = call[r].open /\ call'[r].left = call[r].left \ {i}
    BY <1>0, <1>2 DEF Finish, Call
  <2>2. call[r].open \in {"idle", "waiting", "returned"}
    BY <1>0 DEF Call
  <2> QED BY <2>1, <2>2 DEF CallGoesOn, CallStage
<1>3. \/ RestoreTimesOut(r) \/ RestoreDone(r)
      \/ \E i \in call[r].left : Finish(r, i)
  BY DEF RestoreStep, RestoreEntry, RestoreSkip
<1> QED BY <1>1, <1>2, <1>3

\* A step of the polarity goroutine brings it nearer to its end.
LEMMA ProbeNearer ==
    ASSUME LifeTypeOK, ProbeRegisters \/ ProbeReturns \/ ProbeRestores \/ ProbePops
    PROVE  ProbeStage(probe') > ProbeStage(probe)
<1>1. /\ probe.pc \notin {"off", "done"} /\ probe \in [pc : ProbeState, at : Nat]
      /\ probe.at \in 1 .. Len(ProbeList) /\ Len(ProbeList) \in Nat
  BY LifecycleAssumption
     DEF ProbeRegisters, ProbeReturns, ProbeRestores, ProbePops, LifeTypeOK
<1>2. CASE ProbeRegisters
  <2>1. probe.pc = "registering"
        /\ \/ probe.at = Len(ProbeList) /\ probe' = [pc |-> "probing", at |-> 1]
           \/ probe.at # Len(ProbeList) /\ probe' = [probe EXCEPT !.at = @ + 1]
    BY <1>2 DEF ProbeRegisters, Advance
  <2>2. CASE probe' = [pc |-> "probing", at |-> 1]
    BY <1>1, <2>1, <2>2 DEF ProbeStage
  <2>3. CASE probe' = [probe EXCEPT !.at = @ + 1]
    <3>1. probe'.pc = "registering" /\ probe'.at = probe.at + 1
      BY <1>1, <2>1, <2>3
    <3> QED BY <1>1, <2>1, <3>1 DEF ProbeStage
  <2> QED BY <2>1, <2>2, <2>3
<1>3. CASE ProbeReturns
  <2>1. probe.pc = "probing" /\ probe'.pc = "restoring" /\ probe'.at = 1
    BY <1>3 DEF ProbeReturns
  <2> QED BY <1>1, <2>1 DEF ProbeStage
<1>4. CASE ProbeRestores
  <2>1. probe.pc = "restoring" /\ probe'.pc = "popping" /\ probe'.at = probe.at
    BY <1>1, <1>4 DEF ProbeRestores
  <2> QED BY <1>1, <2>1 DEF ProbeStage
<1>5. CASE ProbePops
  <2>1. probe.pc = "popping"
        /\ \/ probe'.pc = "restoring" /\ probe'.at = probe.at + 1
           \/ probe'.pc = "done"
    BY <1>5 DEF ProbePops
  <2> QED BY <1>1, <2>1 DEF ProbeStage
<1> QED BY <1>2, <1>3, <1>4, <1>5

\* A probe that has not moved has not gone back.
LEMMA ProbeStageKept ==
    ASSUME LifeTypeOK, probe' = probe
    PROVE  ProbeStage(probe') >= ProbeStage(probe)
<1>1. Len(ProbeList) \in Nat /\ probe \in [pc : ProbeState, at : Nat]
  BY LifecycleAssumption DEF LifeTypeOK
<1>2. ProbeStage(probe) \in Int
  BY <1>1 DEF ProbeStage
<1> QED BY <1>2

\* What stays where it is has gone on, if that is all that fairness asks for.
LEMMA ExitStays ==
    ASSUME LifeTypeOK, Exiting, main' = main, probe' = probe
    PROVE  /\ main' \in {"draining", "joining", "restoring"} /\ ExitStage(main') >= ExitStage(main)
           /\ ProbeStage(probe') >= ProbeStage(probe)
<1>1. ExitStage(main) \in Int
  BY DEF ExitStage
<1> QED BY <1>1, ProbeStageKept DEF Exiting

\* A step that fairness asks for, and what it brings nearer.
LEMMA FairStep ==
    ASSUME LifeTypeOK, Exiting, main' # "down", ExitStep
    PROVE  /\ main' \in {"draining", "joining", "restoring"} /\ ExitStage(main') >= ExitStage(main)
           /\ ProbeStage(probe') >= ProbeStage(probe)
           /\ \A r \in Caller : CallGoesOn(r)
           /\ \/ ExitStage(main') > ExitStage(main)
              \/ ProbeStage(probe') > ProbeStage(probe)
              \/ \E r \in Caller :
                   \/ CallStage(call'[r].open) > CallStage(call[r].open)
                   \/ call'[r].left # call[r].left
<1>0. TypeOK /\ call \in [Caller -> Call]
  BY DEF LifeTypeOK, TypeOK
<1>1. ASSUME NEW c \in Caller, RestoreCall(c)
      PROVE  /\ \A r \in Caller : CallGoesOn(r)
             /\ CallStage(call'[c].open) > CallStage(call[c].open)
  <2>1. call[c].open = "idle" /\ call'[c].open \in {"waiting", "returned"}
        /\ \A r \in Caller : r # c => call'[r] = call[r]
    BY <1>0, <1>1 DEF RestoreCall, NoCall
  <2>2. CallGoesOn(c) /\ CallStage(call'[c].open) > CallStage(call[c].open)
    BY <2>1 DEF CallGoesOn, CallStage
  <2> QED BY <1>0, <2>1, <2>2, CallStays
<1>2. ASSUME NEW c \in Control, ControllerLeaves(c)
      PROVE  main' = main /\ probe' = probe /\ RestoreCall(c) /\ c \in Caller
  BY <1>2, LifecycleAssumption DEF ControllerLeaves, process
<1>3. ASSUME NEW c \in Caller, RestoreStep(c) \/ RestoreTimesOut(c)
      PROVE  /\ main' = main /\ probe' = probe
             /\ \A r \in Caller : CallGoesOn(r)
             /\ CallStage(call'[c].open) > CallStage(call[c].open) \/ call'[c].left # call[c].left
  <2>1. main' = main /\ probe' = probe /\ \A r \in Caller : r # c => call'[r] = call[r]
    BY <1>0, <1>3, CallStep
  <2> QED BY <1>0, <1>3, <2>1, CallNearer, CallStays
<1>4. CASE \E c \in Control : ControllerLeaves(c)
  BY <1>1, <1>2, <1>4, ExitStays
<1>5. CASE \E c \in Caller : RestoreStep(c) \/ RestoreTimesOut(c)
  BY <1>3, <1>5, ExitStays
<1>6. CASE ProbeRegisters \/ ProbeReturns \/ ProbeRestores \/ ProbePops
  <2>1. main' = main /\ call' = call
    BY <1>6 DEF ProbeRegisters, Registers, Register, ProbeReturns, ProbeRestores, RestoreOne,
       ProbePops, Deregister, vars
  <2>2. ProbeStage(probe') > ProbeStage(probe)
    BY <1>6, ProbeNearer
  <2>3. main' \in {"draining", "joining", "restoring"} /\ ExitStage(main') >= ExitStage(main)
    BY <2>1 DEF Exiting, ExitStage
  <2>4. ProbeStage(probe') \in Int /\ ProbeStage(probe) \in Int
    <3>1. LifeTypeOK'
      BY <1>6, LifeTypeStep DEF LifeNext
    <3> QED BY <3>1, LifecycleAssumption DEF ProbeStage, LifeTypeOK
  <2> QED BY <1>0, <2>1, <2>2, <2>3, <2>4, CallStays
<1>7. CASE Drained
  <2>1. main = "draining" /\ main' = "joining" /\ probe' = probe /\ call' = call
    BY <1>7 DEF Drained, vars
  <2> QED BY <1>0, <2>1, CallStays, ProbeStageKept DEF ExitStage
<1>8. CASE MainRestores
  <2>1. main = "joining" /\ main' = "restoring" /\ probe' = probe /\ RestoreCall(Main) /\ Main \in Caller
    BY <1>8, LifecycleAssumption DEF MainRestores
  <2> QED BY <1>1, <2>1, ProbeStageKept DEF ExitStage
<1>9. CASE Exit
  BY <1>9 DEF Exit, ProcessEnds
<1> QED BY <1>4, <1>5, <1>6, <1>7, <1>8, <1>9 DEF ExitStep

\* The steps that fairness does not ask for take nothing back.
LEMMA OtherStep ==
    ASSUME LifeTypeOK, Exiting, main' # "down", ~ExitStep, [LifeNext]_lifeVars
    PROVE  main' = main /\ probe' = probe /\ call' = call
<1>1. CASE Start \/ FansRegistered \/ Serve \/ Stop \/ \E c \in Control : SeeFailure(c)
  BY <1>1 DEF Start, FansRegistered, Serve, Stop, SeeFailure, Serving, Exiting
<1>2. ASSUME NEW c \in Channel, RegisterFan(c) \/ ReconcileChannel(c) PROVE FALSE
  BY <1>2 DEF RegisterFan, ReconcileChannel, Exiting
<1>3. ASSUME NEW c \in Control, ControllerTick(c) PROVE main' = main /\ probe' = probe /\ call' = call
  BY <1>3 DEF ControllerTick, Drive, TakeManual, WriteDuty, process
<1>4. ASSUME NEW c, ProbeWrites(c) PROVE main' = main /\ probe' = probe /\ call' = call
  BY <1>4 DEF ProbeWrites, WriteDuty, process
<1>5. ASSUME NEW c \in Channel, SweepStarts(c) \/ SweepWrites(c) \/ SweepCleansUp(c) \/ SweepPops(c)
      PROVE  main' = main /\ probe' = probe /\ call' = call
  BY <1>5 DEF SweepStarts, Registers, Register, SweepWrites, SweepCleansUp, SweepPops, Drive, TakeManual,
     WriteDuty, Deregister, vars
<1>6. CASE Kill
  BY <1>6 DEF Kill, ProcessEnds
<1>7. ASSUME NEW c \in Channel, RecoverStep(c) PROVE main' = main /\ probe' = probe /\ call' = call
  BY <1>7 DEF RecoverStep, RecoverChannel
<1>8. CASE Machine
  BY <1>8 DEF Machine, FirmwareReasserts, IoChanges, process
<1>9. CASE UNCHANGED lifeVars
  BY <1>9 DEF lifeVars, vars, process
<1> QED BY <1>1, <1>2, <1>3, <1>4, <1>5, <1>6, <1>7, <1>8, <1>9 DEF LifeNext, ExitStep

\* What every step does to an exit.
LEMMA ExitMoves == LifeTypeOK /\ [LifeNext]_lifeVars => ExitMovesOn
<1> SUFFICES ASSUME LifeTypeOK, [LifeNext]_lifeVars, Exiting, main' # "down"
             PROVE  /\ main' \in {"draining", "joining", "restoring"} /\ ExitStage(main') >= ExitStage(main)
                    /\ ProbeStage(probe') >= ProbeStage(probe)
                    /\ \A r \in Caller : CallGoesOn(r)
                    /\ ExitStep => \/ ExitStage(main') > ExitStage(main)
                                   \/ ProbeStage(probe') > ProbeStage(probe)
                                   \/ \E r \in Caller :
                                        \/ CallStage(call'[r].open) > CallStage(call[r].open)
                                        \/ call'[r].left # call[r].left
  BY DEF ExitMovesOn
<1>1. CASE ExitStep
  BY <1>1, FairStep
<1>2. CASE ~ExitStep
  <2>1. main' = main /\ probe' = probe /\ call' = call
    BY <1>2, OtherStep
  <2> QED BY <1>2, <2>1, ExitStays, CallStays DEF LifeTypeOK
<1> QED BY <1>1, <1>2

\* An exit that has begun is one way: no controller comes back after its restore,
\* no restore gets more to do, the polarity goroutine goes through its list once,
\* and run() waits for each of them in turn.  Every step that the scheduler or the
\* restore budget owes brings one of them nearer to its end, however many fans,
\* restores and sweeps there are.
THEOREM ExitsGoOn == LifeSpec => ExitsMoveOn
<1>1. LifeTypeOK /\ [LifeNext]_lifeVars => [ExitMovesOn]_lifeVars
  BY ExitMoves
<1> QED BY <1>1, LifeTypeCorrect, PTL DEF LifeSpec, ExitsMoveOn

-----------------------------------------------------------------------------
(* The abstract promise.                                                   *)

\* The fans FanAuthority speaks of.
Answering == {c \in EnablePath : Restorable(c)}

\* A step of the abstract promise, or one that leaves it alone.
AuthorityKept == [Authority!Next]_(Authority!authority)

\* A step that changes who holds at most one fan, and takes a fan only for a
\* process that runs.
LEMMA OneChanges ==
    ASSUME NEW d, \A c \in Answering : c # d => (HeldNow(c)' <=> HeldNow(c)),
           main' = "down" <=> main = "down",
           {c \in recover' : Restorable(c)} = {c \in recover : Restorable(c)},
           d \in Answering /\ HeldNow(d)' => HeldNow(d) \/ main # "down"
    PROVE  AuthorityKept
<1> DEFINE own == [c \in Answering |->
               IF ~HeldNow(c) THEN "firmware"
               ELSE IF main = "down" THEN "orphan" ELSE "ventd"]
<1>1. /\ own' = [c \in Answering |-> IF ~HeldNow(c)' THEN "firmware" ELSE IF main' = "down" THEN "orphan" ELSE "ventd"]
  OBVIOUS
<1>2. CASE d \notin Answering \/ (HeldNow(d)' <=> HeldNow(d))
  <2>1. own' = own
    BY <1>1, <1>2
  <2> QED BY <2>1 DEF AuthorityKept, Authority!authority, Answering
<1>3. CASE d \in Answering /\ ~HeldNow(d)'
  <2>1. own' = [own EXCEPT ![d] = "firmware"]
    BY <1>1, <1>3
  <2>2. Authority!Release(d)
    BY <2>1 DEF Authority!Release, Answering
  <2> QED BY <1>3, <2>2 DEF AuthorityKept, Authority!Next, Answering
<1>4. CASE d \in Answering /\ HeldNow(d)' /\ ~HeldNow(d)
  <2>1. main # "down" /\ own' = [own EXCEPT ![d] = "ventd"]
    BY <1>1, <1>4
  <2>2. Authority!Take(d)
    BY <2>1 DEF Authority!Take, Answering
  <2> QED BY <1>4, <2>2 DEF AuthorityKept, Authority!Next, Answering
<1> QED BY <1>2, <1>3, <1>4

\* A step that changes neither the chips nor who is owed a handback.
LEMMA NobodyChanges ==
    ASSUME UNCHANGED <<enable, duty, recover>>, main' = "down" <=> main = "down"
    PROVE  AuthorityKept
<1>1. \A c \in Answering : HeldNow(c)' <=> HeldNow(c)
  BY DEF HeldNow
<1>2. CASE Answering = {}
  BY <1>2, OneChanges
<1>3. CASE Answering # {}
  <2>1. PICK d \in Answering : TRUE
    BY <1>3
  <2> QED BY <1>1, <2>1, OneChanges
<1> QED BY <1>2, <1>3

\* A writer takes a fan while the process runs.
LEMMA DriveTakes ==
    ASSUME TypeOK, NEW d \in Channel, Drive(d), main # "down", UNCHANGED <<main, recover>>
    PROVE  AuthorityKept
<1>1. ASSUME NEW c \in Answering, c # d PROVE HeldNow(c)' <=> HeldNow(c)
  BY <1>1, DriveHolds, ChannelAssumption DEF HeldNow, Answering
<1> QED BY <1>1, OneChanges

\* A restore only releases fans.
LEMMA RestoreReleases ==
    ASSUME BaselineInv, ChipInv, NEW e \in Entry, e \in Baselines, NEW saved \in BOOLEAN,
           RestoreEntryEffect(e, saved), UNCHANGED <<main, recover>>
    PROVE  AuthorityKept
<1>1. ASSUME NEW c \in Answering, c # e.path PROVE HeldNow(c)' <=> HeldNow(c)
  BY <1>1, RestoreFrees, ChannelAssumption DEF HeldNow, Answering
<1>2. ASSUME e.path \in Answering PROVE ~HeldNow(e.path)'
  BY <1>2, RestoreFrees, ChannelAssumption DEF Answering
<1> QED BY <1>1, <1>2, OneChanges

\* So does the handback of ventd-recover or of the start-up scan.
LEMMA RecoverReleases ==
    ASSUME TypeOK, ChipInv, NEW d \in Channel, RecoverChannel(d), UNCHANGED main,
           recover' = recover \/ recover' = recover \ {d}
    PROVE  AuthorityKept \/ (d \in recover /\ d \in Answering /\ recover' = recover \ {d})
<1>0. ASSUME NEW c \in Answering, c # d PROVE HeldNow(c)' <=> HeldNow(c)
  BY <1>0, RecoverFrees, ChannelAssumption DEF HeldNow, Answering
<1>1. ASSUME d \in Answering PROVE ~HeldNow(d)'
  BY <1>1, RecoverFrees, ChannelAssumption DEF HeldNow, Held, Answering, Restorable
<1>2. d \in EnablePath
  BY DEF RecoverChannel
<1>3. CASE recover' = recover \/ d \notin recover \/ ~Restorable(d)
  <2>1. {c \in recover' : Restorable(c)} = {c \in recover : Restorable(c)}
    BY <1>3
  <2> QED BY <1>0, <1>1, <2>1, OneChanges
<1>4. CASE recover' # recover /\ d \in recover /\ Restorable(d)
  BY <1>2, <1>4 DEF Answering
<1> QED BY <1>3, <1>4

\* ventd-recover pays what it owes.
LEMMA RecoverPays ==
    ASSUME TypeOK, ChipInv, NEW d \in Answering, RecoverChannel(d), UNCHANGED main,
           d \in recover, recover' = recover \ {d}
    PROVE  AuthorityKept
<1> DEFINE own == [c \in Answering |->
               IF ~HeldNow(c) THEN "firmware"
               ELSE IF main = "down" THEN "orphan" ELSE "ventd"]
           due == {c \in recover : Restorable(c)}
<1>1. ASSUME NEW c \in Answering, c # d PROVE HeldNow(c)' <=> HeldNow(c)
  BY <1>1, RecoverFrees, ChannelAssumption DEF HeldNow, Answering
<1>2. own' = [own EXCEPT ![d] = "firmware"]
  <2>1. ~HeldNow(d)'
    BY RecoverFrees, ChannelAssumption DEF HeldNow, Held, Answering, Restorable
  <2> QED BY <1>1, <2>1
<1>3. d \in due /\ due' = due \ {d}
  BY DEF Answering
<1>4. Authority!HandBack(d)
  BY <1>2, <1>3 DEF Authority!HandBack, Answering
<1> QED BY <1>4 DEF AuthorityKept, Authority!Next, Answering

\* A start adopts what an earlier process left.
LEMMA StartBoots ==
    ASSUME Start
    PROVE  AuthorityKept
<1> DEFINE own == [c \in Answering |->
               IF ~HeldNow(c) THEN "firmware"
               ELSE IF main = "down" THEN "orphan" ELSE "ventd"]
<1>1. main = "down" /\ main' = "registering" /\ UNCHANGED <<enable, duty, recover>>
  BY DEF Start, vars
<1>2. \A c \in Answering : HeldNow(c)' <=> HeldNow(c)
  BY <1>1 DEF HeldNow
<1>3. own' = [c \in Answering |-> IF own[c] = "orphan" THEN "ventd" ELSE own[c]]
  BY <1>1, <1>2
<1>4. Authority!Boot
  BY <1>1, <1>3 DEF Authority!Boot, Authority!Adopted, Answering
<1> QED BY <1>4 DEF AuthorityKept, Authority!Next

\* An exit or a kill: whom the daemon does not hand back, recovery does.
LEMMA EndLeaves ==
    ASSUME ExitInv, LifeTypeOK, Exit \/ Kill
    PROVE  AuthorityKept
<1> DEFINE own == [c \in Answering |->
               IF ~HeldNow(c) THEN "firmware"
               ELSE IF main = "down" THEN "orphan" ELSE "ventd"]
<1>1. main # "down" /\ main' = "down" /\ UNCHANGED <<enable, duty>>
  BY DEF Exit, Kill, ProcessEnds, ProcessDies, chip
<1>2. \A c \in Answering : HeldNow(c)' <=> HeldNow(c)
  BY <1>1 DEF HeldNow
<1>3. own' = [c \in Answering |-> IF own[c] = "ventd" THEN "orphan" ELSE own[c]]
  BY <1>1, <1>2
<1>4. CASE recover' = EnablePath
  <2>1. {c \in recover' : Restorable(c)} = Answering
    BY <1>4 DEF Answering
  <2>2. Authority!Die
    BY <1>1, <1>3, <2>1 DEF Authority!Die, Authority!Orphaned, Answering
  <2> QED BY <2>2 DEF AuthorityKept, Authority!Next
<1>5. CASE Exit /\ recover' = recover
  <2>1. \A c \in Answering \ (late \cup (Channel \ Fan)) : ~HeldNow(c)
    BY <1>5, ChannelAssumption DEF ExitInv, FinalInv, Handed, Exit, Answering
  <2>2. \A c \in Answering \ (late \cup (Channel \ Fan)) : own[c] = "firmware"
    BY <2>1
  <2>3. Authority!Leave
    BY <1>1, <1>3, <1>5, <2>2 DEF Authority!Leave, Authority!Orphaned, Answering
  <2> QED BY <2>3 DEF AuthorityKept, Authority!Next
<1> QED BY <1>4, <1>5 DEF Exit, Kill

\* Each action of the process, as the promise sees it.
LEMMA AuthorityStep ==
    ASSUME ExitInv, BaselineInv, LifeTypeOK, [LifeNext]_lifeVars
    PROVE  AuthorityKept
<1>0. /\ TypeOK /\ ChipInv /\ OwnInv /\ StageInv /\ Control \subseteq Channel
      /\ \A c \in Range(ProbeList) : c \in Channel
  BY LifecycleAssumption, ListChannels DEF LifeTypeOK, ExitInv
<1>1. CASE Start
  BY <1>1, StartBoots
<1>2. CASE FansRegistered \/ Serve \/ Stop \/ Drained
  BY <1>2, NobodyChanges DEF FansRegistered, Serve, Stop, Drained, Serving, vars
<1>3. CASE MainRestores
  BY <1>3, NobodyChanges DEF MainRestores, RestoreCall, chip
<1>4. ASSUME NEW c \in Channel, RegisterFan(c) PROVE AuthorityKept
  BY <1>4, NobodyChanges DEF RegisterFan, Registers, Register, chip
<1>5. ASSUME NEW c \in Channel, ReconcileChannel(c) PROVE AuthorityKept
  <2>1. CASE enable[c] = Manual
    BY <1>0, <1>5, <2>1, RecoverReleases, RecoverPays DEF ReconcileChannel
  <2>2. CASE enable[c] # Manual
    BY <1>5, <2>2, NobodyChanges DEF ReconcileChannel, vars
  <2> QED BY <2>1, <2>2
<1>6. ASSUME NEW c \in Control, ControllerTick(c) PROVE AuthorityKept
  BY <1>0, <1>6, DriveTakes DEF ControllerTick, Looping, process
<1>7. ASSUME NEW c \in Control, ControllerLeaves(c) \/ SeeFailure(c) PROVE AuthorityKept
  BY <1>7, NobodyChanges DEF ControllerLeaves, SeeFailure, Serving, RestoreCall, chip,
     vars, process
<1>8. CASE ProbeRegisters \/ ProbeReturns \/ ProbePops
  BY <1>8, NobodyChanges DEF ProbeRegisters, Registers, Register, ProbeReturns,
     ProbePops, Deregister, chip, vars
<1>9. CASE ProbeRestores
  <2>1. PICK saved \in BOOLEAN : RestoreOne(Probed, saved)
    BY <1>9 DEF ProbeRestores
  <2>2. Probed \in Channel /\ UNCHANGED <<main, recover>>
    BY <1>9, PositionChannel DEF ProbeRestores
  <2>3. CASE Top(Probed) = 0
    BY <2>1, <2>2, <2>3, NobodyChanges DEF RestoreOne, chip
  <2>4. CASE Top(Probed) # 0
    BY <1>0, <2>1, <2>2, <2>4, BaselineEntries, RestoreReleases DEF RestoreOne
  <2> QED BY <2>3, <2>4
<1>10. ASSUME NEW c \in Range(ProbeList), ProbeWrites(c) PROVE AuthorityKept
  <2>1. c \in Channel /\ Drive(c) /\ UNCHANGED <<main, recover>> /\ main # "down"
    BY <1>0, <1>10 DEF ProbeWrites, Drive, process, OwnInv
  <2> QED BY <1>0, <2>1, DriveTakes
<1>11. ASSUME NEW c \in Channel, SweepStarts(c) \/ SweepPops(c) PROVE AuthorityKept
  BY <1>11, NobodyChanges DEF SweepStarts, Registers, Register, SweepPops, Deregister,
     chip
<1>12. ASSUME NEW c \in Channel, SweepWrites(c) \/ SweepCleansUp(c) PROVE AuthorityKept
  <2>1. UNCHANGED <<main, recover>> /\ main # "down" /\ (Drive(c) \/ UNCHANGED vars)
    BY <1>0, <1>12 DEF SweepWrites, SweepCleansUp, StageInv
  <2>2. CASE Drive(c)
    BY <1>0, <2>1, <2>2, DriveTakes
  <2>3. CASE UNCHANGED vars
    BY <2>1, <2>3, NobodyChanges DEF vars
  <2> QED BY <2>1, <2>2, <2>3
<1>13. CASE Exit \/ Kill
  BY <1>13, EndLeaves
<1>14. ASSUME NEW r \in Caller, RestoreStep(r) \/ RestoreTimesOut(r) PROVE AuthorityKept
  <2>1. UNCHANGED <<main, recover>>
    BY <1>0, <1>14, CallStep
  <2>2. ASSUME NEW i \in call[r].left, NEW saved \in BOOLEAN, RestoreEntry(r, i, saved) PROVE AuthorityKept
    BY <1>0, <2>1, <2>2, BaselineEntries, RestoreReleases DEF RestoreEntry
  <2>3. CASE RestoreDone(r) \/ RestoreDeadline(r) \/ \E i \in call[r].left : RestoreSkip(r, i)
    BY <2>1, <2>3, NobodyChanges DEF RestoreDone, RestoreDeadline, RestoreSkip, chip
  <2> QED BY <1>14, <2>2, <2>3 DEF RestoreStep, RestoreTimesOut
<1>15. ASSUME NEW c \in Channel, RecoverStep(c) PROVE AuthorityKept
  BY <1>0, <1>15, RecoverReleases, RecoverPays DEF RecoverStep
<1>16. CASE Machine
  <2>1. UNCHANGED <<main, recover>>
    BY <1>16 DEF Machine, process
  <2>2. ASSUME NEW d \in Channel, NEW m \in FirmwareMode, FirmwareReasserts(d, m) PROVE AuthorityKept
    <3>1. ASSUME NEW c \in Answering, c # d PROVE HeldNow(c)' <=> HeldNow(c)
      BY <1>0, <2>2, <3>1, ChannelAssumption DEF FirmwareReasserts, TypeOK, HeldNow,
         Answering
    <3>2. HeldNow(d)' => HeldNow(d)
      BY <1>0, <2>2, FirmwareFrees
    <3> QED BY <2>1, <3>1, <3>2, OneChanges
  <2>3. ASSUME NEW d \in Faulty, NEW o \in IoOutcome, IoChanges(d, o) PROVE AuthorityKept
    BY <2>1, <2>3, NobodyChanges DEF IoChanges
  <2> QED BY <1>16, <2>2, <2>3 DEF Machine
<1>17. CASE UNCHANGED lifeVars
  BY <1>17, NobodyChanges DEF lifeVars, vars, process
<1> QED BY <1>1, <1>2, <1>3, <1>4, <1>5, <1>6, <1>7, <1>8, <1>9, <1>10, <1>11, <1>12,
           <1>13, <1>14, <1>15,
           <1>16, <1>17 DEF LifeNext

\* Every step of the daemon is a step of the abstract promise or leaves it
\* alone: a fan is orphaned only by an end of the process that owes it a
\* handback, and an orderly exit orphans no fan it answers for.
THEOREM AuthorityIsKept ==
    ASSUME SameDriver
    PROVE  LifeSpec => Authority!Init /\ [][Authority!Next]_(Authority!authority)
<1>1. LifeInit => Authority!Init
  BY ChannelAssumption DEF LifeInit, Init, Authority!Init, HeldNow, Held
<1>2. ExitInv /\ BaselineInv /\ LifeTypeOK /\ [LifeNext]_lifeVars => [Authority!Next]_(Authority!authority)
  BY AuthorityStep DEF AuthorityKept
<1> QED BY <1>1, <1>2, ExitInvHolds, PTL DEF LifeSpec
=============================================================================
