----------------------------- MODULE TicksProofs -----------------------------
(***************************************************************************)
(* What holds of the ticks of a controller and of the scheduler, for any   *)
(* duties, levels, curves and configurations, and for any profiles,        *)
(* windows and length of a day and a week.                                 *)
(***************************************************************************)
EXTENDS MCTicks, FiniteSetTheorems, WellFoundedInduction, TLAPS

-----------------------------------------------------------------------------
(* Windows and winners.                                                    *)

\* A set of numbers that is not empty has a smallest.
LEMMA Smallest ==
    ASSUME NEW S, S \subseteq Nat, S # {}
    PROVE  \E k \in S : \A n \in S : k <= n
<1> DEFINE below == {p \in Nat \X Nat : p[1] < p[2]}
<1>1. IsWellFoundedOn(below, Nat)
  BY NatLessThanWellFounded DEF OpToRel
<1>2. PICK k \in S : \A n \in S : <<n, k>> \notin below
  <2> HIDE DEF below
  <2> QED BY <1>1, WFMin
<1>3. ASSUME NEW n \in S
      PROVE  k <= n
  <2>1. n < k => <<n, k>> \in below
    OBVIOUS
  <2>2. <<n, k>> \notin below
    BY <1>2
  <2> QED BY <2>1, <2>2
<1> QED BY <1>3

\* A function of numbers takes a smallest value on a set that is not empty.
LEMMA SmallestAt ==
    ASSUME NEW M, M # {}, NEW f, f \in [M -> Nat]
    PROVE  \E p \in M : \A q \in M : f[p] <= f[q]
<1> DEFINE S == {f[p] : p \in M}
<1>1. S \subseteq Nat /\ S # {}
  OBVIOUS
<1>2. PICK k \in S : \A n \in S : k <= n
  <2> HIDE DEF S
  <2> QED BY <1>1, Smallest
<1> QED BY <1>2

\* A window has days to count and minutes to last.
LEMMA WindowMeasures ==
    ASSUME NEW w \in Windows
    PROVE  Cardinality(w.days) \in Nat /\ DurationMin(w) \in Nat
<1>1. w \in [start : 0 .. DayLen - 1, end : 0 .. DayLen - 1, days : SUBSET (0 .. WeekDays - 1)]
  BY ScheduleAssumption
<1>2. IsFiniteSet(w.days)
  <2>1. 0 \in Int /\ WeekDays - 1 \in Int
    BY ScheduleAssumption
  <2>2. IsFiniteSet(0 .. WeekDays - 1)
    BY <2>1, FS_Interval
  <2> QED BY <1>1, <2>2, FS_Subset
<1>3. Cardinality(w.days) \in Nat
  BY <1>2, FS_CardinalityType
<1>4. DurationMin(w) \in Nat
  BY <1>1, ScheduleAssumption DEF DurationMin, Wraps
<1> QED BY <1>3, <1>4

\* The tiebreak has an answer: of some profiles that have a window each, one
\* beats every other (computeWinner).
LEMMA SomeoneWins ==
    ASSUME NEW s \in [Profiles -> Windows \cup {Unscheduled}],
           NEW M, M \subseteq Profiles \ Fallbacks(s), M # {}
    PROVE  \E p \in M : \A q \in M \ {p} : Beats(s, p, q)
<1> DEFINE days == [p \in M |-> Cardinality(s[p].days)]
           A == {p \in M : \A q \in M : days[p] <= days[q]}
           lasts == [p \in A |-> DurationMin(s[p])]
           B == {p \in A : \A q \in A : lasts[p] <= lasts[q]}
<1>1. \A p \in M : Cardinality(s[p].days) \in Nat /\ DurationMin(s[p]) \in Nat
  BY WindowMeasures DEF Fallbacks
<1>2. A # {}
  <2>1. days \in [M -> Nat]
    BY <1>1
  <2> HIDE DEF days
  <2> QED BY <2>1, SmallestAt
<1>3. B # {}
  <2>1. lasts \in [A -> Nat]
    BY <1>1
  <2> HIDE DEF lasts, A
  <2> QED BY <1>2, <2>1, SmallestAt
<1>4. PICK p \in B : \A q \in B : p <= q
  <2>1. B \subseteq Nat
    BY ScheduleAssumption
  <2> HIDE DEF B
  <2> QED BY <1>3, <2>1, Smallest
<1>5. ASSUME NEW q \in M \ {p}
      PROVE  Beats(s, p, q)
  <2>1. days[p] <= days[q] /\ {days[p], days[q]} \subseteq Nat
    BY <1>1
  <2>2. CASE days[p] < days[q]
    BY <2>2 DEF Beats
  <2>3. CASE days[p] = days[q]
    <3>1. q \in A
      BY <2>3
    <3>2. lasts[p] <= lasts[q] /\ {lasts[p], lasts[q]} \subseteq Nat
      BY <1>1, <3>1
    <3>3. lasts[p] = lasts[q] => q \in B
      BY <3>1, <3>2
    <3>4. lasts[p] = lasts[q] => p < q
      <4>1. {p, q} \subseteq Nat
        BY ScheduleAssumption
      <4> HIDE DEF B, lasts
      <4> QED BY <1>4, <3>3, <4>1
    <3>5. /\ Cardinality(s[p].days) = Cardinality(s[q].days)
          /\ DurationMin(s[p]) <= DurationMin(s[q])
          /\ DurationMin(s[p]) = DurationMin(s[q]) => p < q
      <4>1. /\ days[p] = Cardinality(s[p].days) /\ days[q] = Cardinality(s[q].days)
            /\ lasts[p] = DurationMin(s[p]) /\ lasts[q] = DurationMin(s[q])
        BY <3>1
      <4>2. {p, q} \subseteq Nat
        BY ScheduleAssumption
      <4> HIDE DEF days, lasts
      <4>3. Cardinality(s[p].days) = Cardinality(s[q].days)
        BY <2>3, <4>1
      <4>4. DurationMin(s[p]) <= DurationMin(s[q])
        BY <3>2, <4>1
      <4> QED BY <3>4, <4>1, <4>3, <4>4
    <3>6. DurationMin(s[p]) \in Nat /\ DurationMin(s[q]) \in Nat
      BY <1>1
    <3> QED BY <3>5, <3>6 DEF Beats
  <2> QED BY <2>1, <2>2, <2>3
<1> QED BY <1>5

\* Whoever the schedule names is a profile, or nobody.
LEMMA WinnerIsKnown ==
    ASSUME NEW s \in [Profiles -> Windows \cup {Unscheduled}], NEW t
    PROVE  ActiveProfile(s, t) \in Wish
<1> DEFINE matches == {p \in Profiles \ Fallbacks(s) : Matches(s[p], t)}
<1>1. matches # {} => (CHOOSE p \in matches : \A q \in matches \ {p} : Beats(s, p, q)) \in matches
  <2>1. matches \subseteq Profiles \ Fallbacks(s)
    OBVIOUS
  <2> HIDE DEF matches
  <2> QED BY <2>1, SomeoneWins
<1>2. Fallbacks(s) # {} => Min(Fallbacks(s)) \in Fallbacks(s)
  <2>1. Fallbacks(s) \subseteq Nat
    BY ScheduleAssumption DEF Fallbacks
  <2> QED BY <2>1, Smallest DEF Min
<1>3. matches \subseteq Profiles /\ Fallbacks(s) \subseteq Profiles
  BY DEF Fallbacks
<1>4. ActiveProfile(s, t) = IF matches # {}
         THEN CHOOSE p \in matches : \A q \in matches \ {p} : Beats(s, p, q)
         ELSE IF Fallbacks(s) # {} THEN Min(Fallbacks(s)) ELSE NoProfile
  BY DEF ActiveProfile
<1> HIDE DEF matches
<1> QED BY <1>1, <1>2, <1>3, <1>4 DEF Wish

-----------------------------------------------------------------------------
(* A window covers the minutes from its start, as many as it lasts.        *)

\* A number is its quotient's multiples and its remainder.
LEMMA QuotientAndRest ==
    ASSUME NEW D \in Nat \ {0}, NEW t \in Nat
    PROVE  t = (t \div D) * D + (t % D) /\ t \div D \in Nat /\ t % D \in 0 .. D - 1
OBVIOUS

\* The time of the week i minutes after minute m of day d.
After(d, m, i) == (d * DayLen + m + i) % WeekLen

\* Which day it is on, and which minute of that day.
LEMMA DayAndMinute ==
    ASSUME NEW d \in 0 .. WeekDays - 1, NEW m \in 0 .. DayLen - 1, NEW i \in 0 .. DayLen - 1
    PROVE  IF m + i < DayLen
           THEN After(d, m, i) \div DayLen = d /\ After(d, m, i) % DayLen = m + i
           ELSE /\ After(d, m, i) \div DayLen = (d + 1) % WeekDays
                /\ After(d, m, i) % DayLen = m + i - DayLen
<1> DEFINE D == DayLen
           W == WeekDays
           t == After(d, m, i)
<1>1. /\ D \in Nat \ {0} /\ W \in Nat \ {0}
      /\ d \in 0 .. W - 1 /\ m \in 0 .. D - 1 /\ i \in 0 .. D - 1
      /\ t = (d * D + m + i) % (W * D)
  BY ScheduleAssumption DEF After, WeekLen
<1>2. SUFFICES IF m + i < D THEN t \div D = d /\ t % D = m + i
               ELSE t \div D = (d + 1) % W /\ t % D = m + i - D
  OBVIOUS
<1> HIDE DEF D, W, t
<1>3. W * D \in Nat \ {0} /\ d * D \in Nat /\ d * D <= (W - 1) * D /\ (W - 1) * D = W * D - D
  BY <1>1
<1>4. CASE m + i < D
  <2>1. t = d * D + (m + i)
    BY <1>1, <1>3, <1>4
  <2>2. m + i \in 0 .. D - 1
    BY <1>1, <1>4
  <2>3. t \div D = d
    BY <1>1, <2>1, <2>2
  <2>4. t % D = m + i
    <3>1. t \in Nat /\ D \in Nat \ {0}
      BY <1>1, <1>3, <2>1, <2>2
    <3>2. t = (t \div D) * D + (t % D) /\ t % D \in 0 .. D - 1
      BY <3>1, QuotientAndRest
    <3>3. t = d * D + (t % D)
      BY <2>3, <3>2
    <3> QED BY <1>3, <2>1, <2>2, <3>2, <3>3
  <2> QED BY <1>4, <2>3, <2>4
<1>5. CASE m + i >= D /\ d + 1 < W
  <2>1. (d + 1) * D = d * D + D /\ (d + 1) * D <= (W - 1) * D
    BY <1>1, <1>5
  <2>2. t = (d + 1) * D + (m + i - D)
    BY <1>1, <1>3, <1>5, <2>1
  <2> QED BY <1>1, <1>5, <2>2
<1>6. CASE m + i >= D /\ d + 1 = W
  <2>1. d * D + m + i = W * D + (m + i - D)
    BY <1>1, <1>3, <1>6
  <2>2. t = m + i - D
    BY <1>1, <1>3, <1>6, <2>1
  <2>3. (d + 1) % W = 0
    BY <1>1, <1>6
  <2> QED BY <1>1, <1>6, <2>2, <2>3
<1> QED BY <1>1, <1>4, <1>5, <1>6

\* A time of the week is on one of its days.
LEMMA DayOfWeek ==
    ASSUME NEW D \in Nat \ {0}, NEW W \in Nat \ {0}, NEW t \in 0 .. W * D - 1
    PROVE  t \div D \in 0 .. W - 1
OBVIOUS

\* WindowsMatch holds at every time of the week.
LEMMA WindowsMatchAlways ==
    ASSUME clock \in 0 .. WeekLen - 1
    PROVE  WindowsMatch
<1> SUFFICES ASSUME NEW w \in Windows
             PROVE  Matches(w, clock) <=>
                      \E d \in w.days, i \in 0 .. DurationMin(w) - 1 :
                        clock = (d * DayLen + w.start + i) % WeekLen
  BY DEF WindowsMatch
<1> DEFINE hm == clock % DayLen
           day == clock \div DayLen
<1>1. /\ w.start \in 0 .. DayLen - 1 /\ w.end \in 0 .. DayLen - 1
      /\ w.days \subseteq 0 .. WeekDays - 1 /\ w.start # w.end
      /\ DayLen \in Nat \ {0} /\ WeekDays \in Nat \ {0}
  BY ScheduleAssumption
<1>2. /\ day \in 0 .. WeekDays - 1 /\ hm \in 0 .. DayLen - 1
      /\ clock = day * DayLen + hm
  <2>1. clock \in 0 .. WeekDays * DayLen - 1 /\ clock \in Nat
    BY <1>1 DEF WeekLen
  <2>2. day \in 0 .. WeekDays - 1
    BY ONLY <1>1, <2>1, DayOfWeek, Zenon DEF day
  <2>3. hm \in 0 .. DayLen - 1 /\ clock = day * DayLen + hm
    BY <1>1, <2>1, QuotientAndRest
  <2> QED BY <2>2, <2>3
<1>3. DurationMin(w) \in 1 .. DayLen - 1
  BY <1>1 DEF DurationMin, Wraps
<1>4. ASSUME NEW d \in w.days, NEW i \in 0 .. DurationMin(w) - 1,
             clock = (d * DayLen + w.start + i) % WeekLen
      PROVE  Matches(w, clock)
  <2>1. IF w.start + i < DayLen
        THEN day = d /\ hm = w.start + i
        ELSE day = (d + 1) % WeekDays /\ hm = w.start + i - DayLen
    <3>1. d \in 0 .. WeekDays - 1 /\ i \in 0 .. DayLen - 1
      BY <1>1, <1>3
    <3>2. clock = After(d, w.start, i)
      BY <1>4 DEF After
    <3> QED BY <1>1, <3>1, <3>2, DayAndMinute
  <2>2. CASE w.start + i < DayLen
    <3>1. day = d /\ hm = w.start + i
      BY <2>1, <2>2
    <3>2. StartDay(w, clock) = d
      BY <1>1, <3>1 DEF StartDay
    <3> HIDE DEF hm, day
    <3>3. IF Wraps(w) THEN hm >= w.start \/ hm < w.end ELSE hm >= w.start /\ hm < w.end
      BY <1>1, <3>1 DEF Wraps, DurationMin
    <3> QED BY <3>2, <3>3 DEF Matches, hm
  <2>3. CASE w.start + i >= DayLen
    <3>1. day = (d + 1) % WeekDays /\ hm = w.start + i - DayLen
      BY <1>1, <2>1, <2>3
    <3>2. Wraps(w) /\ hm < w.end /\ hm < w.start
      BY <1>1, <2>3, <3>1 DEF Wraps, DurationMin
    <3>3. (day + WeekDays - 1) % WeekDays = d
      <4>1. d \in 0 .. WeekDays - 1
        BY <1>1
      <4> HIDE DEF day
      <4>2. CASE d + 1 < WeekDays
        BY <1>1, <3>1, <4>1, <4>2
      <4>3. CASE d + 1 = WeekDays
        BY <1>1, <3>1, <4>1, <4>3
      <4> QED BY <1>1, <4>1, <4>2, <4>3
    <3>4. StartDay(w, clock) = d
      BY <3>2, <3>3 DEF StartDay
    <3> QED BY <3>2, <3>4 DEF Matches
  <2> QED BY <1>1, <2>2, <2>3
<1>5. ASSUME Matches(w, clock)
      PROVE  \E d \in w.days, i \in 0 .. DurationMin(w) - 1 :
               clock = (d * DayLen + w.start + i) % WeekLen
  <2> DEFINE d == StartDay(w, clock)
  <2>1. d \in w.days
    BY <1>5 DEF Matches
  <2>2. IF Wraps(w) THEN hm >= w.start \/ hm < w.end ELSE hm >= w.start /\ hm < w.end
    BY <1>5 DEF Matches
  <2>3. WeekLen \in Nat \ {0} /\ clock \in 0 .. WeekLen - 1
    BY <1>1 DEF WeekLen
  <2>4. CASE ~(Wraps(w) /\ hm < w.start)
    <3>1. d = day
      BY <2>4 DEF StartDay
    <3> HIDE DEF d, day, hm
    <3>2. hm - w.start \in 0 .. DurationMin(w) - 1
      BY <1>1, <1>2, <2>2, <2>4 DEF Wraps, DurationMin
    <3>3. clock = d * DayLen + w.start + (hm - w.start)
      BY <1>1, <1>2, <3>1
    <3>4. clock = (d * DayLen + w.start + (hm - w.start)) % WeekLen
      BY <2>3, <3>3
    <3> QED BY <2>1, <3>2, <3>4
  <2>5. CASE Wraps(w) /\ hm < w.start
    <3>1. d = (day + WeekDays - 1) % WeekDays
      BY <2>5 DEF StartDay
    <3> DEFINE i == hm + DayLen - w.start
    <3> HIDE DEF d, day, hm
    <3>2. i \in 0 .. DurationMin(w) - 1
      BY <1>1, <1>2, <2>2, <2>5 DEF Wraps, DurationMin
    <3>3. d * DayLen + w.start + i = d * DayLen + DayLen + hm
      BY <1>1, <1>2, <2>1
    <3>4. CASE day = 0
      <4>1. d = WeekDays - 1
        BY <1>1, <3>1, <3>4
      <4>2. d * DayLen + DayLen = WeekLen
        BY <1>1, <4>1 DEF WeekLen
      <4>3. clock = hm
        BY <1>1, <1>2, <3>4
      <4>4. clock = (WeekLen + hm) % WeekLen
        BY <2>3, <4>3
      <4>5. clock = (d * DayLen + w.start + i) % WeekLen
        BY <3>3, <4>2, <4>4
      <4> QED BY <2>1, <3>2, <4>5
    <3>5. CASE day > 0
      <4>1. d = day - 1
        BY <1>1, <1>2, <3>1, <3>5
      <4>2. d * DayLen + DayLen = day * DayLen
        BY <1>1, <1>2, <4>1
      <4>3. clock = d * DayLen + w.start + i
        BY <1>1, <1>2, <3>3, <4>2
      <4>4. clock = (d * DayLen + w.start + i) % WeekLen
        BY <2>3, <4>3
      <4> QED BY <2>1, <3>2, <4>4
    <3> QED BY <1>2, <3>4, <3>5
  <2> QED BY <2>4, <2>5
<1> QED BY <1>4, <1>5

-----------------------------------------------------------------------------
(* The profile that is picked.                                             *)

\* What the steps carry from a load to a store is a configuration.
CarriesInv ==
    /\ ticking.at = "passed" => ticking.winner # NoProfile
    /\ ticking.at = "loaded" => ticking.next \in SchedConfig
    /\ picking.at = "loaded" => picking.next \in SchedConfig /\ picking.next.active = picking.name
    /\ editing.at # "none" => editing.next \in SchedConfig

\* A pick that must stand, or will if nothing crosses it.
Covered == stands # NoProfile \/ (picking.at \in {"marked", "loaded"} /\ ~picking.crossed)

\* The inductive invariant: a covered pick has the override marked, no tick
\* past its check of it, and no edit loaded before it.
KeepInv ==
    /\ CarriesInv
    /\ picking.at # "none" => stands = NoProfile
    /\ Covered => manualOverride /\ ticking.at \notin {"passed", "loaded"}
    /\ picking.at \in {"marked", "loaded"} /\ ~picking.crossed => editing = NoEdit
    /\ stands # NoProfile => editing = NoEdit \/ editing.next.active = stands
    /\ PickStands

\* It holds of a new process.
LEMMA KeepInit == ScheduleInit => ScheduleTypeOK /\ KeepInv
<1> SUFFICES ASSUME ScheduleInit PROVE ScheduleTypeOK /\ KeepInv
  OBVIOUS
<1>1. NoCopy \in Copy /\ NoProfile \in Wish
  BY DEF Copy, Wish
<1>2. /\ IdleTick \in [at : {"wait", "computed", "passed", "loaded"}, winner : Wish, active : Wish, next : Copy]
      /\ NoPick \in [at : {"none", "begun", "marked", "loaded"}, name : Wish, crossed : BOOLEAN, next : Copy]
      /\ NoEdit \in [at : {"none", "loaded", "saved"}, next : Copy]
  BY <1>1 DEF IdleTick, NoPick, NoEdit
<1>3. ScheduleTypeOK
  <2>1. 0 \in 0 .. MaxClock /\ 0 \in 0 .. Interventions
    BY ScheduleAssumption
  <2> QED BY <1>1, <1>2, <2>1 DEF ScheduleInit, ScheduleTypeOK
<1>4. KeepInv
  BY DEF ScheduleInit, KeepInv, CarriesInv, Covered, PickStands, IdleTick, NoPick, NoEdit
<1> QED BY <1>3, <1>4

\* Choosing another profile, or another window for one, leaves a configuration.
LEMMA ChangedConfig ==
    ASSUME NEW c \in SchedConfig, NEW p \in Profiles, NEW w \in Windows \cup {Unscheduled}
    PROVE  /\ [c EXCEPT !.active = p] \in SchedConfig /\ [c EXCEPT !.active = p].active = p
           /\ [c EXCEPT !.schedule[p] = w] \in SchedConfig
           /\ [c EXCEPT !.schedule[p] = w].active = c.active
BY DEF SchedConfig

\* Every step of the scheduler, of the requests and of their surroundings
\* keeps the types.
LEMMA ScheduleTypeStep ==
    ASSUME ScheduleTypeOK, CarriesInv, [ScheduleNext]_sVars
    PROVE  ScheduleTypeOK'
<1> USE DEF ScheduleTypeOK
<1>1. NoCopy \in Copy /\ NoProfile \in Wish /\ SchedConfig \subseteq Copy /\ Profiles \subseteq Wish
  BY DEF Copy, Wish
<1>2. /\ IdleTick \in [at : {"wait", "computed", "passed", "loaded"}, winner : Wish, active : Wish, next : Copy]
      /\ NoPick \in [at : {"none", "begun", "marked", "loaded"}, name : Wish, crossed : BOOLEAN, next : Copy]
      /\ NoEdit \in [at : {"none", "loaded", "saved"}, next : Copy]
  BY <1>1 DEF IdleTick, NoPick, NoEdit
<1>0. Intervenes => interventions' \in 0 .. Interventions /\ minutes' \in 0 .. MaxClock
  BY ScheduleAssumption DEF Intervenes
<1>3. running.active \in Profiles /\ running.schedule \in [Profiles -> Windows \cup {Unscheduled}]
  BY DEF SchedConfig
<1>4. CASE TickComputes
  <2>1. ActiveProfile(running.schedule, clock) \in Wish
    BY <1>3, WinnerIsKnown
  <2> QED BY <1>1, <1>3, <1>4, <2>1 DEF TickComputes, scheduleState, sBounds
<1>5. CASE TickObserves
  BY <1>1, <1>2, <1>5 DEF TickObserves, sBounds
<1>6. CASE TickApplies
  <2>1. ticking.at = "passed" => ticking.winner \in Profiles
    BY DEF CarriesInv, Wish
  <2>2. ticking.at = "passed" => [running EXCEPT !.active = ticking.winner] \in Copy
    BY <1>1, <2>1 DEF SchedConfig
  <2>3. ticking' \in [at : {"wait", "computed", "passed", "loaded"}, winner : Wish, active : Wish, next : Copy]
    BY <1>2, <1>6, <2>2 DEF TickApplies, IdleTick
  <2> QED BY <1>6, <2>3 DEF TickApplies, scheduleState, sBounds
<1>7. CASE TickStores
  BY <1>2, <1>7 DEF TickStores, CarriesInv, scheduleState, sBounds
<1>8. ASSUME NEW p \in Wish, PickBegins(p)
      PROVE  ScheduleTypeOK'
  BY <1>0, <1>1, <1>2, <1>8 DEF PickBegins, scheduleState
<1>9. CASE PickMarks
  BY <1>9 DEF PickMarks, MarkOverride, sBounds
<1>10. CASE PickLoads
  <2>1. picking.name \in Profiles => [running EXCEPT !.active = picking.name] \in Copy
    BY <1>1 DEF SchedConfig
  <2> QED BY <1>2, <1>10, <2>1 DEF PickLoads, scheduleState, sBounds
<1>11. CASE PickStores
  BY <1>1, <1>2, <1>11 DEF PickStores, CarriesInv, scheduleState, sBounds
<1>12. ASSUME NEW p \in Profiles, NEW w \in Windows \cup {Unscheduled}, EditLoads(p, w)
       PROVE  ScheduleTypeOK'
  <2>1. [running EXCEPT !.schedule[p] = w] \in Copy
    BY <1>1, ChangedConfig
  <2> QED BY <1>0, <1>2, <1>12, <2>1 DEF EditLoads, scheduleState
<1>13. ASSUME NEW ok \in BOOLEAN, EditSaves(ok)
       PROVE  ScheduleTypeOK'
  BY <1>2, <1>13 DEF EditSaves, CarriesInv, scheduleState, sBounds
<1>14. CASE EditStores
  BY <1>2, <1>14 DEF EditStores, CarriesInv, scheduleState, sBounds
<1>15. CASE ReloadProfiles
  BY <1>0, <1>1, <1>2, <1>15 DEF ReloadProfiles, scheduleState
<1>16. CASE RestartScheduler
  BY <1>0, <1>1, <1>2, <1>16 DEF RestartScheduler
<1>17. CASE PanicTurns
  BY <1>0, <1>17 DEF PanicTurns, scheduleState
<1>18. CASE MinutePasses
  <2>1. (clock + 1) % WeekLen \in 0 .. WeekLen - 1
    <3>1. WeekLen \in Nat \ {0} /\ clock + 1 \in Nat
      BY ScheduleAssumption DEF WeekLen
    <3> QED BY <3>1, QuotientAndRest
  <2> QED BY <1>18, <2>1, ScheduleAssumption DEF MinutePasses, scheduleState
<1>19. CASE UNCHANGED sVars
  BY <1>19 DEF sVars
<1> QED
  BY <1>4, <1>5, <1>6, <1>7, <1>8, <1>9, <1>10, <1>11, <1>12, <1>13, <1>14, <1>15, <1>16,
     <1>17, <1>18, <1>19 DEF ScheduleNext, SchedulerStep

\* Every step keeps what a covered pick relies on.
LEMMA KeepStep ==
    ASSUME ScheduleTypeOK, KeepInv, [ScheduleNext]_sVars
    PROVE  KeepInv'
<1> USE DEF KeepInv, CarriesInv, Covered, PickStands
<1>1. NoProfile \notin Profiles
  BY ScheduleAssumption
<1>2. IdleTick.at = "wait" /\ NoPick.at = "none" /\ NoEdit.at = "none"
  BY DEF IdleTick, NoPick, NoEdit
<1>3. /\ running \in SchedConfig /\ onDisk \in SchedConfig
      /\ ticking \in [at : {"wait", "computed", "passed", "loaded"}, winner : Wish, active : Wish, next : Copy]
      /\ picking \in [at : {"none", "begun", "marked", "loaded"}, name : Wish, crossed : BOOLEAN, next : Copy]
      /\ editing \in [at : {"none", "loaded", "saved"}, next : Copy]
  BY DEF ScheduleTypeOK
<1>4. CASE TickComputes
  BY <1>3, <1>4 DEF TickComputes, scheduleState
<1>5. CASE TickObserves
  <2> DEFINE changed == ticking.winner # lastScheduled
  <2>1. /\ ticking.at = "computed" /\ (manualOverride' <=> manualOverride /\ ~changed)
        /\ UNCHANGED <<running, editing>>
        /\ stands' = IF changed THEN NoProfile ELSE stands
    BY <1>5 DEF TickObserves
  <2>2. /\ ticking'.at \in {"wait", "passed"}
        /\ ticking'.at = "passed" => ~manualOverride'
        /\ ticking'.at = "passed" => ticking'.winner # NoProfile
    BY <1>2, <1>3, <1>5 DEF TickObserves, MayApply
  <2>3. /\ picking'.at = picking.at
        /\ picking.at # "none" => picking'.next = picking.next /\ picking'.name = picking.name
        /\ picking.at # "none" => (picking'.crossed <=> picking.crossed \/ changed)
    <3>1. picking.at = "none" => picking' = NoPick
      BY <1>5 DEF TickObserves
    <3>2. picking.at # "none" => picking' = [picking EXCEPT !.crossed = @ \/ changed]
      BY <1>5 DEF TickObserves
    <3>3. picking.at = "none" => picking'.at = "none"
      BY <3>1, <1>2
    <3> QED BY <1>3, <3>2, <3>3
  <2> HIDE DEF changed
  <2> QED BY <1>3, <2>1, <2>2, <2>3
<1>6. CASE TickApplies
  <2>1. ticking.at = "passed" => ticking.winner \in Profiles
    BY <1>3 DEF Wish
  <2>2. ticking.at = "passed" => [running EXCEPT !.active = ticking.winner] \in SchedConfig
    BY <1>3, <2>1 DEF SchedConfig
  <2> QED BY <1>3, <1>6, <2>2 DEF TickApplies, scheduleState, IdleTick
<1>7. CASE TickStores
  BY <1>2, <1>3, <1>7 DEF TickStores, scheduleState
<1>8. ASSUME NEW p \in Wish, PickBegins(p)
      PROVE  KeepInv'
  BY <1>2, <1>8 DEF PickBegins, scheduleState
<1>9. CASE PickMarks
  BY <1>3, <1>9 DEF PickMarks, MarkOverride
<1>10. CASE PickLoads
  <2>1. picking.name \in Profiles => /\ [running EXCEPT !.active = picking.name] \in SchedConfig
                                     /\ [running EXCEPT !.active = picking.name].active = picking.name
    BY <1>3 DEF SchedConfig
  <2> QED BY <1>3, <1>2, <1>10, <2>1 DEF PickLoads, scheduleState
<1>11. CASE PickStores
  BY <1>2, <1>11 DEF PickStores, scheduleState
<1>12. ASSUME NEW p \in Profiles, NEW w \in Windows \cup {Unscheduled}, EditLoads(p, w)
       PROVE  KeepInv'
  <2>1. /\ [running EXCEPT !.schedule[p] = w] \in SchedConfig
        /\ [running EXCEPT !.schedule[p] = w].active = running.active
    BY <1>3 DEF SchedConfig
  <2>2. /\ editing'.at = "loaded" /\ editing'.next = [running EXCEPT !.schedule[p] = w]
        /\ editing.at = "none" /\ UNCHANGED <<running, ticking, manualOverride, stands>>
    <3>1. editing' = [at |-> "loaded", next |-> [running EXCEPT !.schedule[p] = w]]
      BY <1>12 DEF EditLoads
    <3>2. editing.at = "none" /\ UNCHANGED <<running, ticking, manualOverride, stands>>
      BY <1>12 DEF EditLoads, scheduleState
    <3> HIDE DEF KeepInv
    <3> DEFINE edited == [running EXCEPT !.schedule[p] = w]
    <3>3. editing' = [at |-> "loaded", next |-> edited]
      BY <3>1
    <3> HIDE DEF edited
    <3>4. editing'.at = "loaded" /\ editing'.next = edited
      BY <3>3
    <3> QED BY <3>2, <3>4 DEF edited
  <2>3. /\ picking'.at = picking.at
        /\ picking.at # "none" => picking'.next = picking.next /\ picking'.name = picking.name
        /\ picking.at # "none" => picking'.crossed
    <3>1. picking = NoPick => picking' = NoPick
      BY <1>12 DEF EditLoads
    <3>2. picking # NoPick => picking' = [picking EXCEPT !.crossed = TRUE]
      BY <1>12 DEF EditLoads
    <3> QED BY <1>2, <1>3, <3>1, <3>2
  <2> QED BY <1>3, <2>1, <2>2, <2>3
<1>13. ASSUME NEW ok \in BOOLEAN, EditSaves(ok)
       PROVE  KeepInv'
  BY <1>3, <1>2, <1>13 DEF EditSaves, scheduleState
<1>14. CASE EditStores
  BY <1>2, <1>14 DEF EditStores, scheduleState
<1>15. CASE ReloadProfiles
  BY <1>2, <1>15 DEF ReloadProfiles, scheduleState
<1>16. CASE RestartScheduler
  BY <1>2, <1>16 DEF RestartScheduler
<1>17. CASE PanicTurns
  BY <1>17 DEF PanicTurns, scheduleState
<1>18. CASE MinutePasses
  BY <1>18 DEF MinutePasses, scheduleState
<1>19. CASE UNCHANGED sVars
  BY <1>19 DEF sVars
<1> QED
  BY <1>4, <1>5, <1>6, <1>7, <1>8, <1>9, <1>10, <1>11, <1>12, <1>13, <1>14, <1>15, <1>16,
     <1>17, <1>18, <1>19 DEF ScheduleNext, SchedulerStep

\* ScheduleIsKept: the profile an operator picks stays active until a tick
\* sees another winner, a reload or another request, however the steps of the
\* ticks, of the pick and of edits fall; and a window matches just the minutes
\* it lasts, over midnight and over the week's end (internal/web/schedule.go,
\* internal/config/schedule.go).  For any profiles, windows and length of a day
\* and a week.
THEOREM PicksStand == LiveTicks => []ScheduleIsKept
<1>1. TicksInit => ScheduleTypeOK /\ KeepInv
  BY KeepInit DEF TicksInit
<1>2. ScheduleTypeOK /\ KeepInv /\ [TicksNext]_ticksVars => (ScheduleTypeOK /\ KeepInv)'
  <2>1. [TicksNext]_ticksVars => [ScheduleNext]_sVars
    BY DEF TicksNext, OnlyController, OnlyScheduler, ticksVars
  <2> QED BY <2>1, ScheduleTypeStep, KeepStep DEF KeepInv
<1>3. ScheduleTypeOK /\ KeepInv => ScheduleIsKept
  BY WindowsMatchAlways DEF ScheduleTypeOK, KeepInv, ScheduleIsKept
<1> QED BY <1>1, <1>2, <1>3, PTL DEF LiveTicks

-----------------------------------------------------------------------------
(* The tick of a controller.                                               *)

\* The inductive invariant of NoStaleWrite: while a Write is past its look at
\* the mode register that look is recent, since time passes between ticks
\* only; a header without the register never leaves manual mode; and the
\* second look comes to a channel the first EBUSY has dropped.
FreshInv ==
    /\ wpc # "idle" => Writing
    /\ wpc \in {"duty", "retry"} /\ exposes => checked < CheckInterval
    /\ ~exposes => enable = "manual"
    /\ wpc = "reacquire" => ~acquired /\ exposes

\* Handing the channel to firmware touches the register only where there is one.
LEMMA HandKeeps == HandToFirmware => (exposes => enable' = "auto") /\ (~exposes => enable' = enable)
BY DEF HandToFirmware

\* A write that is sent starts at the register, or is over at once.
LEMMA SendKeeps ==
    ASSUME NEW v, Send(v), wpc = "idle", FreshInv
    PROVE  /\ wpc' \in {"idle", "ensure"} /\ exposes' = exposes
           /\ ~exposes => enable' = enable
<1>1. CASE polarity = "phantom"
  BY <1>1, HandKeeps DEF Send
<1>2. CASE polarity # "phantom"
  BY <1>2 DEF Send, CallWrite
<1> QED BY <1>1, <1>2

\* A step of Backend.Write: where it can go, and how recent the look is when
\* it goes on to the duty.
LEMMA WriteStepKeeps ==
    ASSUME WriteStep, FreshInv
    PROVE  /\ exposes' = exposes /\ (~exposes => enable' = "manual")
           /\ wpc' \in {"idle", "duty", "reacquire", "retry"}
           /\ wpc' \in {"duty", "retry"} /\ exposes => checked' < CheckInterval
           /\ wpc' = "reacquire" => ~acquired' /\ exposes
           /\ wpc = "reacquire" /\ wpc' = "retry" => enable' = "manual"
<1> USE BackendAssumption DEF FreshInv, Return
<1>1. ASSUME NEW at, NEW next, EnsureManualMode(at, next),
             <<at, next>> \in {<<"ensure", "duty">>, <<"reacquire", "retry">>}
      PROVE  /\ exposes' = exposes /\ (~exposes => enable' = "manual")
             /\ wpc = at /\ wpc' \in {"idle", next}
             /\ wpc' = next /\ exposes => checked' < CheckInterval
             /\ ~acquired /\ exposes /\ wpc' = next => enable' = "manual"
  <2>1. CASE acquired /\ ReassertIfReverted /\ wpc' = next /\ UNCHANGED <<acquired, wres>>
    <3>1. checked' < CheckInterval
      BY <2>1 DEF ReassertIfReverted
    <3>2. ~exposes => enable' = "manual"
      BY <2>1 DEF ReassertIfReverted
    <3> QED BY <1>1, <2>1, <3>1, <3>2 DEF EnsureManualMode
  <2>2. CASE ~acquired /\ exposes /\ enable' = "manual" /\ checked' = 0 /\ wpc' = next
    BY <1>1, <2>2 DEF EnsureManualMode
  <2>3. CASE ~acquired /\ ~exposes /\ wpc' = next /\ UNCHANGED <<enable, checked, wres>>
    BY <1>1, <2>3 DEF EnsureManualMode
  <2>4. CASE ~acquired /\ exposes /\ wpc' = "idle" /\ UNCHANGED <<enable, acquired, checked>>
    BY <1>1, <2>4 DEF EnsureManualMode
  <2> QED BY <1>1, <2>1, <2>2, <2>3, <2>4 DEF EnsureManualMode
<1>2. CASE EnsureManualMode("ensure", "duty")
  BY <1>1, <1>2
<1>3. CASE EnsureManualMode("reacquire", "retry")
  BY <1>1, <1>3
<1>4. CASE FirstDuty
  BY <1>4 DEF FirstDuty, DutyLands, DutyFails
<1>5. CASE RetryDuty
  BY <1>5 DEF RetryDuty, DutyLands, DutyFails
<1> QED BY <1>2, <1>3, <1>4, <1>5 DEF WriteStep

\* Every step of the tick and of its surroundings keeps it.
LEMMA FreshStep == FreshInv /\ [TickNext]_tickVars => FreshInv'
<1> SUFFICES ASSUME FreshInv, [TickNext]_tickVars PROVE FreshInv'
  OBVIOUS
<1> USE DEF FreshInv, Writing
<1>1. CASE TickStep
  <2>1. CASE Unbinds
    BY <2>1, HandKeeps DEF Unbinds, Ready, RestoreOne, ButChip
  <2>2. ASSUME NEW k, NEW v, NEW t, StartWrite(k, v, t), Ready
        PROVE  FreshInv'
    BY <2>2, SendKeeps DEF StartWrite, Ready
  <2>3. CASE ManualTick
    BY <2>2, <2>3 DEF ManualTick
  <2>4. CASE SentinelTick
    <3>1. CASE RestoreOne /\ UNCHANGED <<cpc, kind, planTemp, refused>>
      BY <3>1, HandKeeps, <2>4 DEF SentinelTick, CurveBound, Ready, RestoreOne, ButChip
    <3>2. CASE StartWrite("carry", Prev, 0)
      BY <2>2, <2>4, <3>2 DEF SentinelTick, CurveBound
    <3> QED BY <2>4, <3>1, <3>2 DEF SentinelTick
  <2>5. CASE RefusingTick
    BY <2>5 DEF RefusingTick, bVars
  <2>6. ASSUME NEW v \in Duties, HoldingTick(v)
        PROVE  FreshInv'
    BY <2>6 DEF HoldingTick, bVars
  <2>7. CASE WritingTick
    BY <2>2, <2>7 DEF WritingTick, Evaluate, CurveBound
  <2>8. CASE BackendStep
    BY <2>8, WriteStepKeeps DEF BackendStep, cVars
  <2>9. CASE WriteSucceeded
    BY <2>9 DEF WriteSucceeded, Returned, Done
  <2>10. CASE WriteDenied
    BY <2>10, HandKeeps DEF WriteDenied, Returned, RestoreOne, ButChip
  <2>11. CASE WriteRetried
    BY <2>11, SendKeeps DEF WriteRetried, Returned
  <2>12. CASE WriteGivesUp
    BY <2>12, HandKeeps DEF WriteGivesUp, Returned, Done
  <2> QED
    BY <1>1, <2>1, <2>3, <2>4, <2>5, <2>6, <2>7, <2>8, <2>9, <2>10, <2>11, <2>12 DEF TickStep
<1>2. CASE Clock
  BY <1>2 DEF Clock
<1>3. CASE Reload \/ Weather
  BY <1>3 DEF Reload, Weather, Controller, bVars
<1>4. CASE SweepBegins
  BY <1>4 DEF SweepBegins, ButChip, Controller
<1>5. CASE SweepEnds
  BY <1>5, HandKeeps DEF SweepEnds, RestoreOne, ButChip, Controller
<1>6. CASE PanicPins
  BY <1>6 DEF PanicPins, ButChip, cVars
<1>7. CASE PanicPress \/ PanicCallback
  <2>1. UNCHANGED <<bVars, cVars>>
    BY <1>7 DEF PanicPress, PanicCallback
  <2> QED BY <2>1 DEF bVars, cVars
<1>8. CASE Firmware
  BY <1>8 DEF Firmware, FirmwareReverts, cVars
<1>9. CASE UNCHANGED tickVars
  BY <1>9 DEF tickVars, bVars, cVars
<1> QED BY <1>1, <1>2, <1>3, <1>4, <1>5, <1>6, <1>7, <1>8, <1>9 DEF TickNext

\* Only a step of Backend.Write goes from the second look to the retry.
LEMMA RetryIsReacquired ==
    ASSUME FreshInv, [TickNext]_tickVars, wpc = "reacquire", wpc' = "retry"
    PROVE  enable' = "manual"
<1> USE DEF FreshInv, Writing
<1>1. CASE BackendStep
  BY <1>1, WriteStepKeeps DEF BackendStep
<1>2. ~(Unbinds \/ ManualTick \/ SentinelTick \/ RefusingTick \/ WritingTick)
  BY DEF Unbinds, ManualTick, SentinelTick, RefusingTick, WritingTick, Evaluate, CurveBound, Ready
<1>3. \A v \in Duties : ~HoldingTick(v)
  BY DEF HoldingTick, Evaluate, CurveBound, Ready
<1>4. ~(WriteSucceeded \/ WriteDenied \/ WriteRetried \/ WriteGivesUp)
  BY DEF WriteSucceeded, WriteDenied, WriteRetried, WriteGivesUp, Returned
<1>5. ~(Clock \/ Reload \/ Weather)
  BY DEF Clock, Reload, Weather
<1>6. CASE SweepBegins \/ SweepEnds \/ PanicPins
  BY <1>6 DEF SweepBegins, SweepEnds, PanicPins, RestoreOne, ButChip
<1>7. CASE PanicPress \/ PanicCallback \/ Firmware \/ UNCHANGED tickVars
  BY <1>7 DEF PanicPress, PanicCallback, Firmware, FirmwareReverts, tickVars, bVars
<1> QED BY <1>1, <1>2, <1>3, <1>4, <1>5, <1>6, <1>7 DEF TickNext, TickStep

\* NoStaleWrite: a duty the driver took and ignored, firmware being in charge,
\* was written less than one interval after the mode register was last looked
\* at or written, and the one retry after EBUSY starts in manual mode
\* (internal/hal/hwmon/backend.go).  For any interval, duties, curves and
\* configurations, whatever firmware, sweeps, reloads and panics do between.
THEOREM WritesAreFresh == LiveTicks => NoStaleWrite
<1>1. TicksInit => FreshInv
  BY DEF TicksInit, TroubleInit, TickInit, BackendInit, FreshInv
<1>2. [TicksNext]_ticksVars => [TickNext]_tickVars
  BY DEF TicksNext, OnlyController, OnlyScheduler, ticksVars, TroubleNext
<1>3. FreshInv /\ [TicksNext]_ticksVars => FreshInv'
  BY <1>2, FreshStep
<1>4. FreshInv /\ [TicksNext]_ticksVars
        => [ /\ (wpc \in {"duty", "retry"} /\ wres' = "ok" /\ enable = "auto")
                  => checked < CheckInterval
             /\ (wpc = "reacquire" /\ wpc' = "retry") => enable' = "manual" ]_bVars
  BY <1>2, RetryIsReacquired DEF FreshInv
<1> QED BY <1>1, <1>3, <1>4, PTL DEF LiveTicks, NoStaleWrite

\* Every callback that started was armed by a press of its own.
FiredInv == fired <= presses /\ (timer => fired < presses)

\* A duty within a fan's limits is a duty.
LEMMA ClampIsDuty ==
    ASSUME NEW f \in Configs, NEW v \in Int
    PROVE  ClampTo(f, v) \in Duties
<1>1. f.min \in Duties /\ f.max \in Duties
  BY TickAssumption
<1>2. f.min \in Int /\ f.max \in Int /\ Top \in Nat
  BY <1>1, BackendAssumption DEF Duties
<1> QED BY <1>1, <1>2 DEF ClampTo, Duties

\* So is its complement, and full speed.
LEMMA ThroughIsDuty ==
    ASSUME NEW v \in Duties
    PROVE  Through(v) \in Duties
BY BackendAssumption DEF Through, Duties

\* What a curve tick computes is a duty.
LEMMA ComputedAreDuties ==
    ASSUME NEW f \in Configs, f.curve # Gone, NEW t \in Levels \cup {Missing}, NEW b \in Computed(f, t)
    PROVE  b \in Duties /\ Forced(b) \in Duties
<1>1. Top \in Duties /\ Top \in Int
  BY BackendAssumption DEF Duties
<1>2. CurveDuty(f.curve, t) \in Int
  <2>1. t # Missing => t \in Nat
    BY BackendAssumption, TickAssumption DEF Duties
  <2>2. Curves[f.curve] \in Nat
    BY TickAssumption
  <2> QED BY <1>1, <2>1, <2>2 DEF CurveDuty
<1>3. ClampTo(f, CurveDuty(f.curve, t)) \in Duties
  BY <1>2, ClampIsDuty
<1>4. \A v \in Duties : ClampTo(f, v) \in Duties
  BY ClampIsDuty, BackendAssumption DEF Duties
<1>5. b \in Duties
  BY <1>3, <1>4 DEF Computed
<1> QED BY <1>1, <1>5 DEF Forced

\* The types of the channel's own state after a write is sent.
LEMMA SendTypes ==
    ASSUME BackendTypeOK, NEW v \in Duties, Send(v)
    PROVE  BackendTypeOK' /\ refused' \in BOOLEAN \cup {refused}
<1> USE BackendAssumption DEF BackendTypeOK
<1>1. Top \in Duties /\ Through(v) \in Duties
  BY ThroughIsDuty DEF Duties
<1>2. CASE polarity = "phantom"
  BY <1>1, <1>2 DEF Send, HandToFirmware
<1>3. CASE polarity # "phantom"
  BY <1>1, <1>3 DEF Send, CallWrite
<1> QED BY <1>2, <1>3

\* A hand-back keeps the channel's types.
LEMMA HandTypes ==
    ASSUME BackendTypeOK, HandToFirmware
    PROVE  enable' \in {"manual", "auto"} /\ duty' \in Duties
BY BackendAssumption DEF BackendTypeOK, HandToFirmware, Duties

\* A step of Backend.Write keeps them.
LEMMA WriteStepTypes ==
    ASSUME BackendTypeOK, WriteStep
    PROVE  BackendTypeOK'
<1> USE BackendAssumption DEF BackendTypeOK, Return
<1>1. ASSUME NEW at, NEW next \in {"duty", "retry"}, EnsureManualMode(at, next)
      PROVE  BackendTypeOK'
  <2>1. acquired /\ ReassertIfReverted => checked' \in 0 .. CheckInterval /\ enable' \in {"manual", "auto"}
    BY DEF ReassertIfReverted
  <2>2. UNCHANGED <<exposes, duty, want, reverts>>
    BY <1>1 DEF EnsureManualMode
  <2>3. CASE acquired /\ ReassertIfReverted /\ wpc' = next /\ UNCHANGED <<acquired, wres>>
    BY <2>1, <2>2, <2>3
  <2>4. CASE ~acquired /\ exposes /\ enable' = "manual" /\ acquired' = TRUE /\ checked' = 0
             /\ wpc' = next /\ UNCHANGED wres
    BY <2>2, <2>4
  <2>5. CASE ~acquired /\ ~exposes /\ acquired' = TRUE /\ wpc' = next
             /\ UNCHANGED <<enable, checked, wres>>
    BY <2>2, <2>5
  <2>6. CASE ~acquired /\ exposes /\ (\E res \in {"failed", "denied"} : Return(res))
             /\ UNCHANGED <<enable, acquired, checked>>
    BY <2>2, <2>6
  <2> QED BY <1>1, <2>3, <2>4, <2>5, <2>6 DEF EnsureManualMode
<1>2. CASE FirstDuty
  BY <1>2 DEF FirstDuty, DutyLands, DutyFails
<1>3. CASE RetryDuty
  BY <1>3 DEF RetryDuty, DutyLands, DutyFails
<1> QED BY <1>1, <1>2, <1>3 DEF WriteStep

\* The part of TickTypeOK that is the tick's own ...
OwnTypeOK ==
    /\ cpc \in {"idle", "write", "retry", "dead"}
    /\ kind \in {"none", "curve", "manual", "carry"}
    /\ planTemp \in Levels \cup {Missing}
    /\ lastPWM \in Duties \cup {NoDuty}
    /\ lastTemp \in Levels
    /\ activeCurve \in DOMAIN Curves \cup {Gone}
    /\ blind \in {None} \cup 0..SentinelMax
    /\ engaged \in BOOLEAN
    /\ dwell \in {None} \cup 0..Debounce
    /\ unbound \in BOOLEAN /\ refused \in BOOLEAN

\* ... and the part of it that is the fan's surroundings.
EnvTypeOK ==
    /\ polarity \in Polarities
    /\ cfg \in Configs
    /\ temp \in Levels \cup {Sentinel, Missing}
    /\ calibrating \in BOOLEAN
    /\ reloads \in 0..MaxReloads /\ sweeps \in 0..MaxSweeps

\* What the first half of a curve tick leaves.
LEMMA EvaluateTypes ==
    ASSUME OwnTypeOK, EnvTypeOK, Evaluate
    PROVE  /\ lastPWM' \in Duties \cup {NoDuty} /\ lastTemp' \in Levels
           /\ activeCurve' \in DOMAIN Curves \cup {Gone} /\ blind' \in {None} \cup 0 .. SentinelMax
           /\ engaged' \in BOOLEAN /\ dwell' \in {None} \cup 0 .. Debounce
           /\ temp \in Levels \cup {Missing} /\ cfg.curve # Gone
           /\ \A b \in Computed(cfg, temp) : Forced(b) \in Duties
<1> USE TickAssumption DEF OwnTypeOK, EnvTypeOK
<1>1. temp \in Levels \cup {Missing} /\ cfg.curve # Gone
  BY DEF Evaluate, CurveBound, OnCurve
<1>2. /\ lastPWM' \in Duties \cup {NoDuty} /\ lastTemp' \in Levels
      /\ activeCurve' \in DOMAIN Curves \cup {Gone} /\ blind' \in {None} \cup 0 .. SentinelMax
  BY DEF Evaluate, TakeCurve, Prev, PrevTemp
<1>3. engaged' \in BOOLEAN /\ dwell' \in {None} \cup 0 .. Debounce
  <2> DEFINE crossed == IF engaged THEN temp < Emergency - Margin ELSE temp >= Emergency
             since == IF ~crossed THEN None ELSE IF dwell = None THEN 0 ELSE dwell
             fires == since >= Debounce
  <2>1. since \in {None} \cup 0 .. Debounce
    OBVIOUS
  <2>2. CASE temp = Missing
    BY <2>2 DEF Evaluate, OvertempForce
  <2>3. CASE temp # Missing
    <3>1. engaged' = (engaged # fires) /\ dwell' = IF fires THEN None ELSE since
      BY <2>3 DEF Evaluate, OvertempForce
    <3> HIDE DEF fires, since
    <3> QED BY <2>1, <3>1
  <2> QED BY <2>2, <2>3
<1>4. \A b \in Computed(cfg, temp) : Forced(b) \in Duties
  BY <1>1, ComputedAreDuties
<1> QED BY <1>1, <1>2, <1>3, <1>4

\* Every step of the tick keeps the types.
LEMMA TickStepTypes ==
    ASSUME TickTypeOK, TickStep
    PROVE  TickTypeOK'
<1>0. TickTypeOK' <=> BackendTypeOK' /\ PanicTypeOK' /\ OwnTypeOK' /\ EnvTypeOK'
  BY DEF TickTypeOK, OwnTypeOK, EnvTypeOK
<1>1. BackendTypeOK /\ PanicTypeOK /\ OwnTypeOK /\ EnvTypeOK
  BY DEF TickTypeOK, OwnTypeOK, EnvTypeOK
<1>2. UNCHANGED <<pVars, Env>>
  BY DEF TickStep, Unbinds, ManualTick, SentinelTick, RefusingTick, HoldingTick, WritingTick, Evaluate,
         BackendStep, WriteSucceeded, WriteDenied, WriteRetried, WriteGivesUp, Done, cVars, Env
<1>3. PanicTypeOK' /\ EnvTypeOK'
  BY <1>1, <1>2 DEF pVars, Env, PanicTypeOK, EnvTypeOK
<1>4. SUFFICES BackendTypeOK' /\ OwnTypeOK'
  BY <1>0, <1>3
<1> USE TickAssumption DEF OwnTypeOK
<1>5. CASE Unbinds
  BY <1>1, <1>5, HandTypes DEF Unbinds, RestoreOne, ButChip, Last, Sensing, BackendTypeOK
<1>6. CASE ManualTick
  <2> DEFINE v == ClampTo(cfg, cfg.manual)
  <2>1. v \in Duties
    <3>1. cfg \in Configs /\ cfg.manual \in Int
      BY <1>1, <1>6, BackendAssumption DEF ManualTick, EnvTypeOK, Duties
    <3> QED BY <3>1, ClampIsDuty
  <2>2. StartWrite("manual", v, 0) /\ UNCHANGED <<Last, Sensing, unbound>>
    BY <1>6 DEF ManualTick
  <2> HIDE DEF v
  <2> QED BY <1>1, <2>1, <2>2, SendTypes DEF StartWrite, Last, Sensing
<1>7. CASE SentinelTick
  <2>1. /\ lastPWM' \in Duties \cup {NoDuty} /\ lastTemp' \in Levels
        /\ activeCurve' \in DOMAIN Curves \cup {Gone} /\ Prev \in Duties \cup {NoDuty}
    BY <1>1, <1>7 DEF SentinelTick, TakeCurve, Prev, PrevTemp, EnvTypeOK
  <2>2. blind' \in {None} \cup 0 .. SentinelMax /\ UNCHANGED <<engaged, dwell, unbound>>
    BY <1>1, <1>7 DEF SentinelTick
  <2>3. CASE RestoreOne /\ UNCHANGED <<cpc, kind, planTemp, refused>>
    BY <1>1, <2>1, <2>2, <2>3, HandTypes DEF RestoreOne, ButChip, BackendTypeOK
  <2>4. CASE Prev # NoDuty /\ StartWrite("carry", Prev, 0)
    BY <1>1, <2>1, <2>2, <2>4, SendTypes DEF StartWrite
  <2> QED BY <1>7, <2>3, <2>4 DEF SentinelTick
<1>8. CASE RefusingTick
  BY <1>1, <1>8, EvaluateTypes DEF RefusingTick, bVars, BackendTypeOK
<1>9. ASSUME NEW v \in Duties, HoldingTick(v)
      PROVE  BackendTypeOK' /\ OwnTypeOK'
  <2>1. Evaluate /\ unbound' = FALSE /\ UNCHANGED <<bVars, cpc, kind, planTemp, refused>>
    BY <1>9 DEF HoldingTick
  <2>2. BackendTypeOK'
    BY <1>1, <2>1 DEF bVars, BackendTypeOK
  <2>3. OwnTypeOK'
    BY <1>1, <2>1, EvaluateTypes
  <2> QED BY <2>2, <2>3
<1>10. CASE WritingTick
  <2>1. Evaluate /\ UNCHANGED unbound
    BY <1>10 DEF WritingTick
  <2>2. PICK v \in Duties : StartWrite("curve", v, temp)
    BY <1>1, <1>10, <2>1, EvaluateTypes DEF WritingTick
  <2> QED BY <1>1, <2>1, <2>2, EvaluateTypes, SendTypes DEF StartWrite
<1>11. CASE BackendStep
  BY <1>1, <1>11, WriteStepTypes DEF BackendStep, cVars
<1>12. CASE WriteSucceeded
  <2>1. lastPWM' \in Duties \cup {NoDuty} /\ lastTemp' \in Levels
    <3>1. Through(want) \in Duties
      BY <1>1, ThroughIsDuty DEF BackendTypeOK
    <3> QED BY <1>1, <1>12, <3>1 DEF WriteSucceeded, Last
  <2>2. unbound' \in BOOLEAN /\ UNCHANGED <<enable, duty>> /\ Done
    BY <1>1, <1>12 DEF WriteSucceeded
  <2> QED BY <1>1, <2>1, <2>2, BackendAssumption DEF Done, Sensing, BackendTypeOK, Duties
<1>13. CASE WriteDenied
  BY <1>1, <1>13, HandTypes DEF WriteDenied, RestoreOne, ButChip, Last, Sensing, BackendTypeOK
<1>14. CASE WriteRetried
  <2>1. Through(want) \in Duties
    BY <1>1, ThroughIsDuty DEF BackendTypeOK
  <2> QED BY <1>1, <1>14, <2>1, SendTypes DEF WriteRetried, Last, Sensing
<1>15. CASE WriteGivesUp
  <2>1. enable' \in {"manual", "auto"} /\ duty' \in Duties /\ UNCHANGED <<Last, unbound>> /\ Done
    BY <1>1, <1>15, HandTypes DEF WriteGivesUp, BackendTypeOK
  <2> QED BY <1>1, <2>1, BackendAssumption DEF Done, Last, Sensing, BackendTypeOK, Duties
<1> QED
  BY <1>5, <1>6, <1>7, <1>8, <1>9, <1>10, <1>11, <1>12, <1>13, <1>14, <1>15 DEF TickStep

\* So do the panic button's, a callback being one of a press.
LEMMA PanicTypes ==
    ASSUME PanicTypeOK, FiredInv, NEW callback \in BOOLEAN,
           Press \/ Pinned \/ Fire \/ RestorePanic(callback)
    PROVE  PanicTypeOK' /\ FiredInv'
<1> USE DEF PanicTypeOK, FiredInv
<1>0. MaxPresses \in Nat
  BY TickAssumption
<1>1. CASE Press
  BY <1>0, <1>1 DEF Press
<1>2. CASE Pinned
  BY <1>2 DEF Pinned
<1>3. CASE Fire
  <2>1. fired' \in 0 .. MaxPresses /\ presses' \in 0 .. MaxPresses /\ fired' <= presses'
    BY <1>0, <1>3 DEF Fire
  <2>2. timer' = FALSE /\ timer' \in BOOLEAN /\ active' \in BOOLEAN /\ pinning' \in BOOLEAN
    BY <1>3, Zenon DEF Fire
  <2> QED BY ONLY <2>1, <2>2 DEF PanicTypeOK, FiredInv
<1>4. CASE RestorePanic(callback)
  <2>1. fired' \in 0 .. MaxPresses /\ presses' \in 0 .. MaxPresses /\ fired' <= presses'
    BY <1>0, <1>4 DEF RestorePanic
  <2>2. timer' = FALSE /\ timer' \in BOOLEAN /\ active' \in BOOLEAN /\ pinning' \in BOOLEAN
    BY <1>4, Zenon DEF RestorePanic
  <2> QED BY ONLY <2>1, <2>2 DEF PanicTypeOK, FiredInv
<1> QED BY <1>1, <1>2, <1>3, <1>4

\* And everybody else's.
LEMMA TickTypeStep == TickTypeOK /\ FiredInv /\ [TickNext]_tickVars => (TickTypeOK /\ FiredInv)'
<1> SUFFICES ASSUME TickTypeOK, FiredInv, [TickNext]_tickVars PROVE TickTypeOK' /\ FiredInv'
  OBVIOUS
<1>0. TickTypeOK' <=> BackendTypeOK' /\ PanicTypeOK' /\ OwnTypeOK' /\ EnvTypeOK'
  BY DEF TickTypeOK, OwnTypeOK, EnvTypeOK
<1>1. BackendTypeOK /\ PanicTypeOK /\ OwnTypeOK /\ EnvTypeOK
  BY DEF TickTypeOK, OwnTypeOK, EnvTypeOK
<1>2. UNCHANGED pVars => PanicTypeOK' /\ FiredInv'
  BY <1>1 DEF pVars, PanicTypeOK, FiredInv
<1>3. UNCHANGED bVars => BackendTypeOK'
  BY <1>1 DEF bVars, BackendTypeOK
<1>4. UNCHANGED cVars => OwnTypeOK' /\ EnvTypeOK'
  BY <1>1 DEF cVars, OwnTypeOK, EnvTypeOK
<1>5. UNCHANGED Controller => OwnTypeOK'
  BY <1>1 DEF Controller, Last, Sensing, OwnTypeOK
<1>6. CASE TickStep
  <2>1. UNCHANGED pVars
    BY <1>6 DEF TickStep, Unbinds, ManualTick, SentinelTick, RefusingTick, HoldingTick, WritingTick,
                Evaluate, BackendStep, WriteSucceeded, WriteDenied, WriteRetried, WriteGivesUp, Done
  <2> QED BY <1>2, <1>6, <2>1, TickStepTypes
<1>7. CASE Clock
  <2>1. \A age, cap \in Nat : Older(age, cap) \in {age} \cup 0 .. cap
    BY DEF Older
  <2>2. blind' \in {None} \cup 0 .. SentinelMax /\ dwell' \in {None} \cup 0 .. Debounce
    BY <1>1, <1>7, TickAssumption DEF Clock, Older, OwnTypeOK, None
  <2>3. BackendTypeOK'
    BY <1>1, <1>7, BackendAssumption DEF Clock, CheckAges, BackendTypeOK
  <2>4. OwnTypeOK' /\ EnvTypeOK' /\ UNCHANGED pVars
    BY <1>1, <1>7, <2>2 DEF Clock, Env, Last, OwnTypeOK, EnvTypeOK
  <2> QED BY <1>0, <1>2, <2>3, <2>4
<1>8. CASE Reload
  <2>1. EnvTypeOK'
    BY <1>1, <1>8, TickAssumption DEF Reload, EnvTypeOK
  <2> QED BY <1>0, <1>2, <1>3, <1>5, <1>8, <2>1 DEF Reload
<1>9. CASE Weather
  <2>1. EnvTypeOK'
    BY <1>1, <1>9 DEF Weather, EnvTypeOK
  <2> QED BY <1>0, <1>2, <1>3, <1>5, <1>9, <2>1 DEF Weather
<1>10. CASE SweepBegins
  <2>1. EnvTypeOK'
    BY <1>1, <1>10, TickAssumption DEF SweepBegins, EnvTypeOK
  <2>2. BackendTypeOK'
    BY <1>1, <1>10, BackendAssumption DEF SweepBegins, ButChip, BackendTypeOK, Duties
  <2> QED BY <1>0, <1>2, <1>5, <1>10, <2>1, <2>2 DEF SweepBegins
<1>11. CASE SweepEnds
  <2>1. EnvTypeOK'
    BY <1>1, <1>11 DEF SweepEnds, EnvTypeOK
  <2>2. BackendTypeOK'
    BY <1>1, <1>11, HandTypes DEF SweepEnds, RestoreOne, ButChip, BackendTypeOK
  <2> QED BY <1>0, <1>2, <1>5, <1>11, <2>1, <2>2 DEF SweepEnds
<1>12. CASE PanicPins
  <2>1. cfg \in Configs /\ cfg.max \in Duties
    BY <1>1, TickAssumption DEF EnvTypeOK
  <2>2. BackendTypeOK'
    BY <1>1, <1>12, <2>1, ThroughIsDuty DEF PanicPins, ButChip, BackendTypeOK
  <2> QED BY <1>0, <1>1, <1>4, <1>12, <2>2, PanicTypes DEF PanicPins
<1>13. CASE PanicPress \/ PanicCallback
  <2>1. PICK callback \in BOOLEAN : Press \/ Fire \/ RestorePanic(callback)
    BY <1>13 DEF PanicPress, PanicCallback
  <2>2. UNCHANGED <<bVars, cVars>>
    BY <1>13 DEF PanicPress, PanicCallback
  <2> QED BY <1>0, <1>1, <1>3, <1>4, <2>1, <2>2, PanicTypes
<1>14. CASE Firmware
  <2>1. BackendTypeOK'
    BY <1>1, <1>14, BackendAssumption DEF Firmware, FirmwareReverts, BackendTypeOK
  <2> QED BY <1>0, <1>2, <1>4, <1>14, <2>1 DEF Firmware
<1>15. CASE UNCHANGED tickVars
  BY <1>0, <1>2, <1>3, <1>4, <1>15 DEF tickVars
<1> QED
  BY <1>6, <1>7, <1>8, <1>9, <1>10, <1>11, <1>12, <1>13, <1>14, <1>15 DEF TickNext

\* The types hold at the start.
LEMMA TickTypeInit == TickInit => TickTypeOK /\ FiredInv
<1> SUFFICES ASSUME TickInit PROVE TickTypeOK /\ FiredInv
  OBVIOUS
<1>1. BackendTypeOK
  <2>1. exposes \in BOOLEAN /\ acquired \in BOOLEAN
    BY Zenon DEF TickInit, BackendInit
  <2>2. enable \in {"manual", "auto"} /\ checked \in 0 .. CheckInterval /\ reverts \in 0 .. MaxReverts
    BY BackendAssumption DEF TickInit, BackendInit
  <2>3. duty \in Duties /\ want \in Duties /\ wpc = "idle" /\ wres = "none"
    BY BackendAssumption DEF TickInit, BackendInit, Duties
  <2> QED BY <2>1, <2>2, <2>3 DEF BackendTypeOK
<1>2. {Debounce, SentinelMax, MaxReloads, MaxSweeps, MaxPresses} \subseteq Nat /\ 0 \in Levels
  BY TickAssumption
<1>3. PanicTypeOK /\ FiredInv
  <2>1. active \in BOOLEAN /\ timer \in BOOLEAN /\ timer = FALSE /\ pinning \in BOOLEAN
    BY Zenon DEF TickInit, PanicInit
  <2>2. fired = 0 /\ presses = 0 /\ MaxPresses \in Nat
    BY <1>2 DEF TickInit, PanicInit
  <2> QED BY <2>1, <2>2 DEF PanicTypeOK, FiredInv
<1>4. /\ calibrating \in BOOLEAN /\ engaged \in BOOLEAN
      /\ unbound \in BOOLEAN /\ refused \in BOOLEAN
  BY Zenon DEF TickInit
<1>5. reloads \in 0 .. MaxReloads /\ sweeps \in 0 .. MaxSweeps /\ lastTemp \in Levels
  BY <1>2 DEF TickInit
<1> QED BY <1>1, <1>2, <1>3, <1>4, <1>5 DEF TickInit, TickTypeOK, None

\* Only the button's own steps change its state.
LEMMA PanicMoves ==
    ASSUME [TickNext]_tickVars, ~UNCHANGED pVars
    PROVE  \E callback \in BOOLEAN : Press \/ Pinned \/ Fire \/ RestorePanic(callback)
<1>1. TickStep => UNCHANGED pVars
  BY DEF TickStep, Unbinds, ManualTick, SentinelTick, RefusingTick, HoldingTick, WritingTick,
         Evaluate, BackendStep, WriteSucceeded, WriteDenied, WriteRetried, WriteGivesUp, Done
<1>2. Clock \/ Reload \/ Weather \/ SweepBegins \/ SweepEnds \/ Firmware \/ UNCHANGED tickVars
      => UNCHANGED pVars
  BY DEF Clock, Reload, Weather, SweepBegins, SweepEnds, Firmware, tickVars
<1>3. PanicPress \/ PanicPins \/ PanicCallback
      => \E callback \in BOOLEAN : Press \/ Pinned \/ Fire \/ RestorePanic(callback)
  BY DEF PanicPress, PanicPins, PanicCallback
<1> QED BY <1>1, <1>2, <1>3 DEF TickNext

\* The safety half of TimedPanicEnds: a timer that has been armed, or the callback
\* it has started, is lost only with the flag or to another press.
ClockStays == [][Clocked /\ presses' = presses => Clocked' \/ ~active']_pVars

\* Every step of the button keeps it.
LEMMA ClockStep ==
    ASSUME PanicTypeOK, NEW callback \in BOOLEAN,
           Press \/ Pinned \/ Fire \/ RestorePanic(callback), presses' = presses, Clocked
    PROVE  Clocked' \/ ~active'
<1>1. fired \in Nat /\ presses \in Nat
  BY TickAssumption DEF PanicTypeOK
<1>2. ~Press
  BY <1>1 DEF Press
<1>3. CASE Pinned
  BY <1>3 DEF Pinned, Clocked
<1>4. CASE Fire
  BY <1>1, <1>4 DEF Fire, Clocked
<1>5. CASE RestorePanic(callback)
  BY <1>5 DEF RestorePanic
<1> QED BY <1>2, <1>3, <1>4, <1>5

\* A panic with a duration keeps its clock, whichever presses, cancels and late
\* callbacks meet (internal/web/panic.go): no order of them leaves the fans pinned
\* by a panic whose timer is gone, unless the last press asked for that.
THEOREM PanicKeepsItsClock == LiveTicks => ClockStays
<1>1. TicksInit => TickTypeOK /\ FiredInv
  BY TickTypeInit DEF TicksInit, TroubleInit
<1>2. [TicksNext]_ticksVars => [TickNext]_tickVars
  BY DEF TicksNext, OnlyController, OnlyScheduler, ticksVars, TroubleNext
<1>3. TickTypeOK /\ FiredInv /\ [TicksNext]_ticksVars => (TickTypeOK /\ FiredInv)'
  BY <1>2, TickTypeStep
<1>4. TickTypeOK /\ [TicksNext]_ticksVars
      => [Clocked /\ presses' = presses => Clocked' \/ ~active']_pVars
  <2> SUFFICES ASSUME TickTypeOK, [TickNext]_tickVars, ~UNCHANGED pVars, Clocked, presses' = presses
               PROVE  Clocked' \/ ~active'
    BY <1>2
  <2>1. PICK callback \in BOOLEAN : Press \/ Pinned \/ Fire \/ RestorePanic(callback)
    BY PanicMoves
  <2> QED BY <2>1, ClockStep DEF TickTypeOK
<1> QED BY <1>1, <1>3, <1>4, PTL DEF LiveTicks, ClockStays

\* TicksTypeOK: every variable of the controller's tick and of the scheduler
\* keeps its range; no more callbacks of the panic button wait than it was
\* pressed, and the winner of the windows is a profile that exists.
THEOREM TicksTyped == LiveTicks => []TicksTypeOK
<1>1. TicksInit => TickTypeOK /\ FiredInv
  BY TickTypeInit DEF TicksInit, TroubleInit
<1>2. TickTypeOK /\ FiredInv /\ [TicksNext]_ticksVars => (TickTypeOK /\ FiredInv)'
  <2>1. [TicksNext]_ticksVars => [TickNext]_tickVars
    BY DEF TicksNext, OnlyController, OnlyScheduler, ticksVars, TroubleNext
  <2> QED BY <2>1, TickTypeStep
<1>3. TicksInit => ScheduleTypeOK /\ KeepInv
  BY KeepInit DEF TicksInit
<1>4. ScheduleTypeOK /\ KeepInv /\ [TicksNext]_ticksVars => (ScheduleTypeOK /\ KeepInv)'
  <2>1. [TicksNext]_ticksVars => [ScheduleNext]_sVars
    BY DEF TicksNext, OnlyController, OnlyScheduler, ticksVars
  <2> QED BY <2>1, ScheduleTypeStep, KeepStep DEF KeepInv
<1>5. TickTypeOK /\ ScheduleTypeOK => TicksTypeOK
  BY DEF TicksTypeOK
<1> QED BY <1>1, <1>2, <1>3, <1>4, <1>5, PTL DEF LiveTicks
==============================================================================
