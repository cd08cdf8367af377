------------------------------ MODULE Schedule ------------------------------
(***************************************************************************)
(* Profiles that follow the clock (internal/web/schedule.go, profiles.go,  *)
(* internal/config/schedule.go).  The scheduler's tick, an operator's pick *)
(* of a profile and an edit of a profile's schedule each load the live        *)
(* configuration and store another one in separate steps; reloads, a       *)
(* restart, the panic button and the clock come between.                   *)
(***************************************************************************)
EXTENDS Integers, FiniteSets, FiniteSetsExt

CONSTANTS
    Profiles,       \* their names: numbers, in the names' order
    WeekDays,       \* 7
    DayLen,         \* 1440 minutes
    Windows,        \* the schedules an operator can give a profile
    MaxClock,       \* bound: minutes that pass
    Interventions   \* bound: picks, edits, reloads, restarts, panics

NoProfile == 0
Unscheduled == [start |-> 0, end |-> 0, days |-> {}]

ASSUME ScheduleAssumption ==
    /\ Profiles \subseteq Nat \ {NoProfile} /\ IsFiniteSet(Profiles) /\ Profiles # {}
    /\ {WeekDays, DayLen} \subseteq Nat \ {0}
    /\ Windows \subseteq [start : 0 .. DayLen - 1, end : 0 .. DayLen - 1, days : SUBSET (0 .. WeekDays - 1)]
    /\ \A w \in Windows : w.start # w.end /\ w.days # {}
    /\ {MaxClock, Interventions} \subseteq Nat

VARIABLES
    running,       \* the live configuration: active profile, schedules
    onDisk,     \* the file's
    clock,      \* minutes since the week began
    lastScheduled, manualOverride,   \* scheduleState
    pinned,     \* a panic is on
    ticking,    \* the scheduler's goroutine
    picking,    \* the request of a profile; history: a tick or an edit crosses it
    editing,    \* the request of a schedule
    stands,     \* history: the pick that must stand, or NoProfile
    minutes, interventions

sVars == <<running, onDisk, clock, lastScheduled, manualOverride, pinned, ticking,
           picking, editing, stands, minutes, interventions>>
scheduleState == <<lastScheduled, manualOverride>>
sBounds == <<minutes, interventions>>

SchedConfig == [active : Profiles, schedule : [Profiles -> Windows \cup {Unscheduled}]]
NoCopy == [active |-> NoProfile, schedule |-> [p \in Profiles |-> Unscheduled]]
Copy == SchedConfig \cup {NoCopy}
WeekLen == WeekDays * DayLen
Wish == Profiles \cup {NoProfile}

ScheduleTypeOK ==
    /\ {running, onDisk} \subseteq SchedConfig /\ clock \in 0 .. WeekLen - 1
    /\ lastScheduled \in Wish /\ {manualOverride, pinned} \subseteq BOOLEAN
    /\ ticking \in [at : {"wait", "computed", "passed", "loaded"}, winner : Wish, active : Wish, next : Copy]
    /\ picking \in [at : {"none", "begun", "marked", "loaded"}, name : Wish, crossed : BOOLEAN, next : Copy]
    /\ editing \in [at : {"none", "loaded", "saved"}, next : Copy]
    /\ stands \in Wish /\ minutes \in 0 .. MaxClock /\ interventions \in 0 .. Interventions

-----------------------------------------------------------------------------
(* The windows and the winner. *)

Wraps(w) == w.start > w.end

\* Mutant of StartDay: the part after midnight belongs to the day it is in.
SameDay(w, t) == t \div DayLen

\* The day a window that holds t began on: the early half of one that wraps
\* belongs to yesterday.
StartDay(w, t) ==
    IF Wraps(w) /\ t % DayLen < w.start
      THEN (t \div DayLen + WeekDays - 1) % WeekDays ELSE t \div DayLen

Matches(w, t) ==
    LET hm == t % DayLen
    IN /\ IF Wraps(w) THEN hm >= w.start \/ hm < w.end ELSE hm >= w.start /\ hm < w.end
       /\ StartDay(w, t) \in w.days

DurationMin(w) == IF Wraps(w) THEN DayLen - w.start + w.end ELSE w.end - w.start

\* The overlap tiebreak: fewer days, then shorter, then the name.
Beats(s, p, q) ==
    LET pd == Cardinality(s[p].days)  qd == Cardinality(s[q].days)
    IN \/ pd < qd
       \/ pd = qd /\ DurationMin(s[p]) < DurationMin(s[q])
       \/ pd = qd /\ DurationMin(s[p]) = DurationMin(s[q]) /\ p < q

Fallbacks(s) == {p \in Profiles : s[p] = Unscheduled}

\* computeActiveProfile, computeWinner.
ActiveProfile(s, t) ==
    LET matches == {p \in Profiles \ Fallbacks(s) : Matches(s[p], t)}
    IN IF matches # {} THEN CHOOSE p \in matches : \A q \in matches \ {p} : Beats(s, p, q)
       ELSE IF Fallbacks(s) # {} THEN Min(Fallbacks(s))
       ELSE NoProfile

-----------------------------------------------------------------------------
IdleTick == [at |-> "wait", winner |-> NoProfile, active |-> NoProfile, next |-> NoCopy]
NoPick == [at |-> "none", name |-> NoProfile, crossed |-> FALSE, next |-> NoCopy]
NoEdit == [at |-> "none", next |-> NoCopy]

ScheduleInit ==
    /\ running \in SchedConfig /\ onDisk = running /\ clock \in 0 .. WeekLen - 1
    /\ lastScheduled = NoProfile /\ manualOverride = FALSE /\ pinned = FALSE
    /\ ticking = IdleTick /\ picking = NoPick /\ editing = NoEdit
    /\ stands = NoProfile /\ minutes = 0 /\ interventions = 0

Intervenes == interventions < Interventions /\ interventions' = interventions + 1 /\ UNCHANGED minutes

\* scheduleTick: now, the live configuration, and who should be active.
TickComputes ==
    /\ ticking.at = "wait"
    /\ ticking' = [ticking EXCEPT !.at = "computed", !.active = running.active,
                                  !.winner = ActiveProfile(running.schedule, clock)]
    /\ UNCHANGED <<running, onDisk, clock, scheduleState, pinned, picking, editing, stands, sBounds>>

\* Mutant of MayApply: a tick applies on a transition only.
OnTransition(changed) == changed /\ ticking.winner \notin {NoProfile, ticking.active}

\* Whether a tick that is not suppressed goes on.
MayApply(changed) == ticking.winner \notin {NoProfile, ticking.active}

\* observe, which forgets the override when the winner is another one.
TickObserves ==
    LET changed == ticking.winner # lastScheduled
    IN /\ ticking.at = "computed"
       /\ lastScheduled' = ticking.winner
       /\ manualOverride' = (manualOverride /\ ~changed)
       /\ ticking' = IF ~manualOverride' /\ MayApply(changed)
                       THEN [ticking EXCEPT !.at = "passed", !.active = NoProfile] ELSE IdleTick
       /\ stands' = (IF changed THEN NoProfile ELSE stands)
       /\ picking' = (IF picking.at = "none" THEN NoPick
                      ELSE [picking EXCEPT !.crossed = @ \/ changed])
       /\ UNCHANGED <<running, onDisk, clock, pinned, editing, sBounds>>

\* IsPanicked, then applyProfile's load and clone ...
TickApplies ==
    /\ ticking.at = "passed"
    /\ ticking' = IF pinned THEN IdleTick
                  ELSE [IdleTick EXCEPT !.at = "loaded", !.next = [running EXCEPT !.active = ticking.winner]]
    /\ UNCHANGED <<running, onDisk, clock, scheduleState, pinned, picking, editing, stands, sBounds>>

\* ... and its store.
TickStores ==
    /\ ticking.at = "loaded" /\ running' = ticking.next /\ ticking' = IdleTick
    /\ UNCHANGED <<onDisk, clock, scheduleState, pinned, picking, editing, stands, sBounds>>

\* handleProfileActive.
PickBegins(p) ==
    /\ picking.at = "none" /\ Intervenes
    /\ picking' = [NoPick EXCEPT !.at = "begun", !.name = p]
    /\ stands' = NoProfile
    /\ UNCHANGED <<running, onDisk, clock, scheduleState, pinned, ticking, editing>>

\* Mutant of MarkOverride: the flag is left for after the swap (issue #289).
MarkLater == UNCHANGED manualOverride

\* markManualOverride, before the swap.
MarkOverride == manualOverride' = TRUE

PickMarks ==
    /\ picking.at = "begun" /\ MarkOverride
    /\ picking' = [picking EXCEPT !.at = "marked", !.crossed = ticking.at \in {"passed", "loaded"} \/ editing # NoEdit]
    /\ UNCHANGED <<running, onDisk, clock, lastScheduled, pinned, ticking, editing, stands, sBounds>>

\* applyProfile: a name that is not there leaves the override marked.
PickLoads ==
    /\ picking.at = "marked"
    /\ picking' = IF picking.name \in Profiles
                    THEN [picking EXCEPT !.at = "loaded", !.next = [running EXCEPT !.active = picking.name]]
                    ELSE NoPick
    /\ UNCHANGED <<running, onDisk, clock, scheduleState, pinned, ticking, editing, stands, sBounds>>

PickStores ==
    /\ picking.at = "loaded" /\ running' = picking.next /\ picking' = NoPick
    /\ stands' = (IF picking.crossed THEN NoProfile ELSE picking.name)
    /\ UNCHANGED <<onDisk, clock, scheduleState, pinned, ticking, editing, sBounds>>

\* handleProfileSchedule: a copy of the live configuration, ...
EditLoads(p, w) ==
    /\ editing.at = "none" /\ Intervenes
    /\ editing' = [at |-> "loaded", next |-> [running EXCEPT !.schedule[p] = w]]
    /\ picking' = (IF picking = NoPick THEN NoPick ELSE [picking EXCEPT !.crossed = TRUE])
    /\ UNCHANGED <<running, onDisk, clock, scheduleState, pinned, ticking, stands>>

\* ... Save, or its error, ...
EditSaves(ok) ==
    /\ editing.at = "loaded"
    /\ editing' = (IF ok THEN [editing EXCEPT !.at = "saved"] ELSE NoEdit)
    /\ onDisk' = (IF ok THEN editing.next ELSE onDisk)
    /\ UNCHANGED <<running, clock, scheduleState, pinned, ticking, picking, stands, sBounds>>

\* ... and the store.
EditStores ==
    /\ editing.at = "saved" /\ running' = editing.next
    /\ editing' = NoEdit
    /\ UNCHANGED <<onDisk, clock, scheduleState, pinned, ticking, picking, stands, sBounds>>

\* The main loop's reload.
ReloadProfiles ==
    /\ Intervenes /\ running' = onDisk
    /\ stands' = NoProfile
    /\ picking' = (IF picking = NoPick THEN NoPick ELSE [picking EXCEPT !.crossed = TRUE])
    /\ UNCHANGED <<onDisk, clock, scheduleState, pinned, ticking, editing>>

\* A new process: nothing of the scheduler's is on disk.
RestartScheduler ==
    /\ Intervenes /\ running' = onDisk
    /\ lastScheduled' = NoProfile /\ manualOverride' = FALSE /\ pinned' = FALSE
    /\ ticking' = IdleTick /\ picking' = NoPick /\ editing' = NoEdit
    /\ stands' = NoProfile /\ UNCHANGED <<onDisk, clock>>

\* The panic button and its end.
PanicTurns ==
    /\ Intervenes /\ pinned' = ~pinned
    /\ UNCHANGED <<running, onDisk, clock, scheduleState, ticking, picking, editing, stands>>

\* A minute of the week.
MinutePasses ==
    /\ minutes < MaxClock /\ minutes' = minutes + 1
    /\ clock' = (clock + 1) % WeekLen
    /\ UNCHANGED <<running, onDisk, scheduleState, pinned, ticking, picking, editing, stands, interventions>>

SchedulerStep == TickComputes \/ TickObserves \/ TickApplies \/ TickStores

ScheduleNext ==
    \/ SchedulerStep
    \/ \E p \in Wish : PickBegins(p)
    \/ PickMarks \/ PickLoads \/ PickStores
    \/ \E p \in Profiles, w \in Windows \cup {Unscheduled} : EditLoads(p, w)
    \/ \E ok \in BOOLEAN : EditSaves(ok)
    \/ EditStores \/ ReloadProfiles \/ RestartScheduler \/ PanicTurns \/ MinutePasses

-----------------------------------------------------------------------------
\* A pick made while no tick was past its override check and no edit of a
\* schedule was under way stays active until a tick sees another winner, a
\* reload or another request (schedule.go:22-25), however the ticks' steps
\* fall between its own.
PickStands == stands # NoProfile => running.active = stands

\* A window matches the minutes that start at its start on one of its days
\* and last as long as DurationMin says, over midnight and over the week's
\* end (schedule.go:29-33 of internal/config).
WindowsMatch ==
    \A w \in Windows :
        Matches(w, clock) <=>
            \E d \in w.days, i \in 0 .. DurationMin(w) - 1 :
                clock = (d * DayLen + w.start + i) % WeekLen

ScheduleIsKept == PickStands /\ WindowsMatch

\* When requests, reloads, restarts and the clock come to rest, the profile
\* the schedule wants becomes active, unless a pick or a panic holds it off,
\* whatever a stale store undid before.
Settled ==
    \/ pinned \/ manualOverride
    \/ ActiveProfile(running.schedule, clock) \in {NoProfile, running.active}
ScheduleRules == <>[]Settled
=============================================================================
