------------------------------ MODULE MCTicks ------------------------------
(***************************************************************************)
(* Two goroutines that tick, in one run: the controller of a fan and the   *)
(* scheduler of profiles.  A behaviour is one part's.                      *)
(***************************************************************************)
EXTENDS MCControllerTick, Schedule

VARIABLE part

ticksVars == <<part, tickVars, sVars>>

\* A night that ends in the next day, and a day's window on every day.
TwoWindows == {[start |-> 2, end |-> 1, days |-> {0}], [start |-> 0, end |-> 2, days |-> {0, 1}]}

TicksInit ==
    /\ part \in {"controller", "scheduler"} /\ TroubleInit /\ ScheduleInit
    /\ part = "controller" => clock = 0 /\ running = CHOOSE c \in SchedConfig : TRUE
    /\ part = "scheduler" =>
         /\ polarity = "normal" /\ cfg = Capped
         /\ running.active = 1 /\ running.schedule[2] # Unscheduled

OnlyController == part = "controller" /\ UNCHANGED <<part, sVars>>
OnlyScheduler == part = "scheduler" /\ UNCHANGED <<part, tickVars>>

TicksNext ==
    \/ OnlyController /\ TroubleNext
    \/ OnlyScheduler /\ ScheduleNext

LiveTicks ==
    /\ TicksInit /\ [][TicksNext]_ticksVars
    /\ WF_ticksVars(OnlyController /\ TickStep) /\ SF_ticksVars(OnlyController /\ Clock)
    /\ WF_ticksVars(OnlyController /\ SweepEnds) /\ WF_ticksVars(OnlyController /\ PanicCallback)
    /\ WF_ticksVars(OnlyScheduler /\ SchedulerStep)

TicksTypeOK == TickTypeOK /\ ScheduleTypeOK
=============================================================================
