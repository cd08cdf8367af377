----------------------------- MODULE Heartbeat -----------------------------
(***************************************************************************)
(* The systemd watchdog and the control loops that feed it                 *)
(* (cmd/ventd/watchdog_liveness.go, internal/sdnotify, main.go).  Every    *)
(* controller stamps one shared time at the end of each of its ticks; the  *)
(* heartbeat pings systemd each second while the stamp is younger than a   *)
(* window fixed at start; systemd kills and restarts a daemon that has not *)
(* pinged for WatchdogSec.  Time goes by in whole seconds: what is due is  *)
(* done before the next second.                                            *)
(***************************************************************************)
EXTENDS Integers, FiniteSets

CONSTANTS Loops,        \* controllers a configuration can have
          Polls,        \* poll intervals a configuration can name, in seconds
          DefaultPoll,  \* of a daemon without a configuration
          WatchdogSec,  \* of deploy/ventd.service
          SlowTick,     \* how long one slow tick takes
          MaxSlow,      \* bound: slow ticks
          MaxDrains     \* bound: renumbers and first configurations

ASSUME HeartbeatAssumption ==
    /\ IsFiniteSet(Loops) /\ Polls \subseteq Nat \ {0}
    /\ {DefaultPoll, WatchdogSec, SlowTick} \subseteq Nat \ {0}
    /\ {MaxSlow, MaxDrains} \subseteq Nat

VARIABLES
    up,        \* the daemon's process runs
    window,    \* livenessWindow: how old the stamp may be
    filePoll,  \* poll_interval of the configuration file
    bare,      \* the live configuration has no controls
    cohort,    \* the controllers that run: state of each
    loopPoll,  \* the poll interval they were started with
    draining,  \* the main loop waits for the cohort to end
    stamp,     \* seconds since the last tick ended, Never before the first
    silent,    \* seconds since the last ping
    late,      \* history: the stamp is of a cohort that was empty, slower or
               \* drained before it ticked
    slows, drains

hVars == <<up, window, filePoll, bare, cohort, loopPoll, draining, stamp,
           silent, late, slows, drains>>

Never == -1
WatchdogStallFloor == 8

\* Waiting for its ticker, inside a long tick, or wedged in one; "wait" is
\* the seconds to the ticker's next tick or to the end of the long one.
LoopStates == [at : {"select"}, wait : 0 .. loopPoll]
                 \cup [at : {"tick"}, wait : 0 .. SlowTick] \cup [at : {"stuck"}, wait : {0}]

HeartbeatTypeOK ==
    /\ {up, bare, draining, late} \subseteq BOOLEAN
    /\ window \in Nat /\ filePoll \in Polls /\ loopPoll \in Polls \cup {DefaultPoll}
    /\ DOMAIN cohort \subseteq Loops
    /\ \A l \in DOMAIN cohort : cohort[l] \in LoopStates
    /\ stamp \in Nat \cup {Never} /\ silent \in 0 .. WatchdogSec
    /\ slows \in 0 .. MaxSlow /\ drains \in 0 .. MaxDrains

\* Mutant of LivenessWindow: no floor under a fast poll.
Unfloored(p) == 5 * p

\* livenessWindow, computed once from the start-up configuration's poll.
LivenessWindow(p) == IF 5 * p < WatchdogStallFloor THEN WatchdogStallFloor ELSE 5 * p

\* Mutant of ControlLoopAlive: a ping that asks nobody.
PingsFreely(age) == TRUE

\* A loop that never ticked counts as alive.
ControlLoopAlive(age) == age = Never \/ age <= window

\* The controllers of a set, each at the start of a ticker of period p.
Started(ls, p) == [l \in ls |-> [at |-> "select", wait |-> p]]

Nobody == Started({}, 1)

\* The daemon starts, with its configuration or without one.
Boot(isBare) ==
    LET p == IF isBare THEN DefaultPoll ELSE filePoll
    IN /\ up' = TRUE /\ bare' = isBare
       /\ window' = LivenessWindow(p) /\ loopPoll' = p
       /\ cohort' = Started(IF isBare THEN {} ELSE Loops, p)
       /\ stamp' = Never /\ silent' = 0 /\ late' = FALSE

HeartbeatInit ==
    /\ up = FALSE /\ bare \in BOOLEAN /\ filePoll \in Polls
    /\ window = LivenessWindow(filePoll) /\ loopPoll = filePoll
    /\ cohort = Nobody /\ draining = FALSE /\ stamp = Never /\ silent = 0 /\ late = FALSE
    /\ slows = 0 /\ drains = 0

BootDaemon == ~up /\ Boot(bare) /\ UNCHANGED <<filePoll, draining, slows, drains>>

TickDue(l) == up /\ l \in DOMAIN cohort /\ cohort[l].at = "select" /\ cohort[l].wait = 0

\* Run's ticker case: a tick, then MarkSensorRead.
EndTick(l, next) ==
    /\ stamp' = 0 /\ late' = (late /\ silent > 0)
    /\ cohort' = [cohort EXCEPT ![l] = [at |-> "select", wait |-> next]]

QuickTick(l) ==
    /\ TickDue(l) /\ EndTick(l, loopPoll)
    /\ UNCHANGED <<up, window, filePoll, bare, loopPoll, draining, silent, slows, drains>>

BeginLongTick(l) ==
    /\ TickDue(l) /\ slows < MaxSlow /\ slows' = slows + 1
    /\ cohort' = [cohort EXCEPT ![l] = [at |-> "tick", wait |-> SlowTick]]
    /\ UNCHANGED <<up, window, filePoll, bare, loopPoll, draining, stamp, silent, late, drains>>

\* The ticker keeps one tick for a loop that comes back late.
EndLongTick(l) ==
    /\ up /\ l \in DOMAIN cohort /\ cohort[l].at = "tick" /\ cohort[l].wait = 0
    /\ EndTick(l, IF SlowTick >= loopPoll THEN 0 ELSE loopPoll - SlowTick)
    /\ UNCHANGED <<up, window, filePoll, bare, loopPoll, draining, silent, slows, drains>>

\* A tick that never returns: a sysfs write or a lock it waits on.
Wedge(l) ==
    /\ TickDue(l) /\ cohort' = [cohort EXCEPT ![l] = [at |-> "stuck", wait |-> 0]]
    /\ UNCHANGED <<up, window, filePoll, bare, loopPoll, draining, stamp, silent, late, slows, drains>>

\* A reload: the controllers that run keep their ticker.
ChangePoll ==
    /\ up /\ ~draining /\ ~bare /\ filePoll' \in Polls \ {filePoll}
    /\ UNCHANGED <<up, window, bare, cohort, loopPoll, draining, stamp, silent, late, slows, drains>>

\* The main loop: a configuration with a new poll interval and a renumber
\* that moves a controlled fan (drainCohort) ...
Renumber ==
    /\ up /\ ~draining /\ ~bare /\ drains < MaxDrains
    /\ drains' = drains + 1 /\ draining' = TRUE /\ filePoll' \in Polls
    /\ late' = (late \/ cohort = Nobody \/ LivenessWindow(loopPoll) > window)
    /\ UNCHANGED <<up, window, bare, cohort, loopPoll, stamp, silent, slows>>

\* ... on which a controller leaves from its select only ...
Leave(l) ==
    /\ up /\ draining /\ l \in DOMAIN cohort /\ cohort[l].at = "select"
    /\ cohort' = [m \in DOMAIN cohort \ {l} |-> cohort[m]]
    /\ UNCHANGED <<up, window, filePoll, bare, loopPoll, draining, stamp, silent, late, slows, drains>>

\* ... and reconcile starts the controls that resolve.
Respawn ==
    /\ up /\ draining /\ cohort = Nobody
    /\ draining' = FALSE /\ loopPoll' = filePoll
    /\ \E ls \in SUBSET Loops : cohort' = Started(ls, filePoll)
    /\ late' = (late \/ stamp > loopPoll)
    /\ UNCHANGED <<up, window, filePoll, bare, stamp, silent, slows, drains>>

\* The wizard's configuration reaches a daemon that had none.
FirstConfiguration ==
    /\ up /\ bare /\ drains < MaxDrains
    /\ drains' = drains + 1 /\ bare' = FALSE /\ filePoll' \in Polls
    /\ loopPoll' = filePoll'
    /\ \E ls \in SUBSET Loops : cohort' = Started(ls, filePoll')
    /\ UNCHANGED <<up, window, draining, stamp, silent, late, slows>>

\* A second goes by; the heartbeat's ticker fires at its end, unless systemd
\* has the process to kill.
Second ==
    /\ up /\ silent < WatchdogSec
    /\ \A l \in DOMAIN cohort :
          cohort[l].at # "stuck" => cohort[l].wait > 0 /\ ~(draining /\ cohort[l].at = "select")
    /\ draining => cohort # Nobody
    /\ cohort' = [l \in DOMAIN cohort |->
                     IF cohort[l].at = "stuck" THEN cohort[l]
                     ELSE [cohort[l] EXCEPT !.wait = @ - 1]]
    /\ stamp' = IF stamp = Never THEN Never ELSE stamp + 1
    /\ silent' = IF ControlLoopAlive(stamp') THEN 0 ELSE silent + 1
    /\ UNCHANGED <<up, window, filePoll, bare, loopPoll, draining, late, slows, drains>>

\* systemd: SIGKILL, no defer runs; the restart reads the file again.
WatchdogKill ==
    /\ up /\ silent = WatchdogSec
    /\ up' = FALSE /\ cohort' = Nobody /\ draining' = FALSE
    /\ stamp' = Never /\ silent' = 0 /\ late' = FALSE
    /\ UNCHANGED <<window, filePoll, bare, loopPoll, slows, drains>>

HeartbeatNext ==
    \/ BootDaemon \/ ChangePoll \/ Renumber \/ Respawn \/ FirstConfiguration
    \/ Second \/ WatchdogKill
    \/ \E l \in Loops : QuickTick(l) \/ BeginLongTick(l) \/ EndLongTick(l)
                          \/ Wedge(l) \/ Leave(l)

-----------------------------------------------------------------------------
\* Whatever the reloads, the renumbers and the slow ticks in between, systemd
\* kills the daemon only when no controller of its start-up's pace is left to
\* tick: all of them are wedged (or there are none any more), or the main
\* loop's drain waits for a wedged one, or they were started with a poll the
\* window was not computed from, or the stamp they began with was left by
\* such a cohort or by one that renumbers drained before its first tick.  A
\* slow tick no longer than WatchdogSec, a daemon without controllers and one
\* that has not ticked yet are not causes (watchdog_liveness.go:8, 18).
KilledForCause ==
    [][WatchdogKill =>
          \/ \A l \in DOMAIN cohort : cohort[l].at = "stuck"
          \/ draining /\ \E l \in DOMAIN cohort : cohort[l].at = "stuck"
          \/ LivenessWindow(loopPoll) > window \/ late]_hVars

\* Once a controller has ticked the daemon does not outlive the last tick by
\* more than the window and WatchdogSec, wherever its controllers and its main
\* loop are stuck.
StallIsCaught == up /\ stamp # Never => stamp <= window + WatchdogSec
=============================================================================
