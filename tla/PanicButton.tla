---------------------------- MODULE PanicButton ----------------------------
(***************************************************************************)
(* internal/web/panic.go: the panic button.  A press stops the running     *)
(* timer, sets the flag that makes the controllers yield, arms a new timer *)
(* and, after releasing the lock, writes MaxPWM to every fan once.  The    *)
(* timer's callback and the cancel handler both clear the flag.            *)
(***************************************************************************)
EXTENDS Integers

CONSTANTS MaxPresses   \* bound: presses of the button

VARIABLES
    active,      \* panicState.active
    timer,       \* a timer is armed
    fired,       \* callbacks that have started and wait for the lock
    pinning,     \* the handler still has to write MaxPWM
    presses

pVars == <<active, timer, fired, pinning, presses>>

PanicTypeOK ==
    /\ active \in BOOLEAN
    /\ timer \in BOOLEAN
    /\ fired \in 0..MaxPresses
    /\ pinning \in BOOLEAN
    /\ presses \in 0..MaxPresses

PanicInit ==
    /\ active = FALSE
    /\ timer = FALSE
    /\ fired = 0
    /\ pinning = FALSE
    /\ presses = 0

\* handlePanic up to the unlock.  timer.Stop does not recall a callback that
\* has already started.
Press ==
    /\ ~pinning
    /\ presses < MaxPresses
    /\ presses' = presses + 1
    /\ active' = TRUE
    /\ timer' \in BOOLEAN
    /\ pinning' = TRUE
    /\ UNCHANGED fired

\* writeMaxPWMToAllFans; what it does to a fan is the composing module's.
Pinned ==
    /\ pinning
    /\ pinning' = FALSE
    /\ UNCHANGED <<active, timer, fired, presses>>

\* time.AfterFunc starts the callback in a goroutine of its own.
Fire ==
    /\ timer
    /\ timer' = FALSE
    /\ fired' = fired + 1
    /\ UNCHANGED <<active, pinning, presses>>

\* Mutant of RestorePanic: the callback gives way to a cancel or a new press.
RestorePanicOnlyArmed(callback) ==
    /\ IF callback THEN fired > 0 /\ fired' = fired - 1
                   ELSE active /\ UNCHANGED fired
    /\ active' = (active /\ callback /\ ~timer)
    /\ timer' = FALSE
    /\ UNCHANGED <<pinning, presses>>

\* restorePanic: by the callback, or by the cancel handler.
RestorePanic(callback) ==
    /\ IF callback THEN fired > 0 /\ fired' = fired - 1
                   ELSE active /\ UNCHANGED fired
    /\ active' = FALSE
    /\ timer' = FALSE
    /\ UNCHANGED <<pinning, presses>>

IsPanicked == active

-----------------------------------------------------------------------------

\* A timer or its callback is there to clear the flag.
Clocked == timer \/ fired > 0

\* A panic with a duration ends unless another press replaces it, which the
\* last one none does: its flag does not outlive the timer and the callbacks
\* that clear it, whatever presses came before and whatever cancels after it.
TimedPanicEnds == presses = MaxPresses /\ Clocked ~> ~active
=============================================================================
