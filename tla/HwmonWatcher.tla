---------------------------- MODULE HwmonWatcher ----------------------------
(***************************************************************************)
(* internal/hwmon/watcher.go: the topology watcher.  It compares what it   *)
(* enumerates, on a uevent, on the rescan ticker or when its settle timer  *)
(* fires, with the topology it last confirmed, and reports a difference    *)
(* that held for the debounce window; for a chip that was added it also    *)
(* asks the daemon to rebind (cmd/ventd/rebind_trigger.go).                *)
(*                                                                         *)
(* Timers fire before time goes on.                                        *)
(***************************************************************************)
EXTENDS Integers, FiniteSets

CONSTANTS
    Chips,        \* StableDevice paths
    Configured,   \* the chips some fan or sensor is bound to
    Shapes,       \* fingerprints
    NoChip,       \* a path that is not there
    Rescan,       \* defaultRescanPeriod
    Settle,       \* defaultDebounce
    RebindEvery,  \* defaultRebindMinInterval
    Uevents,      \* the netlink subscription works
    MaxChanges    \* a bound

ASSUME WatcherAssumption ==
    /\ Configured \subseteq Chips /\ NoChip \notin Shapes
    /\ Rescan \in Nat \ {0} /\ Settle \in Nat \ {0} /\ RebindEvery \in Nat

VARIABLES
    actual,      \* what an enumeration would return now
    confirmed,   \* Watcher.stable
    pending,     \* Watcher.pending: a candidate and its age, or NoPending
    rescanAge, settleAge,   \* the timers; settleAge is Unarmed when not armed
    rebindAge,   \* age of lastRebindAt, saturated at RebindEvery
    uevent,      \* a message is in the channel
    restart,     \* restartCh holds a signal
    steady,      \* chip -> for how long it has not changed
    lastSeen,    \* chip -> what the last check saw
    seenFor,     \* chip -> for how long every check has seen that
    changes

wVars == <<actual, confirmed, pending, rescanAge, settleAge, rebindAge, uevent, restart,
           steady, lastSeen, seenFor, changes>>

Unarmed == -1
NoPending == [shape |-> NoChip, age |-> -1]
Horizon == Rescan + 2 * Settle   \* ages above make no difference
Cap(n) == IF n > Horizon THEN Horizon ELSE n

WatcherInit ==
    /\ actual \in [Chips -> Shapes \cup {NoChip}] /\ confirmed = actual
    /\ pending = [k \in Chips |-> NoPending]
    /\ rescanAge = 0 /\ settleAge = Unarmed /\ rebindAge = RebindEvery
    /\ uevent = FALSE /\ restart = FALSE
    /\ steady = [k \in Chips |-> 0] /\ lastSeen = actual /\ seenFor = [k \in Chips |-> 0]
    /\ changes = 0

\* The kernel adds, removes or reloads a chip.  The message may be lost: the
\* channel is full, or the socket's buffer was.
ChipChanges(k) ==
    /\ changes < MaxChanges /\ changes' = changes + 1
    /\ \E s \in (Shapes \cup {NoChip}) \ {actual[k]} : actual' = [actual EXCEPT ![k] = s]
    /\ uevent' \in IF Uevents THEN {TRUE, uevent} ELSE {FALSE}
    /\ steady' = [steady EXCEPT ![k] = 0]
    /\ UNCHANGED <<confirmed, pending, rescanAge, settleAge, rebindAge, restart, lastSeen,
                   seenFor>>

-----------------------------------------------------------------------------
(* check *)

Differs(k) == actual[k] # confirmed[k]

\* Mutant of Stays: a candidate that flipped keeps its age.
StaysAny(k) == pending[k] # NoPending

Stays(k) == pending[k] # NoPending /\ pending[k].shape = actual[k]

Promoted == {k \in Chips : Differs(k) /\ Stays(k) /\ pending[k].age >= Settle}

\* What is pending after a check: nothing for a chip that agrees or has been
\* promoted, a fresh candidate for a new or flipped one.
PendingAfter ==
    [k \in Chips |-> IF ~Differs(k) \/ k \in Promoted THEN NoPending
                     ELSE IF Stays(k) THEN pending[k]
                     ELSE [shape |-> actual[k], age |-> 0]]

\* promote's "added": the path had no chip.
Added == {k \in Promoted : confirmed[k] = NoChip}

\* check, and arming the settle timer while something is pending.  Chips are
\* visited in any order: the first added one may take the rebind trigger, the
\* others are dropped; the trigger signals when its chip is configured.  With
\* nothing pending the timer is left as it is.
Check(left) ==
    /\ confirmed' = [k \in Chips |-> IF k \in Promoted THEN actual[k] ELSE confirmed[k]]
    /\ pending' = PendingAfter
    /\ settleAge' = IF \E k \in Chips : PendingAfter[k] # NoPending THEN 0 ELSE left
    /\ lastSeen' = actual
    /\ seenFor' = [k \in Chips |-> IF lastSeen[k] = actual[k] THEN seenFor[k] ELSE 0]
    /\ IF Added = {} THEN UNCHANGED <<rebindAge, restart>>
       ELSE \E first \in Added :
              LET called == IF rebindAge >= RebindEvery THEN {first} ELSE {}
              IN  /\ rebindAge' = IF called = {} THEN rebindAge ELSE 0
                  /\ restart' = (restart \/ called \cap Configured # {})
    /\ UNCHANGED <<actual, steady, changes>>

OnUevent == uevent /\ uevent' = FALSE /\ Check(settleAge) /\ UNCHANGED rescanAge

OnRescan == rescanAge >= Rescan /\ rescanAge' = 0 /\ Check(settleAge) /\ UNCHANGED uevent

\* Mutant of SettleDue: the settle timer is not armed again.
NeverDue == FALSE

SettleDue == settleAge >= Settle

OnSettle == SettleDue /\ Check(Unarmed) /\ UNCHANGED <<rescanAge, uevent>>

\* The main loop takes the signal and resolves every path again.
TakeRestart ==
    /\ restart /\ restart' = FALSE
    /\ UNCHANGED <<actual, confirmed, pending, rescanAge, settleAge, rebindAge, uevent, steady,
                   lastSeen, seenFor, changes>>

\* Time passes once every timer that is due has been served.
TimePasses ==
    /\ rescanAge < Rescan /\ ~SettleDue /\ ~uevent
    /\ rescanAge' = rescanAge + 1
    /\ settleAge' = IF settleAge = Unarmed THEN Unarmed ELSE settleAge + 1
    /\ rebindAge' = IF rebindAge < RebindEvery THEN rebindAge + 1 ELSE rebindAge
    /\ pending' = [k \in Chips |-> IF pending[k] = NoPending THEN NoPending
                                   ELSE [pending[k] EXCEPT !.age = Cap(@ + 1)]]
    /\ steady' = [k \in Chips |-> Cap(steady[k] + 1)]
    /\ seenFor' = [k \in Chips |-> Cap(seenFor[k] + 1)]
    /\ UNCHANGED <<actual, confirmed, uevent, restart, lastSeen, changes>>

WatcherNext ==
    \/ OnUevent \/ OnRescan \/ OnSettle \/ TakeRestart \/ TimePasses
    \/ \E k \in Chips : ChipChanges(k)

-----------------------------------------------------------------------------
WatcherTypeOK ==
    /\ confirmed \in [Chips -> Shapes \cup {NoChip}]
    /\ settleAge = Unarmed => \A k \in Chips : pending[k] = NoPending
    /\ \A k \in Chips : pending[k] # NoPending => pending[k].shape # confirmed[k]

\* A change that lasts is confirmed at the latest one rescan and two settle
\* windows after it, whatever messages are lost and however the other chips
\* keep the settle timer busy: a check just before the window is over arms the
\* timer for a whole window again.
NoticedInTime ==
    \A k \in Chips : steady[k] >= Horizon => confirmed[k] = actual[k]

\* A flap that some check saw end within the settle window is not reported:
\* what is confirmed is what every check of the last settle window saw.
FlapsAreSilent ==
    [][\A k \in Chips : confirmed'[k] # confirmed[k] =>
          lastSeen[k] = confirmed'[k] /\ seenFor[k] >= Settle]_wVars
=============================================================================
