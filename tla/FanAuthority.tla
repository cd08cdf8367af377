---------------------------- MODULE FanAuthority ----------------------------
(***************************************************************************)
(* What ventd promises about who decides the speed of a fan, whatever the  *)
(* daemon does in between: a fan is orphaned, pinned at the last duty byte *)
(* of a process that is gone, only by the sudden death of that process,    *)
(* and an orphan is owed, and gets, a handback to the firmware.            *)
(***************************************************************************)
CONSTANT Channel

VARIABLES
    owner,      \* owner[c]: who decides the speed of fan c
    alive,      \* the daemon runs
    owed,       \* fans ventd-recover has still to hand back
    excused     \* fans the exiting daemon does not answer for

authority == <<owner, alive, owed>>

Init ==
    /\ owner = [c \in Channel |-> "firmware"]
    /\ alive = FALSE
    /\ owed = {}

Orphaned == [c \in Channel |-> IF owner[c] = "ventd" THEN "orphan" ELSE owner[c]]
Adopted == [c \in Channel |-> IF owner[c] = "orphan" THEN "ventd" ELSE owner[c]]

Boot ==
    /\ ~alive
    /\ alive' = TRUE
    /\ owner' = Adopted
    /\ UNCHANGED owed

Take(c) ==
    /\ alive
    /\ owner' = [owner EXCEPT ![c] = "ventd"]
    /\ UNCHANGED <<alive, owed>>

\* By a restore of the daemon, or by the firmware's own doing.
Release(c) ==
    /\ owner' = [owner EXCEPT ![c] = "firmware"]
    /\ UNCHANGED <<alive, owed>>

\* An orderly exit has handed back every fan it answers for.
Leave ==
    /\ alive
    /\ \A c \in Channel \ excused : owner[c] = "firmware"
    /\ alive' = FALSE
    /\ owner' = Orphaned
    /\ UNCHANGED owed

\* A failed exit, or no exit at all: recovery owes every fan.
Die ==
    /\ alive
    /\ alive' = FALSE
    /\ owner' = Orphaned
    /\ owed' = Channel

HandBack(c) ==
    /\ c \in owed
    /\ owner' = [owner EXCEPT ![c] = "firmware"]
    /\ owed' = owed \ {c}
    /\ UNCHANGED alive

Next ==
    \/ Boot \/ Leave \/ Die
    \/ \E c \in Channel : Take(c) \/ Release(c) \/ HandBack(c)

Spec == Init /\ [][Next]_authority /\ \A c \in Channel : WF_authority(HandBack(c))
=============================================================================
