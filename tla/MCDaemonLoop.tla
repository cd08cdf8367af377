---------------------------- MODULE MCDaemonLoop ----------------------------
(***************************************************************************)
(* DaemonLoop on two fans, one of them bound, with one free hwmon          *)
(* directory, under edits, failures and signals (part "edits"); and with   *)
(* both fans bound, where the kernel alone disturbs (part "follow").       *)
(***************************************************************************)
EXTENDS DaemonLoop

CONSTANTS cpu, aux, p1, p2

VARIABLE part

MCHome == [f \in Fan |-> IF f = cpu THEN p1 ELSE p2]

BothBound == [f \in Fan |-> [path |-> Home[f], bound |-> TRUE, chip |-> NoChip]]

Undisturbed ==
    /\ edit' = "none" /\ web' # "sending"
    /\ \A i \in DOMAIN ctl' : ctl'[i].st # "sending"

PartsInit ==
    \/ part = "edits" /\ LoopInit
    \/ part = "follow" /\ StartedWith(BothBound)

PartsNext == LoopNext /\ (part = "follow" => Undisturbed) /\ UNCHANGED part

LiveLoopParts == PartsInit /\ [][PartsNext]_<<part, loopVars>> /\ LoopFairness

\* A path has one writer, across every order of edits, renumbering, failures
\* and signals, and one registration, unless the file keeps an old path.
PathsAreExclusive ==
    LoopTypeOK /\ OneWriterPerPath /\ (part = "edits" => NoStackedEntry)

\* BoundFansAreDriven, of the behaviours that only the kernel disturbs: every
\* fan with a control that is on the bus ends up with a live writer at its
\* path, wherever the kernel has moved it.
MovedFansAreDriven == part = "follow" => BoundFansAreDriven
=============================================================================
