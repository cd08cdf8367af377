---------------------------- MODULE HalContract ----------------------------
(***************************************************************************)
(* What internal/hal/backend.go asks of every FanBackend.  A call that     *)
(* reports success has done what it says: after a Write the fan follows    *)
(* the duty it was given, as finely as the device knows duties, and after  *)
(* a Restore it follows the firmware again, however often either was       *)
(* called before and whatever failed in between.  A call that reports an   *)
(* error may have been carried out, in part or not at all: the fan may be  *)
(* frozen at what the firmware gave it last, but it never follows a duty   *)
(* that no call has asked for, and no other board's fan is touched.        *)
(***************************************************************************)
CONSTANTS Fan, Firmware, Frozen

VARIABLES
    follows,    \* follows[f]: a duty, or Firmware
    asked,      \* asked[f]: the duties that calls asked for
    said        \* the last call: what it was, of which fans, and its report

contract == <<follows, asked, said>>

Init ==
    /\ asked = [f \in Fan |-> {}]
    /\ said = [call |-> "none", of |-> {}, ok |-> TRUE]

\* The fans of one board move together: of is those the call reaches.
Reached(f) == f \in said'.of

Written ==
    /\ said'.call = "write" /\ said'.ok
    /\ \E d \in UNION {asked'[f] : f \in said'.of} :
        /\ asked' = [f \in Fan |-> IF Reached(f) THEN asked[f] \cup {d} ELSE asked[f]]
        /\ follows' = [f \in Fan |-> IF Reached(f) THEN d ELSE follows[f]]

Restored ==
    /\ said'.call = "restore" /\ said'.ok
    /\ follows' = [f \in Fan |-> IF Reached(f) THEN Firmware ELSE follows[f]]
    /\ UNCHANGED asked

Failed ==
    /\ ~said'.ok
    /\ \A f \in Fan :
        /\ asked[f] \subseteq asked'[f]
        /\ ~Reached(f) => follows'[f] = follows[f] /\ asked'[f] = asked[f]
        /\ follows'[f] \in {follows[f], Firmware, Frozen} \cup asked'[f]

Spec == Init /\ [][Written \/ Restored \/ Failed]_contract
=============================================================================
