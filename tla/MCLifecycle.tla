---------------------------- MODULE MCLifecycle ----------------------------
(***************************************************************************)
(* Lifecycle on one channel, cpu, or on two channels of one chip.          *)
(***************************************************************************)
EXTENDS Lifecycle

CONSTANTS cpu, aux

MCAccepts == [c \in Channel |-> {0, 1, 2, 99}]

MCDevice == [c \in Channel |->
    [chip |-> "nct6687", stem |-> "nct6687", suffix |-> "2592", digits |-> TRUE,
     index |-> IF c = cpu THEN 1 ELSE 2]]

NoProbeList == << >>
ProbeCpu == <<cpu>>
=============================================================================
