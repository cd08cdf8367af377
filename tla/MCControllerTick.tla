-------------------------- MODULE MCControllerTick --------------------------
EXTENDS ControllerTick, TLC

CONSTANTS quiet, cool

TheCurves == quiet :> 1 @@ cool :> 0

Binding(c, m, lo, hi, s) ==
    [fan |-> TRUE, curve |-> c, manual |-> m, min |-> lo, max |-> hi, stop |-> s]

Full == Binding(cool, NoDuty, 0, Top, TRUE)
Capped == Binding(quiet, NoDuty, 0, Top - 1, FALSE)
Manual == Binding(cool, 0, 0, Top, TRUE)
NoCurve == Binding(Gone, NoDuty, 0, Top, TRUE)
NoFan == [NoCurve EXCEPT !.fan = FALSE]
AllConfigs == {Full, Capped, Manual, NoCurve, NoFan}
ThreeConfigs == {Capped, Manual, NoCurve}
ManualOrCurve == {Full, Manual}

\* A behaviour has MaxTrouble reloads, as many presses, or one revert or sweep;
\* the odd channels (phantom, or inverted without a mode register) are left alone.
CONSTANT MaxTrouble
Troubles == reloads + presses + MaxTrouble * (reverts + sweeps)
Odd == polarity # "normal" \/ ~exposes
TroubleInit == TickInit /\ ((polarity = "inverted") = ~exposes)
TroubleNext ==
    /\ TickNext
    /\ Troubles' <= IF Odd THEN 0 ELSE MaxTrouble
    /\ reloads' = 0 \/ presses' = 0

LiveTick ==
    /\ TroubleInit /\ [][TroubleNext]_tickVars
    /\ WF_tickVars(TickStep) /\ SF_tickVars(Clock)
    /\ WF_tickVars(SweepEnds) /\ WF_tickVars(PanicCallback)
=============================================================================
