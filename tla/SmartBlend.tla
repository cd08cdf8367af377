----------------------------- MODULE SmartBlend -----------------------------
(***************************************************************************)
(* Smart mode's hand on one fan (internal/smartblend, confidence/gate,     *)
(* confidence/aggregator, internal/massstall, controller/blended.go): the  *)
(* predictive duty is blended into the curve's by a weight that every      *)
(* fan's tach, the preconditions and the operator can take to zero.  Time  *)
(* goes by in controller periods; in each of them every controller ticks   *)
(* or yields once and the gate is evaluated once, in any order.  Weights   *)
(* count the steps the rate limit allows in one period.  What the          *)
(* estimators learn is free: any confidence, any error, any model.         *)
(***************************************************************************)
EXTENDS Integers, FiniteSets

CONSTANTS Cooled,      \* the fan whose blend is followed
          Others,      \* the other fans with a tach
          MinDuty, MaxDuty,  \* of the fan's configuration
          Floor,       \* StallPWMFloor: below it a still fan is no stall
          Relax,       \* RelaxMarginPWM: how far below the curve a blend may go
          WeightTop,   \* the weight that gives the predictive arm everything
          Pinned,      \* ColdStartWindow, in periods
          StallWindow, \* DefaultWindow, in periods
          Margins,     \* Layer C's degrees per duty step; a cooling fan's is negative
          NoMargin     \* Layer C is warming up

Tachs == Others \cup {Cooled}
Evaluator == "evaluator"

\* A stall outlives the period it was reported in (three minutes; a controller's
\* period is seconds).
ASSUME BlendAssumption ==
    /\ IsFiniteSet(Others) /\ Cooled \notin Others /\ Evaluator \notin Tachs
    /\ {MinDuty, MaxDuty, Floor, Relax, Pinned} \subseteq Nat /\ MinDuty < MaxDuty
    /\ StallWindow \in Nat \ {0} /\ WeightTop \in Nat \ {0} /\ Margins \subseteq Int

VARIABLES
    due,        \* who has not had its turn in this period
    stalled,    \* Tracker.lastStall: the age of each fan's stall
    open,       \* the gate's published snapshot
    weight,     \* wPredPrev
    lastBlend,  \* periods since the aggregator's last tick
    cold,       \* periods left of the cold-start pin
    armed,      \* bumplessArmed
    integrator,
    contacted,  \* seenFirstContact
    out,        \* the last committed tick's duty and curve; fresh: of this period
    streak,     \* history: periods in a row that a fan's tick showed a stall,
    shut,       \* ... evaluations in a row with another reason to refuse,
    calm        \* ... since the weight was last forced to zero

sbVars == <<due, stalled, open, weight, lastBlend, cold, armed, integrator, contacted,
            out, streak, shut, calm>>

Speed == MinDuty .. MaxDuty
Gone == StallWindow + 1   \* the age of an entry that is pruned
NoTick == WeightTop + 1   \* ages beyond the weight's way make no difference
NoOutput == [duty |-> MinDuty, curve |-> MinDuty, fresh |-> FALSE]
Patience == 3             \* history counters end here
MinChannels == 2
SatDeltaT == 2

BlendTypeOK ==
    /\ due \subseteq Tachs \cup {Evaluator} /\ stalled \in [Tachs -> 0 .. Gone]
    /\ {open, armed, contacted} \subseteq BOOLEAN
    /\ weight \in 0 .. WeightTop /\ lastBlend \in 0 .. NoTick /\ cold \in 0 .. Pinned
    /\ integrator \in Int /\ out \in [duty : Speed, curve : Speed, fresh : BOOLEAN]
    /\ streak \in [Tachs -> 0 .. Patience] /\ shut \in 0 .. 2 /\ calm \in 0 .. NoTick

Lower(a, b) == IF a < b THEN a ELSE b
Saturate(v) == IF v < MinDuty THEN MinDuty ELSE IF v > MaxDuty THEN MaxDuty ELSE v
Size(x) == IF x < 0 THEN -x ELSE x

\* A process without memory of its blends; Layer A's bucket is from the last
\* save, a minute ago or at an orderly exit.
Starts ==
    /\ due' = Tachs \cup {Evaluator} /\ stalled' = [f \in Tachs |-> Gone]
    /\ open' = FALSE /\ weight' = 0 /\ lastBlend' = NoTick /\ cold' = 0
    /\ armed' = FALSE /\ integrator' = 0 /\ contacted' \in {FALSE, contacted} /\ out' = NoOutput
    /\ streak' = [f \in Tachs |-> 0] /\ calm' = 0

BlendInit ==
    /\ due = Tachs \cup {Evaluator} /\ stalled = [f \in Tachs |-> Gone]
    /\ open = FALSE /\ weight = 0 /\ lastBlend = NoTick /\ cold = 0
    /\ armed = FALSE /\ integrator = 0 /\ contacted = FALSE /\ out = NoOutput
    /\ streak = [f \in Tachs |-> 0] /\ shut = 0 /\ calm = 0

SmartDies == Starts /\ UNCHANGED shut

\* The wizard's calibration is complete: SetEnvelopeCDoneAt.
CalibrationDone ==
    /\ cold = 0 /\ cold' = Pinned
    /\ UNCHANGED <<due, stalled, open, weight, lastBlend, armed, integrator, contacted,
                   out, streak, shut, calm>>

\* Mutant of MassStalled: a stall counts in the period it is reported in only.
MassStalledFresh == Cardinality({f \in Tachs : stalled[f] = 0}) >= MinChannels

MassStalled == Cardinality({f \in Tachs : stalled[f] <= StallWindow}) >= MinChannels

\* blocked: smart mode is disabled, the schema or a precondition (battery,
\* scrub, warm-up after a resume) fails, or the wizard's outcome at start was
\* not "control".
Evaluate(blocked) ==
    /\ Evaluator \in due /\ due' = due \ {Evaluator}
    /\ open' = (~blocked /\ ~MassStalled)
    /\ shut' = IF blocked THEN Lower(shut + 1, 2) ELSE 0
    /\ UNCHANGED <<stalled, weight, lastBlend, cold, armed, integrator, contacted,
                   out, streak, calm>>

\* A committed tick tells the tracker what the tach showed.
Report(f, isStall) ==
    /\ stalled' = [stalled EXCEPT ![f] = IF isStall THEN 0 ELSE Gone]
    /\ streak' = [streak EXCEPT ![f] = IF isStall THEN Lower(@ + 1, Patience) ELSE 0]

Takes(f) == f \in due /\ due' = due \ {f}

OtherTick(f) ==
    /\ Takes(f) /\ \E isStall \in BOOLEAN : Report(f, isStall)
    /\ UNCHANGED <<open, weight, lastBlend, cold, armed, integrator, contacted,
                   out, shut, calm>>

\* A tick that reaches no write: nothing is reported.
NoReport(f) == streak' = [streak EXCEPT ![f] = 0] /\ UNCHANGED stalled

\* What is kept of a tick's output when a later one commits nothing.
Stale(o) == [duty |-> o.duty, curve |-> MinDuty, fresh |-> FALSE]

\* A tick that returns before the curve: calibration, panic, no reading.
Yields(f) ==
    /\ Takes(f) /\ NoReport(f)
    /\ out' = IF f = Cooled THEN Stale(out) ELSE out
    /\ UNCHANGED <<open, weight, lastBlend, cold, armed, integrator, contacted,
                   shut, calm>>

\* What a tick writes: the new duty, or the last one when the hysteresis
\* holds a fan that would slow down; or the write fails.
Commits(pwm, curve) ==
    \/ \E held, isStall \in BOOLEAN :
          LET duty == IF held THEN out.duty ELSE pwm
          IN /\ held => pwm < out.duty
             /\ isStall => duty >= Floor
             /\ out' = [duty |-> duty, curve |-> curve, fresh |-> TRUE]
             /\ Report(Cooled, isStall)
    \/ out' = Stale(out) /\ NoReport(Cooled)

\* BuildFn without a setpoint: neither the aggregator nor Compute is asked.
UnreferencedTick ==
    /\ Takes(Cooled) /\ \E r \in Speed : Commits(r, r)
    /\ UNCHANGED <<open, weight, lastBlend, cold, armed, integrator, contacted,
                   shut, calm>>

-----------------------------------------------------------------------------
\* lipschitzClamp of what the filter gives.
Limited(filtered) ==
    LET dt == IF lastBlend = NoTick THEN 0 ELSE lastBlend
    IN IF filtered > weight + dt THEN weight + dt
       ELSE IF filtered < weight - dt THEN weight - dt ELSE filtered

\* The gate and the cold-start pin bypass the rate limit.
Forced == ~open \/ cold > 0

\* Aggregator.Tick: the weights this tick can get ...
Weights == IF Forced THEN {0} ELSE {Limited(filtered) : filtered \in 0 .. WeightTop}

\* Mutant of Carried: the gate closes for this tick only.
CarriedUnforced(w) == IF Forced THEN weight ELSE w

\* ... and the one the next tick's limit starts from.
Carried(w) == w

\* Mutant of Halted: a ramp at the end of the range goes on winding up.
HaltedOnRefusal(cand, u, err, refused) == refused

\* Compute's anti-windup: the duty is at the end the integrator pushes to, or
\* Path A refuses the ramp.
Halted(cand, u, err, refused) ==
    \/ cand >= MaxDuty /\ u > 0 /\ err > 0
    \/ cand <= MinDuty /\ u < 0 /\ err < 0
    \/ refused

\* evalPathA: the model foresees less than SatDeltaT of the ramp.
PathARefuses(margin, ramp) == margin # NoMargin /\ Size(margin * ramp) < SatDeltaT

\* evalCostGate, with what the model foresees of the ramp before its clamps.
CostRefuses(margin, ramp, step) == margin # NoMargin /\ -(margin * ramp) < Size(step)

\* The first contact: a ramp below the curve that Layer A has not contacted yet.
FirstClamped(p, r) == ~contacted /\ p < r

\* Mutant of Floored: the first-contact clamp alone.
FlooredOnce(p, r) == IF FirstClamped(p, r) THEN r ELSE p

\* The first-contact clamp, then relaxFloorPWM.
Floored(p, r) ==
    IF FirstClamped(p, r) THEN r
    ELSE IF p < r - Relax THEN Saturate(r - Relax) ELSE p

\* The blend of w parts predictive and the rest curve, rounded.
Mixed(w, p, r) == (2 * (w * p + (WeightTop - w) * r) + WeightTop) \div (2 * WeightTop)

\* A weight of zero, or an estimate piRefuseReason does not trust.
CurveAlone(r) == armed' = FALSE /\ UNCHANGED <<integrator, contacted>> /\ Commits(r, r)

\* Compute with a trusted estimate, whose gains are one duty step per degree
\* of error and one per degree and period of its sum.
Compute(w, r, err, margin) ==
    LET base == IF armed THEN integrator ELSE -err
        wound == base + err
        cand == Saturate(r + err + wound)
        pathA == PathARefuses(margin, cand - r)
        kept == IF Halted(cand, err + wound, err, pathA) THEN base ELSE wound
        arm == Saturate(r + err + kept)
        p == Floored(arm, r)
        declined == pathA \/ CostRefuses(margin, cand - r, p - r)
    IN /\ armed' = TRUE /\ integrator' = kept
       /\ \E refused \in BOOLEAN :
             /\ declined => refused   \* and EvalDBABudget may refuse the rest
             /\ contacted' = (contacted \/ FirstClamped(arm, r) \/ ~refused)
             /\ Commits(IF refused THEN r ELSE Mixed(w, p, r), r)

\* A tick that reaches the curve: the aggregator, then Compute.
CooledTick ==
    /\ Takes(Cooled)
    /\ \E w \in Weights, r \in Speed :
          /\ weight' = Carried(w) /\ lastBlend' = 0
          /\ calm' = IF Forced THEN 0 ELSE calm
          /\ \/ CurveAlone(r)
             \/ /\ w > 0
                /\ \E err \in {-1, 1}, margin \in Margins \cup {NoMargin} :
                      Compute(w, r, err, margin)
    /\ UNCHANGED <<open, cold, shut>>

\* A period is over: everyone has had a turn.
NextPeriod ==
    /\ due = {} /\ due' = Tachs \cup {Evaluator}
    /\ stalled' = [f \in Tachs |-> Lower(stalled[f] + 1, Gone)]
    /\ lastBlend' = IF lastBlend < WeightTop THEN lastBlend + 1 ELSE lastBlend
    /\ calm' = Lower(calm + 1, WeightTop)
    /\ cold' = IF cold = 0 THEN 0 ELSE cold - 1
    /\ out' = Stale(out)
    /\ UNCHANGED <<open, weight, armed, integrator, contacted, streak, shut>>

BlendNext ==
    \/ SmartDies \/ CalibrationDone \/ NextPeriod
    \/ \E blocked \in BOOLEAN : Evaluate(blocked)
    \/ UnreferencedTick \/ CooledTick
    \/ \E f \in Others : OtherTick(f)
    \/ \E f \in Tachs : Yields(f)

BlendSpec == BlendInit /\ [][BlendNext]_sbVars

-----------------------------------------------------------------------------
\* Within one evaluation of the gate and one tick more, a cluster of fans that
\* are told to spin and do not, or any other reason to refuse, has the fan at
\* its curve or above it, in whatever order the controllers and the evaluator
\* run (gate.go:24, aggregator.go:26).
YieldsInTime ==
    out.fresh /\ (shut = 2 \/ \E f, g \in Tachs : f # g /\ streak[f] = Patience /\ streak[g] = Patience)
    => out.duty >= out.curve

\* However the gate flaps and however long the fan is not blended, the weight
\* is never more than the rate limit lets it climb in the time since it was
\* last forced to zero (gate.go:37).
RidesUpFromZero == weight <= calm

\* Through refusals, a curve that moves and gates that open and close, the
\* integrator never holds more than the range of duties.
WindUpIsBounded == Size(integrator) <= MaxDuty - MinDuty

\* Whatever the weight, the model and the integrator have come to, the blend
\* never takes more than the margin off the curve, nor anything before Layer A
\* has marked the channel's first contact (RULE-CTRL-SMART-RELAX-FLOOR).
RelaxIsBounded ==
    out.fresh => out.duty >= Saturate(out.curve - Relax) /\ (out.duty < out.curve => contacted)

\* What holds at every tick of smart mode.
BlendIsSafe == RidesUpFromZero /\ WindUpIsBounded /\ RelaxIsBounded
=============================================================================
