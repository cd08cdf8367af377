----------------------------- MODULE SafetyProofs -----------------------------
(***************************************************************************)
(* What holds of smart mode's blend, of the hwmon watcher, of the systemd  *)
(* heartbeat and of the duties that the backends report for every value of *)
(* their constants, and hence of the daemon that is composed of them.      *)
(***************************************************************************)
EXTENDS MCSafety, FiniteSetTheorems, TLAPS

(* Smart mode's blend.                                                     *)

\* What the assumption says of the constants.
LEMMA BlendConstants ==
    /\ MinDuty \in Nat /\ MaxDuty \in Nat /\ MinDuty < MaxDuty /\ Relax \in Nat /\ Pinned \in Nat
    /\ WeightTop \in Nat /\ WeightTop > 0 /\ StallWindow \in Nat /\ StallWindow > 0
    /\ Cooled \in Tachs /\ IsFiniteSet(Tachs) /\ Evaluator \notin Tachs
<1>1. IsFiniteSet(Tachs)
  BY BlendAssumption, FS_AddElement DEF Tachs
<1> QED BY <1>1, BlendAssumption DEF Tachs

-----------------------------------------------------------------------------
(* The weight.                                                             *)

\* The weight has climbed at the limit since the last reset, and not faster.
WeightInv ==
    /\ weight \in 0 .. WeightTop /\ lastBlend \in 0 .. NoTick /\ calm \in Nat
    /\ lastBlend = NoTick => weight = 0
    /\ lastBlend # NoTick => Lower(weight + lastBlend, WeightTop) <= calm

\* Every step keeps it.
LEMMA WeightStep == WeightInv /\ [BlendNext]_sbVars => WeightInv'
<1> SUFFICES ASSUME WeightInv, [BlendNext]_sbVars PROVE WeightInv'
  OBVIOUS
<1> USE BlendConstants DEF WeightInv, NoTick, Lower
<1>1. CASE UNCHANGED <<weight, lastBlend, calm>>
  BY <1>1
<1>2. CASE SmartDies
  BY <1>2 DEF SmartDies, Starts
<1>3. CASE CooledTick
  <2>1. PICK w \in Weights : weight' = w /\ lastBlend' = 0 /\ calm' = IF Forced THEN 0 ELSE calm
    BY <1>3 DEF CooledTick, Carried
  <2>2. CASE Forced
    BY <2>1, <2>2 DEF Weights
  <2>3. CASE ~Forced
    <3>1. PICK filtered \in 0 .. WeightTop : w = Limited(filtered)
      BY <2>1, <2>3 DEF Weights
    <3> QED BY <2>1, <2>3, <3>1 DEF Limited
  <2> QED BY <2>2, <2>3
<1>4. CASE NextPeriod
  BY <1>4 DEF NextPeriod
<1>5. \/ CalibrationDone \/ (\E b \in BOOLEAN : Evaluate(b)) \/ UnreferencedTick
      \/ (\E f \in Others : OtherTick(f)) \/ (\E f \in Tachs : Yields(f)) \/ UNCHANGED sbVars
      => UNCHANGED <<weight, lastBlend, calm>>
  BY DEF CalibrationDone, Evaluate, UnreferencedTick, OtherTick, Yields, sbVars
<1> QED BY <1>1, <1>2, <1>3, <1>4, <1>5 DEF BlendNext

-----------------------------------------------------------------------------
(* The integrator.                                                         *)

\* The integrator is an integer within the range of duties.
IntegratorInv == integrator \in Int /\ WindUpIsBounded

\* Every step keeps it.
LEMMA IntegratorStep == IntegratorInv /\ [BlendNext]_sbVars => IntegratorInv'
<1> SUFFICES ASSUME IntegratorInv, [BlendNext]_sbVars PROVE IntegratorInv'
  OBVIOUS
<1> USE BlendConstants DEF IntegratorInv, WindUpIsBounded, Size
<1>1. CASE UNCHANGED integrator
  BY <1>1
<1>2. CASE SmartDies
  BY <1>2 DEF SmartDies, Starts
<1>3. ASSUME NEW w \in Weights, NEW r \in Speed, NEW err \in {-1, 1},
             NEW margin \in Margins \cup {NoMargin}, Compute(w, r, err, margin)
      PROVE  IntegratorInv'
  <2> DEFINE begun == IF armed THEN integrator ELSE -err
             wound == begun + err
             cand == Saturate(r + err + wound)
             pathA == PathARefuses(margin, cand - r)
             kept == IF Halted(cand, err + wound, err, pathA) THEN begun ELSE wound
  <2>1. integrator' = kept
    BY <1>3 DEF Compute
  <2>2. begun \in Int /\ Size(begun) <= MaxDuty - MinDuty /\ r \in Int /\ r >= MinDuty /\ r <= MaxDuty
    BY DEF Speed
  <2>3. CASE Halted(cand, err + wound, err, pathA)
    BY <2>1, <2>2, <2>3
  <2>4. CASE ~Halted(cand, err + wound, err, pathA)
    <3>1. integrator' = wound
      BY <2>1, <2>4
    <3>2. ~(cand >= MaxDuty /\ err + wound > 0 /\ err > 0) /\ ~(cand <= MinDuty /\ err + wound < 0 /\ err < 0)
      BY <2>4 DEF Halted
    <3> HIDE DEF begun
    <3>3. CASE err = 1
      BY <2>2, <3>1, <3>2, <3>3 DEF Saturate
    <3>4. CASE err = -1
      BY <2>2, <3>1, <3>2, <3>4 DEF Saturate
    <3> QED BY <3>3, <3>4
  <2> QED BY <2>3, <2>4
<1>4. CASE CooledTick
  <2>1. PICK w \in Weights, r \in Speed :
           \/ CurveAlone(r)
           \/ \E err \in {-1, 1}, margin \in Margins \cup {NoMargin} : Compute(w, r, err, margin)
    BY <1>4 DEF CooledTick
  <2>2. CurveAlone(r) => UNCHANGED integrator
    BY DEF CurveAlone
  <2> QED BY <1>1, <1>3, <2>1, <2>2
<1>5. \/ CalibrationDone \/ (\E b \in BOOLEAN : Evaluate(b)) \/ UnreferencedTick \/ NextPeriod
      \/ (\E f \in Others : OtherTick(f)) \/ (\E f \in Tachs : Yields(f)) \/ UNCHANGED sbVars
      => UNCHANGED integrator
  BY DEF CalibrationDone, Evaluate, UnreferencedTick, OtherTick, Yields, NextPeriod, sbVars
<1> QED BY <1>1, <1>2, <1>4, <1>5 DEF BlendNext

-----------------------------------------------------------------------------
(* The duty.                                                               *)

\* Rounding the mixture of two duties gives a duty between them.
LEMMA MixedBetween ==
    ASSUME NEW w \in 0 .. WeightTop, NEW lo \in Nat, NEW hi \in Nat,
           NEW p \in lo .. hi, NEW r \in lo .. hi
    PROVE  Mixed(w, p, r) \in lo .. hi
<1> USE BlendConstants
<1> DEFINE v == WeightTop - w
           sum == 2 * (w * p + v * r) + WeightTop
           two == 2 * WeightTop
<1>1. v \in Nat /\ w \in Nat /\ w + v = WeightTop
  OBVIOUS
<1>2. /\ w * p \in Nat /\ w * p >= w * lo /\ w * p <= w * hi
      /\ v * r \in Nat /\ v * r >= v * lo /\ v * r <= v * hi
      /\ {w * lo, w * hi, v * lo, v * hi} \subseteq Nat
  BY <1>1
<1>3. WeightTop * lo = w * lo + v * lo /\ WeightTop * hi = w * hi + v * hi
  BY <1>1
<1>4. /\ sum \in Nat /\ two \in Nat /\ two > 0
      /\ sum >= two * lo /\ sum < two * (hi + 1)
  <2> HIDE DEF v
  <2> QED BY <1>1, <1>2, <1>3
<1>5. \A a, b, c, d \in Nat : b > 0 /\ a >= b * c /\ a < b * (d + 1) => a \div b \in c .. d
  OBVIOUS
<1>6. sum \div two \in lo .. hi
  <2> HIDE DEF sum, two
  <2> QED BY <1>4, <1>5
<1> QED BY <1>6 DEF Mixed

\* What is kept of the last tick's output, and RelaxIsBounded.
OutInv ==
    /\ out \in [duty : Speed, curve : Speed, fresh : BOOLEAN]
    /\ RelaxIsBounded

\* A tick writes the duty it was given or a higher one, or nothing.
LEMMA CommitsCases ==
    ASSUME NEW pwm \in Speed, NEW curve \in Speed, OutInv, Commits(pwm, curve)
    PROVE  /\ out' \in [duty : Speed, curve : Speed, fresh : BOOLEAN]
           /\ out'.fresh => out'.curve = curve /\ out'.duty >= pwm
<1>1. CASE out' = Stale(out)
  BY <1>1, BlendConstants DEF Stale, OutInv, Speed
<1>2. CASE \E keeps \in BOOLEAN :
              /\ keeps => pwm < out.duty
              /\ out' = [duty |-> IF keeps THEN out.duty ELSE pwm, curve |-> curve, fresh |-> TRUE]
  <2>1. PICK keeps \in BOOLEAN :
              /\ keeps => pwm < out.duty
              /\ out' = [duty |-> IF keeps THEN out.duty ELSE pwm, curve |-> curve, fresh |-> TRUE]
    BY <1>2
  <2>2. \/ out' = [duty |-> pwm, curve |-> curve, fresh |-> TRUE]
        \/ pwm < out.duty /\ out' = [duty |-> out.duty, curve |-> curve, fresh |-> TRUE]
    BY <2>1
  <2>3. out.duty \in Speed
    BY DEF OutInv
  <2>4. PICK d \in Speed : d >= pwm /\ out' = [duty |-> d, curve |-> curve, fresh |-> TRUE]
    BY <2>2, <2>3, BlendConstants DEF Speed
  <2> QED BY <2>4
<1> QED BY <1>1, <1>2 DEF Commits

\* The duty Compute hands to the write is never further below the curve than
\* the margin, and below it only after the first contact.
LEMMA ComputeRelaxes ==
    ASSUME IntegratorInv, NEW w \in 0 .. WeightTop, NEW r \in Speed, NEW err \in {-1, 1},
           NEW margin \in Margins \cup {NoMargin}, Compute(w, r, err, margin)
    PROVE  \E pwm \in Speed :
              /\ Commits(pwm, r) /\ pwm >= Saturate(r - Relax)
              /\ pwm < r => contacted'
<1> USE BlendConstants
<1> DEFINE begun == IF armed THEN integrator ELSE -err
           wound == begun + err
           cand == Saturate(r + err + wound)
           pathA == PathARefuses(margin, cand - r)
           kept == IF Halted(cand, err + wound, err, pathA) THEN begun ELSE wound
           arm == Saturate(r + err + kept)
           p == Floored(arm, r)
           declined == pathA \/ CostRefuses(margin, cand - r, p - r)
<1>1. PICK refused \in BOOLEAN :
         /\ contacted' = (contacted \/ FirstClamped(arm, r) \/ ~refused)
         /\ Commits(IF refused THEN r ELSE Mixed(w, p, r), r)
  BY DEF Compute
<1>2. begun \in Int /\ wound \in Int /\ kept \in Int /\ r \in Nat /\ r >= MinDuty /\ r <= MaxDuty
  BY DEF IntegratorInv, Speed
<1>3. arm \in Speed
  <2> HIDE DEF kept
  <2> QED BY <1>2 DEF Saturate, Speed
<1>4. p \in Speed /\ p >= Saturate(r - Relax) /\ Saturate(r - Relax) \in Speed /\ r >= Saturate(r - Relax)
  <2> HIDE DEF arm
  <2> QED BY <1>2, <1>3 DEF Floored, FirstClamped, Saturate, Speed
<1>5. CASE refused
  <2>1. Commits(r, r)
    BY <1>1, <1>5
  <2> QED BY <2>1, <1>2, <1>4
<1>6. CASE ~refused
  <2>1. Commits(Mixed(w, p, r), r) /\ contacted'
    BY <1>1, <1>6
  <2> DEFINE lo == Saturate(r - Relax)
  <2>2. lo \in Nat /\ p \in lo .. MaxDuty /\ r \in lo .. MaxDuty /\ MinDuty <= lo
    BY <1>2, <1>4 DEF Speed
  <2>3. Mixed(w, p, r) \in lo .. MaxDuty
    <3> HIDE DEF p, lo
    <3> QED BY <2>2, MixedBetween
  <2>4. Mixed(w, p, r) \in Speed /\ Mixed(w, p, r) >= lo
    BY <2>2, <2>3 DEF Speed
  <2> QED BY <2>1, <2>4
<1> QED BY <1>5, <1>6

\* RelaxIsBounded survives a commit of a duty that keeps it.
LEMMA CommitRelaxes ==
    ASSUME OutInv, NEW pwm \in Speed, NEW curve \in Speed, Commits(pwm, curve),
           pwm >= Saturate(curve - Relax), pwm < curve => contacted'
    PROVE  OutInv'
<1>1. /\ out' \in [duty : Speed, curve : Speed, fresh : BOOLEAN]
      /\ out'.fresh => out'.curve = curve /\ out'.duty >= pwm
  BY CommitsCases
<1>2. out'.duty \in Nat /\ curve \in Nat /\ pwm \in Nat
  BY <1>1, BlendConstants DEF Speed
<1>3. Saturate(curve - Relax) \in Nat
  BY <1>2, BlendConstants DEF Saturate
<1>4. ASSUME out'.fresh
      PROVE  out'.duty >= Saturate(out'.curve - Relax) /\ (out'.duty < out'.curve => contacted')
  BY <1>1, <1>2, <1>3, <1>4
<1> QED BY <1>1, <1>4 DEF OutInv, RelaxIsBounded

\* The curve's own duty keeps it.
LEMMA CurveRelaxes ==
    ASSUME OutInv, NEW r \in Speed, Commits(r, r)
    PROVE  OutInv'
<1>1. r >= Saturate(r - Relax) /\ ~(r < r)
  BY BlendConstants DEF Speed, Saturate
<1> QED BY <1>1, CommitRelaxes

\* Every weight the aggregator may give is one.
LEMMA WeightsInRange ==
    ASSUME WeightInv, NEW w \in Weights
    PROVE  w \in 0 .. WeightTop
<1> USE BlendConstants DEF WeightInv
<1>1. CASE Forced
  BY <1>1 DEF Weights
<1>2. CASE ~Forced
  <2>1. PICK filtered \in 0 .. WeightTop : w = Limited(filtered)
    BY <1>2 DEF Weights
  <2> QED BY <2>1 DEF Limited, NoTick
<1> QED BY <1>1, <1>2

\* Nothing is fresh in an output that is stale.
LEMMA StaleRelaxes ==
    ASSUME OutInv, out' = Stale(out) \/ out' = NoOutput
    PROVE  OutInv'
<1>1. out.duty \in Speed /\ MinDuty \in Speed
  BY BlendConstants DEF OutInv, Speed
<1>2. PICK d \in Speed : out' = [duty |-> d, curve |-> MinDuty, fresh |-> FALSE]
  BY <1>1 DEF Stale, NoOutput
<1> QED BY <1>1, <1>2 DEF OutInv, RelaxIsBounded

\* Every step keeps OutInv.
LEMMA OutStep ==
    ASSUME WeightInv, IntegratorInv, OutInv, [BlendNext]_sbVars
    PROVE  OutInv'
<1>1. CASE UNCHANGED <<out, contacted>>
  BY <1>1 DEF OutInv, RelaxIsBounded
<1>2. CASE SmartDies \/ NextPeriod
  BY <1>2, StaleRelaxes DEF SmartDies, Starts, NextPeriod
<1>3. CASE UnreferencedTick
  BY <1>3, CurveRelaxes DEF UnreferencedTick
<1>4. CASE CooledTick
  <2>1. PICK w \in Weights, r \in Speed :
           \/ CurveAlone(r)
           \/ \E err \in {-1, 1}, margin \in Margins \cup {NoMargin} : Compute(w, r, err, margin)
    BY <1>4 DEF CooledTick
  <2>2. CASE CurveAlone(r)
    BY <2>2, CurveRelaxes DEF CurveAlone
  <2>3. CASE \E err \in {-1, 1}, margin \in Margins \cup {NoMargin} : Compute(w, r, err, margin)
    <3>1. \E pwm \in Speed : Commits(pwm, r) /\ pwm >= Saturate(r - Relax) /\ (pwm < r => contacted')
      BY <2>3, WeightsInRange, ComputeRelaxes
    <3> QED BY <3>1, CommitRelaxes
  <2> QED BY <2>1, <2>2, <2>3
<1>5. ASSUME NEW f \in Tachs, Yields(f)
      PROVE  OutInv'
  BY <1>1, <1>5, StaleRelaxes DEF Yields
<1>6. \/ CalibrationDone \/ (\E b \in BOOLEAN : Evaluate(b))
      \/ (\E f \in Others : OtherTick(f)) \/ UNCHANGED sbVars
      => UNCHANGED <<out, contacted>>
  BY DEF CalibrationDone, Evaluate, OtherTick, sbVars
<1> QED BY <1>1, <1>2, <1>3, <1>4, <1>5, <1>6 DEF BlendNext

-----------------------------------------------------------------------------
(* The order of a period.                                                  *)

\* f's tach has shown a stall in each of the last n periods that are over.
StalledFor(f, n) == streak[f] >= IF f \in due THEN n ELSE n + 1

\* The gate has refused for another reason in the last period that is over.
RefusedBefore == shut >= IF Evaluator \in due THEN 1 ELSE 2

\* Two tachs have.
PairFor(n) == \E f, g \in Tachs : f # g /\ StalledFor(f, n) /\ StalledFor(g, n)

\* A stall in the streak still counts in the tracker's window; a pair of stalls,
\* or another reason, that an evaluation has seen keeps the gate closed; and a
\* tick of this period that came after that evaluation left the fan at its curve.
GateInv ==
    /\ stalled \in [Tachs -> 0 .. Gone] /\ streak \in [Tachs -> 0 .. Patience] /\ shut \in 0 .. 2
    /\ \A f \in Tachs : streak[f] > 0 => stalled[f] <= (IF f \in due THEN 1 ELSE 0)
    /\ open => shut = 0 /\ ~PairFor(2) /\ (Evaluator \notin due => ~PairFor(1))
    /\ out.fresh => Cooled \notin due /\ (PairFor(2) \/ RefusedBefore => out.duty >= out.curve)

\* Two stalls are a mass stall.
LEMMA PairIsMass ==
    ASSUME stalled \in [Tachs -> 0 .. Gone],
           NEW f \in Tachs, NEW g \in Tachs, f # g, stalled[f] <= StallWindow, stalled[g] <= StallWindow
    PROVE  MassStalled
<1> DEFINE S == {h \in Tachs : stalled[h] <= StallWindow}
<1>1. IsFiniteSet(S) /\ {f, g} \in SUBSET S
  BY BlendConstants, FS_Subset
<1>2. IsFiniteSet({f}) /\ Cardinality({f}) = 1 /\ {f, g} = {f} \cup {g}
  BY FS_Singleton
<1>3. Cardinality({f, g}) = 2
  BY <1>2, FS_AddElement
<1>4. Cardinality({f, g}) <= Cardinality(S) /\ Cardinality(S) \in Nat
  BY <1>1, FS_Subset, FS_CardinalityType
<1> QED BY <1>3, <1>4 DEF MassStalled, MinChannels

\* A turn of f leaves what was true of the periods before.
LEMMA TurnKeepsGate ==
    ASSUME GateInv, NEW f \in Tachs, Takes(f), UNCHANGED <<open, shut>>,
           \/ NoReport(f)
           \/ \E isStall \in BOOLEAN : Report(f, isStall)
    PROVE  /\ stalled' \in [Tachs -> 0 .. Gone] /\ streak' \in [Tachs -> 0 .. Patience]
           /\ \A g \in Tachs : streak'[g] > 0 => stalled'[g] <= (IF g \in due' THEN 1 ELSE 0)
           /\ \A n \in {1, 2} : PairFor(n)' => PairFor(n)
           /\ (RefusedBefore' <=> RefusedBefore)
           /\ (Evaluator \in due' <=> Evaluator \in due)
<1> USE BlendConstants DEF GateInv
<1>1. /\ f \in due /\ due' = due \ {f} /\ shut' = shut /\ f # Evaluator
  BY DEF Takes
<1>2. PICK age \in 0 .. Gone, count \in 0 .. Patience :
         /\ stalled' = [stalled EXCEPT ![f] = age] /\ streak' = [streak EXCEPT ![f] = count]
         /\ count <= streak[f] + 1 /\ (count > 0 => age = 0)
  <2>1. CASE NoReport(f)
    BY <2>1 DEF NoReport, Patience
  <2>2. ASSUME NEW isStall \in BOOLEAN, Report(f, isStall)
        PROVE  \E age \in 0 .. Gone, count \in 0 .. Patience :
                  /\ stalled' = [stalled EXCEPT ![f] = age] /\ streak' = [streak EXCEPT ![f] = count]
                  /\ count <= streak[f] + 1 /\ (count > 0 => age = 0)
    <3>1. CASE isStall
      <4>1. 0 \in 0 .. Gone /\ Lower(streak[f] + 1, Patience) \in 0 .. Patience
            /\ Lower(streak[f] + 1, Patience) <= streak[f] + 1
        BY DEF Gone, Patience, Lower
      <4> QED BY <2>2, <3>1, <4>1 DEF Report
    <3>2. CASE ~isStall
      <4>1. stalled' = [stalled EXCEPT ![f] = Gone] /\ streak' = [streak EXCEPT ![f] = 0]
        BY <2>2, <3>2 DEF Report
      <4>2. Gone \in 0 .. Gone /\ 0 \in 0 .. Patience /\ 0 <= streak[f] + 1
        BY DEF Gone, Patience
      <4>3. 0 > 0 => Gone = 0
        OBVIOUS
      <4> HIDE DEF GateInv
      <4> QED BY <4>1, <4>2, <4>3
    <3> QED BY <3>1, <3>2
  <2> QED BY <2>1, <2>2
<1>3. stalled' \in [Tachs -> 0 .. Gone] /\ streak' \in [Tachs -> 0 .. Patience]
  BY <1>2
<1>4. \A g \in Tachs : streak'[g] > 0 => stalled'[g] <= (IF g \in due' THEN 1 ELSE 0)
  BY <1>1, <1>2
<1>5. ASSUME NEW g \in Tachs, NEW n \in {1, 2}, StalledFor(g, n)'
      PROVE  StalledFor(g, n)
  BY <1>1, <1>2, <1>5 DEF StalledFor, Patience
<1>6. \A n \in {1, 2} : PairFor(n)' => PairFor(n)
  BY <1>5 DEF PairFor
<1>7. RefusedBefore' <=> RefusedBefore
  BY <1>1 DEF RefusedBefore
<1> QED BY <1>1, <1>3, <1>4, <1>6, <1>7

\* A tick after the gate was closed in time leaves the fan at its curve.
LEMMA CommitInTime ==
    ASSUME GateInv, OutInv, NEW r \in Speed, Commits(r, r)
    PROVE  out'.fresh => out'.duty >= out'.curve
BY CommitsCases DEF Speed

\* Every step keeps GateInv.
LEMMA GateStep ==
    ASSUME WeightInv, OutInv, GateInv, [BlendNext]_sbVars
    PROVE  GateInv'
<1> USE BlendConstants
<1>1. CASE SmartDies
  <2>1. \A f \in Tachs : streak'[f] = 0 /\ stalled'[f] = Gone
    BY <1>1 DEF SmartDies, Starts
  <2>2. stalled' \in [Tachs -> 0 .. Gone] /\ streak' \in [Tachs -> 0 .. Patience] /\ shut' \in 0 .. 2
    BY <1>1 DEF SmartDies, Starts, GateInv, Gone, Patience
  <2>3. ~open' /\ ~out'.fresh
    BY <1>1 DEF SmartDies, Starts, NoOutput
  <2> QED BY <2>1, <2>2, <2>3 DEF GateInv
<1>2. ASSUME NEW blocked \in BOOLEAN, Evaluate(blocked)
      PROVE  GateInv'
  <2>1. /\ due' = due \ {Evaluator} /\ Evaluator \in due /\ UNCHANGED <<stalled, streak, out>>
        /\ shut' \in 0 .. 2 /\ (shut' = 2 => shut >= 1)
        /\ open' => shut' = 0 /\ ~MassStalled
    <3>1. open' => ~blocked /\ ~MassStalled
      BY <1>2 DEF Evaluate
    <3>2. ~blocked => shut' = 0
      BY <1>2 DEF Evaluate
    <3>3. shut' \in 0 .. 2 /\ (shut' = 2 => shut >= 1)
      BY <1>2 DEF Evaluate, GateInv, Lower
    <3> QED BY <1>2, <3>1, <3>2, <3>3 DEF Evaluate
  <2>2. \A n \in {1, 2} : PairFor(n)' <=> PairFor(n)
    BY <2>1 DEF PairFor, StalledFor
  <2>3. PairFor(1) => MassStalled
    <3>1. ASSUME NEW f \in Tachs, StalledFor(f, 1)
          PROVE  stalled[f] <= StallWindow
      BY <3>1 DEF StalledFor, GateInv, Patience, Gone
    <3> QED BY <3>1, PairIsMass DEF PairFor, GateInv
  <2>4. PairFor(2) => PairFor(1)
    BY DEF PairFor, StalledFor, GateInv, Patience
  <2>5. RefusedBefore' => RefusedBefore
    <3>1. Evaluator \notin due' /\ shut \in 0 .. 2
      BY <2>1 DEF GateInv
    <3> QED BY <2>1, <3>1 DEF RefusedBefore
  <2>6. \A f \in Tachs : f \in due' <=> f \in due
    BY <2>1
  <2> QED BY <2>1, <2>2, <2>3, <2>4, <2>5, <2>6 DEF GateInv
<1>3. CASE NextPeriod
  <2>1. /\ \A f \in Tachs : stalled'[f] = Lower(stalled[f] + 1, Gone) /\ f \notin due /\ f \in due'
        /\ stalled' \in [Tachs -> 0 .. Gone] /\ UNCHANGED <<streak, shut, open>>
        /\ Evaluator \notin due /\ Evaluator \in due' /\ ~out'.fresh
    BY <1>3 DEF NextPeriod, GateInv, Lower, Stale, Gone
  <2>2. PairFor(2)' => PairFor(1)
    BY <2>1 DEF PairFor, StalledFor, GateInv, Patience
  <2>3. \A f \in Tachs : streak'[f] > 0 => stalled'[f] <= 1
    BY <2>1 DEF GateInv, Lower, Gone, Patience
  <2> QED BY <2>1, <2>2, <2>3 DEF GateInv
<1>4. ASSUME NEW f \in Others, OtherTick(f)
      PROVE  GateInv'
  <2>1. f \in Tachs /\ f # Cooled
    BY BlendAssumption DEF Tachs
  <2>2. Takes(f) /\ UNCHANGED <<open, shut, out>> /\ \E isStall \in BOOLEAN : Report(f, isStall)
    BY <1>4 DEF OtherTick
  <2> QED BY <2>1, <2>2, TurnKeepsGate DEF GateInv, Takes
<1>5. ASSUME NEW f \in Tachs, Yields(f)
      PROVE  GateInv'
  <2>1. /\ Takes(f) /\ UNCHANGED <<open, shut>> /\ NoReport(f)
        /\ out'.fresh => out' = out /\ f # Cooled
    BY <1>5 DEF Yields, Stale
  <2> QED BY <2>1, TurnKeepsGate DEF GateInv, Takes
<1>6. ASSUME Takes(Cooled), UNCHANGED <<open, shut>>,
             NoReport(Cooled) \/ \E isStall \in BOOLEAN : Report(Cooled, isStall),
             out'.fresh /\ ~open => out'.duty >= out'.curve
      PROVE  GateInv'
  <2>1. PairFor(2) \/ RefusedBefore => ~open
    BY DEF GateInv, RefusedBefore
  <2> QED BY <1>6, <2>1, TurnKeepsGate DEF GateInv, Takes
<1>7. ASSUME NEW pwm, NEW curve, Commits(pwm, curve)
      PROVE  NoReport(Cooled) \/ \E isStall \in BOOLEAN : Report(Cooled, isStall)
  BY <1>7 DEF Commits
<1>8. CASE UnreferencedTick
  <2>1. PICK r \in Speed : Commits(r, r)
    BY <1>8 DEF UnreferencedTick
  <2> QED BY <1>6, <1>7, <1>8, <2>1, CommitInTime DEF UnreferencedTick
<1>9. CASE CooledTick
  <2>1. PICK w \in Weights, r \in Speed :
           \/ CurveAlone(r)
           \/ /\ w > 0
              /\ \E err \in {-1, 1}, margin \in Margins \cup {NoMargin} : Compute(w, r, err, margin)
    BY <1>9 DEF CooledTick
  <2>2. \E pwm : Commits(pwm, r)
    BY <2>1 DEF CurveAlone, Compute
  <2>3. ~open => Commits(r, r)
    BY <2>1 DEF Weights, Forced, CurveAlone
  <2> QED BY <1>6, <1>7, <1>9, <2>2, <2>3, CommitInTime DEF CooledTick
<1>10. CASE CalibrationDone \/ UNCHANGED sbVars
  BY <1>10 DEF CalibrationDone, sbVars, GateInv, PairFor, StalledFor, RefusedBefore
<1> QED BY <1>1, <1>2, <1>3, <1>4, <1>5, <1>8, <1>9, <1>10 DEF BlendNext

-----------------------------------------------------------------------------
(* The theorems.                                                           *)

\* The inductive invariant of SmartBlend.
BlendInv == WeightInv /\ IntegratorInv /\ OutInv /\ GateInv

\* It holds at the start.
LEMMA BlendInvInit == BlendInit => BlendInv
<1> SUFFICES ASSUME BlendInit PROVE BlendInv
  OBVIOUS
<1> USE BlendConstants DEF BlendInit
<1>1. WeightInv /\ IntegratorInv
  BY DEF WeightInv, IntegratorInv, WindUpIsBounded, Size, NoTick
<1>2. MinDuty \in Speed
  BY DEF Speed
<1>3. OutInv
  BY <1>2 DEF OutInv, RelaxIsBounded, NoOutput
<1>4. GateInv
  BY DEF GateInv, NoOutput, Gone, Patience
<1> QED BY <1>1, <1>3, <1>4 DEF BlendInv

\* Every step keeps it.
LEMMA BlendInvStep == BlendInv /\ [BlendNext]_sbVars => BlendInv'
BY WeightStep, IntegratorStep, OutStep, GateStep DEF BlendInv

\* It holds always.
LEMMA BlendInvAlways == BlendSpec => []BlendInv
BY BlendInvInit, BlendInvStep, PTL DEF BlendSpec

\* However long smart mode runs, through gates that flap, refusals, yields and
\* restarts: the weight has climbed no further than the rate limit allows, the
\* integrator holds no more than the range of duties, and the blend is within
\* its margin of the curve and above it until the first contact.
THEOREM BlendStaysSafe == BlendSpec => []BlendIsSafe
<1>1. BlendInv => RidesUpFromZero
  BY BlendConstants DEF BlendInv, WeightInv, RidesUpFromZero, Lower, NoTick
<1>2. BlendInv => BlendIsSafe
  BY <1>1 DEF BlendInv, IntegratorInv, OutInv, BlendIsSafe
<1> QED BY <1>2, BlendInvAlways, PTL

\* Whatever the order in which the controllers and the gate's evaluator run,
\* three periods of stalls of any two fans, or two evaluations with any other
\* reason to refuse, have the fan at its curve.
THEOREM BlendYields == BlendSpec => []YieldsInTime
<1>1. BlendInv => YieldsInTime
  <2> SUFFICES ASSUME BlendInv, out.fresh,
                      shut = 2 \/ \E f, g \in Tachs : f # g /\ streak[f] = Patience /\ streak[g] = Patience
               PROVE  out.duty >= out.curve
    BY DEF YieldsInTime
  <2>1. shut = 2 => RefusedBefore
    BY DEF RefusedBefore
  <2>2. (\E f, g \in Tachs : f # g /\ streak[f] = Patience /\ streak[g] = Patience) => PairFor(2)
    BY DEF PairFor, StalledFor, Patience
  <2> QED BY <2>1, <2>2 DEF BlendInv, GateInv
<1> QED BY <1>1, BlendInvAlways, PTL

-----------------------------------------------------------------------------
(* The hwmon watcher.                                                      *)

\* The watcher without fairness: its deadlines are bounds in the steps.
WatcherSpec == WatcherInit /\ [][WatcherNext]_wVars

\* A candidate topology waits for its settle window.
Waits(k) == pending[k] # NoPending

\* The timers are not overdue.
TimersInv ==
    /\ rescanAge \in 0 .. Rescan
    /\ settleAge \in Nat \cup {Unarmed} /\ settleAge <= Settle
    /\ steady \in [Chips -> Nat] /\ seenFor \in [Chips -> Nat]
    /\ actual \in [Chips -> Shapes \cup {NoChip}]
    /\ confirmed \in [Chips -> Shapes \cup {NoChip}]
    /\ lastSeen \in [Chips -> Shapes \cup {NoChip}]

\* A candidate differs from what is confirmed, is what the last look saw, and is
\* no older than the settle windows that were armed since.
CandidatesInv ==
    \A k \in Chips : Waits(k) =>
        /\ pending[k] \in [shape : Shapes \cup {NoChip}, age : Nat]
        /\ pending[k].shape # confirmed[k]
        /\ settleAge \in Nat
        /\ pending[k].age < Settle + settleAge
        /\ pending[k].shape = lastSeen[k] /\ pending[k].age <= seenFor[k]

\* A chip that differs has done so for no longer than a rescan and the age of its
\* candidate, if it has one, and than the time since the last rescan otherwise.
DeadlineInv ==
    \A k \in Chips : Differs(k) =>
        steady[k] <= IF Stays(k) THEN Rescan + pending[k].age ELSE rescanAge

\* pending is a function of the chips.
PendingShape == pending = [k \in Chips |-> pending[k]]

\* The inductive invariant of HwmonWatcher.
WatchInv == TimersInv /\ PendingShape /\ CandidatesInv /\ DeadlineInv

\* Counting up to the horizon keeps every comparison below it.
LEMMA CapIsMin ==
    ASSUME NEW n \in Nat
    PROVE  /\ Cap(n) \in Nat /\ Cap(n) <= n /\ Cap(n) <= Horizon
           /\ n < Horizon => Cap(n) = n
           /\ \A m \in Nat : m <= n => Cap(m) <= Cap(n)
  BY WatcherAssumption DEF Cap, Horizon

\* It holds when the watcher starts.
LEMMA WatchInvInit == WatcherInit => WatchInv
  BY WatcherAssumption
  DEF WatcherInit, WatchInv, TimersInv, PendingShape, CandidatesInv, DeadlineInv, Differs, Waits, Unarmed

\* It gives the deadline: a rescan and two settle windows.
LEMMA WatchInvNotices == WatchInv => NoticedInTime
<1>1. SUFFICES ASSUME WatchInv, NEW k \in Chips, Differs(k) PROVE ~(steady[k] >= Horizon)
  BY DEF NoticedInTime, Differs
<1>2. CASE ~Stays(k)
  BY <1>1, <1>2, WatcherAssumption DEF WatchInv, TimersInv, DeadlineInv, Horizon
<1>3. CASE Stays(k)
  <2>1. Waits(k)
    BY <1>3 DEF Stays, Waits
  <2>2. pending[k].age \in Nat /\ pending[k].age < Settle + settleAge /\ settleAge <= Settle
        /\ settleAge \in Nat
    BY <1>1, <2>1 DEF WatchInv, TimersInv, CandidatesInv
  <2>3. steady[k] <= Rescan + pending[k].age /\ steady[k] \in Nat
    BY <1>1, <1>3 DEF WatchInv, DeadlineInv, TimersInv
  <2> QED BY <2>2, <2>3, WatcherAssumption DEF Horizon
<1> QED BY <1>2, <1>3

\* A look at the chips keeps it, whatever asked for it.
LEMMA CheckKeeps ==
    ASSUME WatchInv, NEW left \in {settleAge, Unarmed}, Check(left),
           rescanAge' \in 0 .. Rescan,
           left = settleAge \/ settleAge = Settle
    PROVE  WatchInv'
<1>1. TimersInv'
  BY WatcherAssumption DEF WatchInv, TimersInv, Check, Unarmed, Promoted
<1>2. PendingShape'
  BY DEF PendingShape, Check, PendingAfter
<1>3. ASSUME NEW k \in Chips, Waits(k)'
      PROVE  /\ Differs(k) /\ confirmed'[k] = confirmed[k] /\ settleAge' = 0
             /\ pending'[k] = IF Stays(k) THEN pending[k] ELSE [shape |-> actual[k], age |-> 0]
             /\ Stays(k) => pending[k].age < Settle
  <2>1. pending'[k] = PendingAfter[k] /\ pending'[k] # NoPending
    BY <1>3 DEF Check, Waits
  <2>2. Differs(k) /\ k \notin Promoted
    BY <2>1 DEF PendingAfter
  <2>3. settleAge' = 0
    BY <2>1 DEF Check
  <2>4. pending'[k] = IF Stays(k) THEN pending[k] ELSE [shape |-> actual[k], age |-> 0]
    BY <2>1, <2>2 DEF PendingAfter
  <2>5. Stays(k) => pending[k].age < Settle
    BY <2>2, WatcherAssumption DEF Promoted, WatchInv, CandidatesInv, Stays, Waits
  <2>6. confirmed'[k] = confirmed[k]
    BY <2>2 DEF Check
  <2> QED BY <2>2, <2>3, <2>4, <2>5, <2>6
<1>4. CandidatesInv'
  <2>1. SUFFICES ASSUME NEW k \in Chips, Waits(k)'
        PROVE  /\ pending'[k] \in [shape : Shapes \cup {NoChip}, age : Nat]
               /\ pending'[k].shape # confirmed'[k]
               /\ settleAge' \in Nat
               /\ pending'[k].age < Settle + settleAge'
               /\ pending'[k].shape = lastSeen'[k] /\ pending'[k].age <= seenFor'[k]
    BY DEF CandidatesInv
  <2>2. /\ lastSeen'[k] = actual[k]
        /\ seenFor'[k] = IF lastSeen[k] = actual[k] THEN seenFor[k] ELSE 0
        /\ seenFor[k] \in Nat /\ actual[k] \in Shapes \cup {NoChip}
    BY DEF Check, WatchInv, TimersInv
  <2>3. CASE Stays(k)
    <3>1. Waits(k) /\ pending[k].shape = actual[k]
      BY <2>3 DEF Stays, Waits
    <3>2. /\ pending[k] \in [shape : Shapes \cup {NoChip}, age : Nat]
          /\ pending[k].shape # confirmed[k]
          /\ pending[k].shape = lastSeen[k] /\ pending[k].age <= seenFor[k]
      BY <3>1 DEF WatchInv, CandidatesInv
    <3>3. pending'[k] = pending[k] /\ pending[k].age < Settle /\ settleAge' = 0
          /\ confirmed'[k] = confirmed[k]
      BY <2>1, <1>3, <2>3
    <3>4. seenFor'[k] = seenFor[k] /\ pending[k].shape = lastSeen'[k]
      BY <3>1, <3>2, <2>2
    <3>5. 0 \in Nat /\ pending[k].age < Settle + 0
      BY <3>2, <3>3, WatcherAssumption
    <3> QED BY <3>2, <3>3, <3>4, <3>5
  <2>4. CASE ~Stays(k)
    <3>1. pending'[k] = [shape |-> actual[k], age |-> 0] /\ settleAge' = 0 /\ confirmed'[k] = confirmed[k]
          /\ Differs(k)
      BY <2>1, <1>3, <2>4
    <3> QED BY <3>1, <2>2, WatcherAssumption DEF Differs
  <2> QED BY <2>3, <2>4
<1>5. DeadlineInv'
  <2>1. SUFFICES ASSUME NEW k \in Chips, Differs(k)'
        PROVE  Stays(k)' /\ steady'[k] <= Rescan + pending'[k].age
    BY DEF DeadlineInv
  <2>2. /\ actual' = actual /\ steady' = steady /\ confirmed'[k] # actual[k]
        /\ pending'[k] = PendingAfter[k]
    BY <2>1 DEF Differs, Check
  <2>3. Differs(k) /\ k \notin Promoted
    BY <2>2 DEF Check, Differs, Promoted
  <2>4. CASE Stays(k)
    <3>1. pending'[k] = pending[k] /\ pending[k] # NoPending /\ pending[k].shape = actual[k]
      BY <2>2, <2>3, <2>4 DEF PendingAfter, Stays
    <3>2. steady[k] <= Rescan + pending[k].age
      BY <2>3, <2>4 DEF WatchInv, DeadlineInv
    <3> QED BY <3>1, <3>2, <2>2 DEF Stays
  <2>5. CASE ~Stays(k)
    <3>1. pending'[k] = [shape |-> actual[k], age |-> 0]
      BY <2>2, <2>3, <2>5 DEF PendingAfter
    <3>2. steady[k] <= rescanAge /\ rescanAge \in 0 .. Rescan /\ steady[k] \in Nat
      BY <2>3, <2>5 DEF WatchInv, DeadlineInv, TimersInv
    <3>3. [shape |-> actual[k], age |-> 0] # NoPending
      <4>1. [shape |-> actual[k], age |-> 0].age # NoPending.age
        BY DEF NoPending
      <4> QED BY <4>1
    <3> QED BY <3>1, <3>2, <3>3, <2>2, WatcherAssumption DEF Stays
  <2> QED BY <2>4, <2>5
<1> QED BY <1>1, <1>2, <1>4, <1>5 DEF WatchInv

\* A chip that comes, goes or is renumbered keeps it.
LEMMA ChangeKeeps ==
    ASSUME WatchInv, NEW c \in Chips, ChipChanges(c)
    PROVE  WatchInv'
<1> PICK s \in (Shapes \cup {NoChip}) \ {actual[c]} : actual' = [actual EXCEPT ![c] = s]
  BY DEF ChipChanges
<1>1. TimersInv'
  BY DEF WatchInv, TimersInv, ChipChanges
<1>2. PendingShape' /\ CandidatesInv'
  BY DEF WatchInv, PendingShape, CandidatesInv, ChipChanges, Waits
<1>3. DeadlineInv'
  <2>1. SUFFICES ASSUME NEW k \in Chips, Differs(k)'
        PROVE  steady'[k] <= IF Stays(k)' THEN Rescan + pending'[k].age ELSE rescanAge'
    BY DEF DeadlineInv
  <2>2. CASE k = c
    <3>1. steady'[k] = 0 /\ pending' = pending /\ rescanAge' = rescanAge
      BY <2>2 DEF ChipChanges, WatchInv, TimersInv
    <3>2. Stays(k)' => pending[k].age \in Nat
      BY <3>1 DEF Stays, WatchInv, CandidatesInv, Waits
    <3> QED BY <3>1, <3>2, WatcherAssumption DEF WatchInv, TimersInv
  <2>3. CASE k # c
    <3>1. actual'[k] = actual[k] /\ steady'[k] = steady[k]
      BY <2>3 DEF ChipChanges, WatchInv, TimersInv
    <3> QED BY <3>1, <2>1 DEF ChipChanges, WatchInv, DeadlineInv, Differs, Stays
  <2> QED BY <2>2, <2>3
<1> QED BY <1>1, <1>2, <1>3 DEF WatchInv

\* A unit of time keeps it: it passes only while no timer is due.
LEMMA TimeKeeps == WatchInv /\ TimePasses => WatchInv'
<1> SUFFICES ASSUME WatchInv, TimePasses PROVE WatchInv'
  OBVIOUS
<1>1. /\ rescanAge \in Nat /\ rescanAge < Rescan /\ rescanAge' = rescanAge + 1
      /\ settleAge # Unarmed => settleAge \in Nat /\ settleAge < Settle /\ settleAge' = settleAge + 1
      /\ settleAge = Unarmed => settleAge' = Unarmed
  BY WatcherAssumption DEF WatchInv, TimersInv, TimePasses, SettleDue, Unarmed
<1>2. ASSUME NEW k \in Chips
      PROVE  /\ steady[k] \in Nat /\ steady'[k] = Cap(steady[k] + 1)
             /\ seenFor[k] \in Nat /\ seenFor'[k] = Cap(seenFor[k] + 1)
             /\ lastSeen'[k] = lastSeen[k] /\ actual'[k] = actual[k] /\ confirmed'[k] = confirmed[k]
  BY <1>2 DEF WatchInv, TimersInv, TimePasses
<1>3. ASSUME NEW k \in Chips, Waits(k)
      PROVE  /\ pending[k].age \in Nat /\ pending[k].shape \in Shapes \cup {NoChip}
             /\ pending'[k] = [shape |-> pending[k].shape, age |-> pending[k].age + 1]
             /\ settleAge \in Nat /\ settleAge < Settle /\ settleAge' = settleAge + 1
             /\ pending[k].age < Settle + settleAge
  <2>1. /\ pending[k] \in [shape : Shapes \cup {NoChip}, age : Nat]
        /\ settleAge \in Nat /\ pending[k].age < Settle + settleAge
    BY <1>3 DEF WatchInv, CandidatesInv
  <2>2. settleAge < Settle /\ settleAge' = settleAge + 1
    BY <1>1, <2>1 DEF Unarmed
  <2>3. pending[k].age + 1 < Horizon
    BY <2>1, <2>2, WatcherAssumption DEF Horizon
  <2>4. Cap(pending[k].age + 1) = pending[k].age + 1
    BY <2>1, <2>3, CapIsMin
  <2>5. pending'[k] = [pending[k] EXCEPT !.age = Cap(pending[k].age + 1)]
    BY <1>3 DEF TimePasses, Waits
  <2> QED BY <2>1, <2>2, <2>4, <2>5
<1>4. ASSUME NEW k \in Chips, Waits(k)' PROVE Waits(k)
  BY <1>4 DEF TimePasses, Waits
<1>5. TimersInv'
  <2>1. steady' \in [Chips -> Nat] /\ seenFor' \in [Chips -> Nat]
    BY <1>2, CapIsMin DEF TimePasses
  <2>2. rescanAge' \in 0 .. Rescan /\ settleAge' \in Nat \cup {Unarmed} /\ settleAge' <= Settle
    BY <1>1, WatcherAssumption DEF WatchInv, TimersInv, Unarmed
  <2> QED BY <2>1, <2>2 DEF WatchInv, TimersInv, TimePasses
<1>6. PendingShape'
  BY DEF PendingShape, TimePasses
<1>7. CandidatesInv'
  <2>1. SUFFICES ASSUME NEW k \in Chips, Waits(k)'
        PROVE  /\ pending'[k] \in [shape : Shapes \cup {NoChip}, age : Nat]
               /\ pending'[k].shape # confirmed'[k]
               /\ settleAge' \in Nat
               /\ pending'[k].age < Settle + settleAge'
               /\ pending'[k].shape = lastSeen'[k] /\ pending'[k].age <= seenFor'[k]
    BY DEF CandidatesInv
  <2>2. Waits(k)
    BY <2>1, <1>4
  <2>3. /\ pending[k].shape # confirmed[k] /\ pending[k].shape = lastSeen[k]
        /\ pending[k].age <= seenFor[k]
    BY <2>2 DEF WatchInv, CandidatesInv
  <2>5. /\ pending[k].age \in Nat /\ pending[k].shape \in Shapes \cup {NoChip}
        /\ pending'[k] = [shape |-> pending[k].shape, age |-> pending[k].age + 1]
        /\ settleAge \in Nat /\ settleAge < Settle /\ settleAge' = settleAge + 1
        /\ pending[k].age < Settle + settleAge
    BY <2>2, <1>3
  <2>4. pending[k].age + 1 <= Cap(seenFor[k] + 1)
    <3>1. pending[k].age + 1 < Horizon
      BY <2>5, WatcherAssumption DEF Horizon
    <3>2. Cap(pending[k].age + 1) = pending[k].age + 1
      BY <3>1, <2>5, CapIsMin
    <3>3. Cap(pending[k].age + 1) <= Cap(seenFor[k] + 1)
      <4>1. seenFor[k] + 1 \in Nat /\ pending[k].age + 1 \in Nat /\ pending[k].age + 1 <= seenFor[k] + 1
        BY <2>3, <2>5, <1>2
      <4> QED BY <4>1, CapIsMin
    <3> QED BY <3>2, <3>3
  <2> DEFINE older == pending[k].age + 1
  <2>6. pending'[k] = [shape |-> pending[k].shape, age |-> older] /\ older \in Nat
    BY <2>5
  <2>7. /\ settleAge' \in Nat /\ older < Settle + settleAge'
        /\ older <= seenFor'[k]
    BY <2>4, <2>5, <1>2, WatcherAssumption
  <2>8. pending[k].shape # confirmed'[k] /\ pending[k].shape = lastSeen'[k]
    BY <2>3, <1>2
  <2> HIDE DEF older
  <2> QED BY <2>5, <2>6, <2>7, <2>8
<1>8. DeadlineInv'
  <2>1. SUFFICES ASSUME NEW k \in Chips, Differs(k)'
        PROVE  steady'[k] <= IF Stays(k)' THEN Rescan + pending'[k].age ELSE rescanAge'
    BY DEF DeadlineInv
  <2>2. Differs(k) /\ steady'[k] <= steady[k] + 1 /\ steady'[k] \in Nat
    BY <2>1, <1>2, CapIsMin DEF Differs
  <2>3. CASE Stays(k)
    <3>1. Waits(k) /\ pending[k].shape = actual[k]
      BY <2>3 DEF Stays, Waits
    <3>2. pending'[k] = [shape |-> actual[k], age |-> pending[k].age + 1] /\ pending[k].age \in Nat
      BY <1>3, <3>1
    <3>3. steady[k] <= Rescan + pending[k].age
      BY <2>2, <2>3 DEF WatchInv, DeadlineInv
    <3>4. Stays(k)'
      <4>1. pending'[k].age # NoPending.age
        BY <3>2 DEF NoPending
      <4> QED BY <4>1, <3>2, <1>2 DEF Stays
    <3> QED BY <3>2, <3>3, <3>4, <2>2, <1>2, WatcherAssumption
  <2>4. CASE ~Stays(k)
    <3>1. steady[k] <= rescanAge
      BY <2>2, <2>4 DEF WatchInv, DeadlineInv
    <3>2. ~Stays(k)'
      <4>1. CASE Waits(k)
        <5>1. pending[k].shape # actual[k]
          BY <4>1, <2>4 DEF Stays, Waits
        <5>2. pending'[k] = [shape |-> pending[k].shape, age |-> pending[k].age + 1]
          BY <4>1, <1>3
        <5>3. pending'[k].shape # actual'[k]
          BY <5>1, <5>2, <1>2
        <5> QED BY <5>3 DEF Stays
      <4>2. CASE ~Waits(k)
        BY <4>2, <1>4 DEF Stays, Waits
      <4> QED BY <4>1, <4>2
    <3> QED BY <3>1, <3>2, <2>2, <1>1, <1>2
  <2> QED BY <2>3, <2>4
<1> QED BY <1>5, <1>6, <1>7, <1>8 DEF WatchInv

\* Every step keeps it.
LEMMA WatchInvStep == WatchInv /\ [WatcherNext]_wVars => WatchInv'
<1> SUFFICES ASSUME WatchInv, [WatcherNext]_wVars PROVE WatchInv'
  OBVIOUS
<1>1. CASE OnUevent
  BY <1>1, CheckKeeps DEF OnUevent, WatchInv, TimersInv
<1>2. CASE OnRescan
  <2>1. rescanAge' \in 0 .. Rescan /\ Check(settleAge)
    BY <1>2, WatcherAssumption DEF OnRescan
  <2> QED BY <2>1, CheckKeeps
<1>3. CASE OnSettle
  <2>1. rescanAge' \in 0 .. Rescan /\ Check(Unarmed)
    BY <1>3 DEF OnSettle, WatchInv, TimersInv
  <2>2. settleAge = Settle
    BY <1>3, WatcherAssumption DEF OnSettle, SettleDue, WatchInv, TimersInv, Unarmed
  <2> QED BY <2>1, <2>2, CheckKeeps
<1>4. CASE TakeRestart
  BY <1>4 DEF TakeRestart, WatchInv, TimersInv, PendingShape, CandidatesInv, DeadlineInv, Waits, Differs, Stays
<1>5. CASE TimePasses
  BY <1>5, TimeKeeps
<1>6. CASE \E k \in Chips : ChipChanges(k)
  BY <1>6, ChangeKeeps
<1>7. CASE UNCHANGED wVars
  BY <1>7 DEF wVars, WatchInv, TimersInv, PendingShape, CandidatesInv, DeadlineInv, Waits, Differs, Stays
<1> QED BY <1>1, <1>2, <1>3, <1>4, <1>5, <1>6, <1>7 DEF WatcherNext

\* A step that confirms a topology has seen it for a settle window.
LEMMA SilentStep ==
    ASSUME WatchInv, [WatcherNext]_wVars, NEW k \in Chips, confirmed'[k] # confirmed[k]
    PROVE  lastSeen[k] = confirmed'[k] /\ seenFor[k] >= Settle
<1>1. \E left : Check(left)
  BY DEF WatcherNext, wVars, OnUevent, OnRescan, OnSettle, TakeRestart, TimePasses, ChipChanges
<1>2. k \in Promoted /\ confirmed'[k] = actual[k]
  BY <1>1 DEF Check
<1>3. Waits(k) /\ pending[k].shape = actual[k] /\ pending[k].age >= Settle
  BY <1>2 DEF Promoted, Stays, Waits
<1> QED BY <1>2, <1>3, WatcherAssumption DEF WatchInv, CandidatesInv, TimersInv

\* However chips come and go and whatever the uevents say or fail to say: a change
\* that stays is confirmed within a rescan and two settle windows.
THEOREM WatcherIsInTime == WatcherSpec => []NoticedInTime
<1>1. WatcherInit => WatchInv
  BY WatchInvInit
<1>2. WatchInv /\ [WatcherNext]_wVars => WatchInv'
  BY WatchInvStep
<1>3. WatchInv => NoticedInTime
  BY WatchInvNotices
<1> QED BY <1>1, <1>2, <1>3, PTL DEF WatcherSpec

\* No change is confirmed that has not been seen for a whole settle window, so that
\* a chip that flaps rebinds nothing.
THEOREM WatcherIsSilent == WatcherSpec => FlapsAreSilent
<1>1. WatcherInit => WatchInv
  BY WatchInvInit
<1>2. WatchInv /\ [WatcherNext]_wVars => WatchInv'
  BY WatchInvStep
<1>3. WatchInv /\ [WatcherNext]_wVars =>
        [\A k \in Chips : confirmed'[k] # confirmed[k] =>
          lastSeen[k] = confirmed'[k] /\ seenFor[k] >= Settle]_wVars
  BY SilentStep
<1> QED BY <1>1, <1>2, <1>3, PTL DEF WatcherSpec, FlapsAreSilent

-----------------------------------------------------------------------------
(* The systemd heartbeat.                                                  *)

\* The heartbeat without fairness: a second passes only when systemd lets it.
HeartbeatSpec == HeartbeatInit /\ [][HeartbeatNext]_hVars

\* While the process is up, its stamp is older than the window by no more than the
\* seconds that went without a ping.
HeartInv ==
    /\ window \in Nat /\ filePoll \in Polls
    /\ stamp \in Nat \cup {Never} /\ silent \in 0 .. WatchdogSec
    /\ up => stamp = Never \/ stamp <= window + silent

\* The liveness window is a number of seconds.
LEMMA WindowIsTime ==
    ASSUME NEW p \in Polls \cup {DefaultPoll}
    PROVE  LivenessWindow(p) \in Nat
  BY HeartbeatAssumption DEF LivenessWindow, WatchdogStallFloor

\* It holds when systemd starts the daemon.
LEMMA HeartInvInit == HeartbeatInit => HeartInv
  BY WindowIsTime, HeartbeatAssumption DEF HeartbeatInit, HeartInv, Never

\* Every step keeps it.
LEMMA HeartInvStep == HeartInv /\ [HeartbeatNext]_hVars => HeartInv'
<1> SUFFICES ASSUME HeartInv, [HeartbeatNext]_hVars PROVE HeartInv'
  OBVIOUS
<1>1. CASE BootDaemon
  <2> DEFINE p == IF bare THEN DefaultPoll ELSE filePoll
  <2>1. LivenessWindow(p) \in Nat
    BY WindowIsTime DEF HeartInv
  <2>2. window' = LivenessWindow(p) /\ stamp' = Never /\ silent' = 0 /\ filePoll' = filePoll
    BY <1>1 DEF BootDaemon, Boot
  <2> HIDE DEF p
  <2> QED BY <2>1, <2>2, HeartbeatAssumption DEF HeartInv
<1>2. ASSUME NEW l \in Loops, NEW wait, EndTick(l, wait), UNCHANGED <<up, window, filePoll, silent>>
      PROVE  HeartInv'
  BY <1>2, HeartbeatAssumption DEF EndTick, HeartInv, Never
<1>3. ASSUME NEW l \in Loops, QuickTick(l) \/ EndLongTick(l) PROVE HeartInv'
  BY <1>2, <1>3 DEF QuickTick, EndLongTick
<1>4. ASSUME NEW l \in Loops, BeginLongTick(l) \/ Wedge(l) \/ Leave(l) PROVE HeartInv'
  BY <1>4 DEF BeginLongTick, Wedge, Leave, HeartInv
<1>5. CASE ChangePoll \/ Renumber \/ Respawn \/ FirstConfiguration
  BY <1>5 DEF ChangePoll, Renumber, Respawn, FirstConfiguration, HeartInv
<1>6. CASE Second
  <2>1. /\ window' = window /\ filePoll' = filePoll /\ up /\ silent \in Nat /\ silent < WatchdogSec
        /\ stamp' = IF stamp = Never THEN Never ELSE stamp + 1
        /\ silent' = IF stamp' = Never \/ stamp' <= window THEN 0 ELSE silent + 1
    BY <1>6, HeartbeatAssumption DEF Second, ControlLoopAlive, HeartInv
  <2>2. CASE stamp = Never
    BY <2>1, <2>2, HeartbeatAssumption DEF HeartInv
  <2>3. CASE stamp # Never
    <3>1. stamp \in Nat /\ stamp <= window + silent /\ stamp' = stamp + 1 /\ stamp' # Never
      BY <2>1, <2>3 DEF HeartInv, Never
    <3> QED BY <2>1, <3>1, HeartbeatAssumption DEF HeartInv
  <2> QED BY <2>2, <2>3
<1>7. CASE WatchdogKill
  BY <1>7, HeartbeatAssumption DEF WatchdogKill, HeartInv
<1>8. CASE UNCHANGED hVars
  BY <1>8 DEF hVars, HeartInv
<1> QED BY <1>1, <1>3, <1>4, <1>5, <1>6, <1>7, <1>8 DEF HeartbeatNext

\* However many controllers there are, whichever leaves, joins or polls at another
\* interval: when none of them has completed a tick for the window and the
\* watchdog time of the unit, the process is not up.
THEOREM StallsAreCaught == HeartbeatSpec => []StallIsCaught
<1>1. HeartbeatInit => HeartInv
  BY HeartInvInit
<1>2. HeartInv /\ [HeartbeatNext]_hVars => HeartInv'
  BY HeartInvStep
<1>3. HeartInv => StallIsCaught
  BY HeartbeatAssumption DEF HeartInv, StallIsCaught, Never
<1> QED BY <1>1, <1>2, <1>3, PTL DEF HeartbeatSpec

-----------------------------------------------------------------------------
(* What systemd kills the daemon for.                                      *)

\* The controllers that are at one point of their loop.
Those(s) == {l \in DOMAIN cohort : cohort[l].at = s}

\* The window was computed from a faster poll than the cohort's.
TooSlow == LivenessWindow(loopPoll) > window

\* There is no cause to kill the daemon for.
Sound == /\ up /\ ~late /\ ~TooSlow
         /\ draining => Those("stuck") = {}
         /\ ~draining => Those("select") \cup Those("tick") # {}

\* Whatever drives the heartbeat is a time, and the seconds without a ping are
\* those the stamp is older than the window.
PaceInv ==
    /\ loopPoll \in Polls \cup {DefaultPoll} /\ filePoll \in Polls
    /\ window \in Nat /\ window >= 8 /\ {up, bare, draining, late} \subseteq BOOLEAN
    /\ stamp \in Nat \cup {Never} /\ silent \in Nat
    /\ cohort \in [DOMAIN cohort -> LoopStates]
    /\ up => \/ silent = 0 \/ stamp = 0
             \/ stamp # Never /\ silent + window <= stamp
    /\ bare => DOMAIN cohort = {} /\ stamp = Never /\ ~draining

\* While the stamp is the cohort's own, each controller that can tick will before it
\* is older than two polls and a slow tick.
StampInv ==
    up /\ ~late /\ ~TooSlow /\ stamp # Never =>
       /\ \A l \in Those("select") : 5 * (stamp + cohort[l].wait) <= 2 * window
       /\ \A l \in Those("tick") : 5 * (stamp + cohort[l].wait) <= 2 * window + 5 * SlowTick

\* So the heartbeat of a sound cohort is silent for less than a slow tick.
SilenceInv == Sound => silent = 0 \/ 5 * (silent + window) <= 2 * window + 5 * SlowTick

\* A slow cohort that is drained and has ticked since leaves a fresh stamp.
DrainInv ==
    up /\ draining /\ ~late /\ TooSlow /\ Those("stuck") = {} =>
       /\ stamp # Never
       /\ stamp = 0 \/ (DOMAIN cohort # {} /\ Those("select") = {})
       /\ \A l \in Those("tick") : stamp + cohort[l].wait <= SlowTick
       /\ silent = 0 \/ silent + window <= SlowTick

CauseInv == PaceInv /\ StampInv /\ SilenceInv /\ DrainInv

\* A poll interval is a positive number of seconds.
LEMMA PollsAreTimes == loopPoll \in Polls \cup {DefaultPoll} => loopPoll \in Nat \ {0}
  BY HeartbeatAssumption

\* A window that is not too short for a poll holds five of it.
LEMMA WindowHolds ==
    ASSUME NEW p \in Nat, NEW w \in Nat, ~(LivenessWindow(p) > w)
    PROVE  5 * p <= w
BY DEF LivenessWindow, WatchdogStallFloor

\* So does the window of a cohort that is not too slow for it.
LEMMA FivePolls == PaceInv /\ ~TooSlow => 5 * loopPoll <= window
  BY HeartbeatAssumption DEF PaceInv, TooSlow, LivenessWindow, WatchdogStallFloor

\* A new cohort's controllers are at the start of their poll.
LEMMA StartedFrames ==
    ASSUME NEW ls, NEW p \in Nat
    PROVE  /\ DOMAIN Started(ls, p) = ls
           /\ Started(ls, p) \in [ls -> [at : {"select"}, wait : 0 .. p]]
           /\ \A l \in ls : Started(ls, p)[l].at = "select" /\ Started(ls, p)[l].wait = p
  BY DEF Started

\* The empty cohort is the one without controllers, ...
LEMMA NobodyIsEmpty == DOMAIN Nobody = {}
  BY DEF Nobody, Started

\* ... and the only one.
LEMMA EmptyIsNobody == PaceInv /\ DOMAIN cohort = {} => cohort = Nobody
<1> SUFFICES ASSUME PaceInv, DOMAIN cohort = {} PROVE cohort = Nobody
  OBVIOUS
<1>1. cohort \in [{} -> LoopStates]
  BY DEF PaceInv
<1>2. Nobody \in [{} -> LoopStates]
  BY DEF Nobody, Started
<1> QED BY <1>1, <1>2

\* The invariant holds when systemd starts the daemon.
LEMMA CauseInit == HeartbeatInit => CauseInv
<1> SUFFICES ASSUME HeartbeatInit PROVE CauseInv
  OBVIOUS
<1>1. DOMAIN cohort = {} /\ cohort \in [DOMAIN cohort -> LoopStates]
  BY DEF HeartbeatInit, Nobody, Started
<1>2. PaceInv
  <2>1. window \in Nat /\ window >= 8
    BY HeartbeatAssumption DEF HeartbeatInit, LivenessWindow, WatchdogStallFloor
  <2> QED BY <1>1, <2>1, HeartbeatAssumption DEF HeartbeatInit, PaceInv, Never
<1> QED BY <1>2 DEF HeartbeatInit, CauseInv, StampInv, SilenceInv, DrainInv, Sound
\* Where a controller waits bounds how long.
LEMMA FrameFacts ==
    ASSUME PaceInv, NEW l \in DOMAIN cohort
    PROVE  /\ cohort[l] \in LoopStates /\ cohort[l].wait \in Nat
           /\ cohort[l].at = "select" => cohort[l].wait \in 0 .. loopPoll
           /\ cohort[l].at = "tick" => cohort[l].wait \in 0 .. SlowTick
           /\ cohort[l].at \notin {"select", "tick"} => cohort[l].at = "stuck"
<1>1. cohort[l] \in LoopStates
  BY DEF PaceInv
<1>2. loopPoll \in Nat /\ SlowTick \in Nat
  BY PollsAreTimes, HeartbeatAssumption DEF PaceInv
<1> QED BY <1>1, <1>2 DEF LoopStates

\* One controller moves.
LEMMA PutFrame ==
    ASSUME PaceInv, NEW l \in DOMAIN cohort, NEW f \in LoopStates,
           cohort' = [cohort EXCEPT ![l] = f], loopPoll' = loopPoll
    PROVE  /\ DOMAIN cohort' = DOMAIN cohort /\ cohort' \in [DOMAIN cohort' -> LoopStates']
           /\ cohort'[l] = f /\ \A m \in DOMAIN cohort : m # l => cohort'[m] = cohort[m]
BY DEF PaceInv, LoopStates

\* The invariant is kept by a start, ...
LEMMA BootKeepsCause == CauseInv /\ BootDaemon => CauseInv'
<1> SUFFICES ASSUME CauseInv, BootDaemon PROVE CauseInv'
  OBVIOUS
<1> DEFINE p == IF bare THEN DefaultPoll ELSE filePoll
           ls == IF bare THEN {} ELSE Loops
<1>1. PaceInv /\ ~up
  BY DEF CauseInv, BootDaemon
<1>2. p \in Polls \cup {DefaultPoll} /\ p \in Nat
  BY <1>1, HeartbeatAssumption DEF PaceInv
<1>3. /\ up' = TRUE /\ bare' = bare /\ late' = FALSE /\ filePoll' = filePoll /\ draining' = draining
      /\ window' = LivenessWindow(p) /\ loopPoll' = p /\ stamp' = Never /\ silent' = 0
      /\ cohort' = Started(ls, p)
  BY DEF BootDaemon, Boot
<1> HIDE DEF p
<1>4. DOMAIN cohort' = ls /\ cohort' \in [DOMAIN cohort' -> LoopStates']
  BY <1>2, <1>3, StartedFrames DEF LoopStates
<1>5. LivenessWindow(p) \in Nat /\ LivenessWindow(p) >= 8
  BY <1>2 DEF LivenessWindow, WatchdogStallFloor
<1>6. PaceInv'
  BY <1>1, <1>2, <1>3, <1>4, <1>5 DEF PaceInv
<1>7. ~TooSlow'
  BY <1>3, <1>5 DEF TooSlow
<1> QED BY <1>3, <1>6, <1>7 DEF CauseInv, StampInv, SilenceInv, DrainInv

\* ... by the end of a tick, which is where a stamp becomes the cohort's own, ...
LEMMA EndTickKeepsCause ==
    ASSUME CauseInv, up, NEW l \in DOMAIN cohort, cohort[l].at \in {"select", "tick"},
           NEW pause \in 0 .. loopPoll, EndTick(l, pause),
           UNCHANGED <<up, window, filePoll, bare, loopPoll, draining, silent>>
    PROVE  CauseInv'
<1> DEFINE f == [at |-> "select", wait |-> pause]
<1>1. /\ PaceInv /\ loopPoll \in Nat \ {0} /\ SlowTick \in Nat /\ window \in Nat
      /\ ~bare /\ DOMAIN cohort # {}
  BY PollsAreTimes, HeartbeatAssumption DEF CauseInv, PaceInv
<1>2. f \in LoopStates
  BY DEF LoopStates
<1>3. /\ stamp' = 0 /\ late' = (late /\ silent > 0) /\ cohort' = [cohort EXCEPT ![l] = f]
      /\ late' \in BOOLEAN
  BY DEF EndTick
<1> HIDE DEF f
<1>4. /\ DOMAIN cohort' = DOMAIN cohort /\ cohort' \in [DOMAIN cohort' -> LoopStates']
      /\ cohort'[l] = f /\ \A m \in DOMAIN cohort : m # l => cohort'[m] = cohort[m]
  BY <1>1, <1>2, <1>3, PutFrame
<1>5. PaceInv'
  BY <1>1, <1>3, <1>4 DEF PaceInv
<1>6. TooSlow' = TooSlow
  BY DEF TooSlow
<1>7. Those("stuck")' = Those("stuck") /\ Those("tick")' \subseteq Those("tick") /\ l \in Those("select")'
  BY <1>4 DEF Those, f
<1>8. StampInv'
  <2>1. ASSUME ~TooSlow, NEW m \in Those("select")' PROVE 5 * cohort'[m].wait <= 2 * window
    <3>1. cohort'[m].wait \in 0 .. loopPoll
      BY <1>1, <1>4, FrameFacts DEF Those, f
    <3>2. 5 * loopPoll <= window
      BY <1>1, <2>1, FivePolls
    <3> QED BY <1>1, <3>1, <3>2
  <2>2. ASSUME NEW m \in Those("tick")' PROVE cohort'[m].wait \in 0 .. SlowTick
    BY <1>1, <1>4, FrameFacts DEF Those, f
  <2>3. ASSUME ~TooSlow, NEW m \in Those("select")'
        PROVE  5 * (stamp' + cohort'[m].wait) <= 2 * window'
    <3>1. cohort'[m].wait \in Nat
      BY <1>5, <1>1, <1>4, FrameFacts DEF Those, f
    <3> QED BY <1>3, <2>1, <2>3, <3>1
  <2>4. ASSUME NEW m \in Those("tick")'
        PROVE  5 * (stamp' + cohort'[m].wait) <= 2 * window' + 5 * SlowTick
    BY <1>1, <1>3, <2>2
  <2> QED BY <1>6, <2>3, <2>4 DEF StampInv, Those
<1>9. SilenceInv'
  <2>1. CASE late
    <3>1. Sound' => ~(silent > 0)
      BY <1>3, <2>1 DEF Sound
    <3>2. ~(silent > 0) => silent = 0
      BY <1>1 DEF PaceInv
    <3> QED BY <3>1, <3>2 DEF SilenceInv
  <2>2. CASE ~late
    <3>1. Sound' => Sound
      BY <1>1, <1>6, <1>7, <2>2 DEF Sound, Those
    <3> QED BY <3>1 DEF CauseInv, SilenceInv
  <2> QED BY <2>1, <2>2
<1>10. DrainInv'
  <2>1. ASSUME NEW m \in Those("tick")' PROVE stamp' + cohort'[m].wait <= SlowTick'
    BY <1>1, <1>3, <1>4, FrameFacts DEF Those, f
  <2>2. (up /\ draining /\ ~late /\ TooSlow /\ Those("stuck") = {})' => silent' = 0 \/ silent' + window' <= SlowTick
    BY <1>1, <1>3, <1>6, <1>7 DEF CauseInv, DrainInv, PaceInv
  <2> QED BY <1>3, <2>1, <2>2 DEF DrainInv, Never
<1> QED BY <1>5, <1>8, <1>9, <1>10 DEF CauseInv

\* ... by a tick that takes long or never ends, ...
LEMMA TickDueKeepsCause ==
    ASSUME CauseInv, NEW l \in Loops, BeginLongTick(l) \/ Wedge(l)
    PROVE  CauseInv'
<1> DEFINE f == IF cohort' = [cohort EXCEPT ![l] = [at |-> "tick", wait |-> SlowTick]]
                THEN [at |-> "tick", wait |-> SlowTick] ELSE [at |-> "stuck", wait |-> 0]
<1>1. /\ PaceInv /\ loopPoll \in Nat \ {0} /\ SlowTick \in Nat /\ window \in Nat
  BY PollsAreTimes, HeartbeatAssumption DEF CauseInv, PaceInv
<1>2. /\ up /\ l \in DOMAIN cohort /\ cohort[l].at = "select" /\ cohort[l].wait = 0
      /\ UNCHANGED <<up, window, filePoll, bare, loopPoll, draining, stamp, silent, late>>
      /\ cohort' = [cohort EXCEPT ![l] = f]
  BY DEF BeginLongTick, Wedge, TickDue
<1>3. f \in LoopStates /\ f \in {[at |-> "tick", wait |-> SlowTick], [at |-> "stuck", wait |-> 0]}
  BY <1>1 DEF LoopStates
<1> HIDE DEF f
<1>4. /\ DOMAIN cohort' = DOMAIN cohort /\ cohort' \in [DOMAIN cohort' -> LoopStates']
      /\ cohort'[l] = f /\ \A m \in DOMAIN cohort : m # l => cohort'[m] = cohort[m]
  BY <1>1, <1>2, <1>3, PutFrame
<1>5. PaceInv'
  BY <1>1, <1>2, <1>4 DEF PaceInv
<1>6. TooSlow' = TooSlow
  BY <1>2 DEF TooSlow
<1>7. /\ Those("stuck") \subseteq Those("stuck")' /\ Those("select")' \subseteq Those("select") /\ l \in Those("select")
      /\ \A m \in Those("tick")' : m = l \/ m \in Those("tick")
      /\ \A m \in Those("select")' : m # l
  BY <1>2, <1>3, <1>4 DEF Those
<1>8. StampInv'
  <2>1. ASSUME StampInv, up, ~late, ~TooSlow, stamp # Never
        PROVE  5 * (stamp + 0) <= 2 * window
    BY <1>2, <1>7, <2>1 DEF StampInv
  <2>2. ASSUME StampInv, up, ~late, ~TooSlow, stamp # Never, NEW m \in Those("tick")'
        PROVE  5 * (stamp + cohort'[m].wait) <= 2 * window + 5 * SlowTick
    <3>1. CASE m # l
      BY <1>4, <1>7, <2>2, <3>1 DEF StampInv, Those
    <3>2. CASE m = l
      <4>1. cohort'[m].wait = SlowTick
        BY <1>3, <1>4, <2>2, <3>2 DEF Those
      <4>2. stamp \in Nat
        BY <1>1, <2>2 DEF PaceInv
      <4> QED BY <1>1, <2>1, <2>2, <4>1, <4>2
    <3> QED BY <3>1, <3>2
  <2>3. ASSUME StampInv, up, ~late, ~TooSlow, stamp # Never, NEW m \in Those("select")'
        PROVE  5 * (stamp + cohort'[m].wait) <= 2 * window
    BY <1>4, <1>7, <2>3 DEF StampInv, Those
  <2> QED BY <1>2, <1>6, <2>2, <2>3 DEF StampInv, CauseInv
<1>9. SilenceInv'
  <2>1. Sound' => Sound
    BY <1>2, <1>6, <1>7 DEF Sound
  <2> QED BY <1>2, <2>1 DEF CauseInv, SilenceInv
<1>10. DrainInv'
  <2>1. SUFFICES ASSUME up, draining, ~late, TooSlow, Those("stuck")' = {}
        PROVE  DrainInv'
    BY <1>2, <1>6 DEF DrainInv
  <2>2. /\ stamp = 0 /\ \A m \in Those("tick") : stamp + cohort[m].wait <= SlowTick
        /\ silent = 0 \/ silent + window <= SlowTick
    BY <1>7, <2>1 DEF CauseInv, DrainInv
  <2>3. ASSUME NEW m \in Those("tick")' PROVE cohort'[m].wait <= SlowTick
    BY <1>1, <1>3, <1>4, <1>7, FrameFacts DEF Those
  <2>4. ASSUME NEW m \in Those("tick")' PROVE cohort'[m].wait \in Nat
    BY <1>1, <1>3, <1>4, <1>7, FrameFacts DEF Those
  <2> QED BY <1>2, <2>2, <2>3, <2>4 DEF DrainInv, Never
<1> QED BY <1>5, <1>8, <1>9, <1>10 DEF CauseInv

\* ... by a controller that leaves for a renumber, ...
LEMMA LeaveKeepsCause == ASSUME CauseInv, NEW l \in Loops, Leave(l) PROVE CauseInv'
<1>1. /\ up /\ draining /\ l \in DOMAIN cohort /\ cohort[l].at = "select"
      /\ cohort' = [m \in DOMAIN cohort \ {l} |-> cohort[m]]
      /\ UNCHANGED <<up, window, filePoll, bare, loopPoll, draining, stamp, silent, late>>
  BY DEF Leave
<1>2. /\ DOMAIN cohort' = DOMAIN cohort \ {l} /\ \A m \in DOMAIN cohort' : cohort'[m] = cohort[m]
      /\ cohort' \in [DOMAIN cohort' -> LoopStates']
  BY <1>1 DEF CauseInv, PaceInv, LoopStates
<1>3. PaceInv'
  BY <1>1, <1>2 DEF CauseInv, PaceInv
<1>4. TooSlow' = TooSlow
  BY <1>1 DEF TooSlow
<1>5. /\ Those("stuck") = Those("stuck")' /\ Those("select")' \subseteq Those("select") /\ l \in Those("select")
      /\ Those("tick")' = Those("tick")
  BY <1>1, <1>2 DEF Those
<1>6. StampInv'
  BY <1>1, <1>2, <1>4, <1>5 DEF CauseInv, StampInv, Those
<1>7. SilenceInv'
  <2>1. Sound' => Sound
    BY <1>1, <1>4, <1>5 DEF Sound
  <2> QED BY <1>1, <2>1 DEF CauseInv, SilenceInv
<1>8. DrainInv'
  BY <1>1, <1>2, <1>4, <1>5 DEF CauseInv, DrainInv, Those
<1> QED BY <1>3, <1>6, <1>7, <1>8 DEF CauseInv

\* ... by the renumber itself and by a reload, ...
LEMMA RenumberKeepsCause == CauseInv /\ (Renumber \/ ChangePoll) => CauseInv'
<1> SUFFICES ASSUME CauseInv, Renumber \/ ChangePoll PROVE CauseInv'
  OBVIOUS
<1>1. /\ up /\ ~draining /\ ~bare /\ filePoll' \in Polls
      /\ UNCHANGED <<up, window, bare, cohort, loopPoll, stamp, silent>>
  BY DEF Renumber, ChangePoll
<1>2. PaceInv
  BY DEF CauseInv
<1>3. CASE Renumber
  <2>1. draining' = TRUE /\ late' = (late \/ cohort = Nobody \/ LivenessWindow(loopPoll) > window)
    BY <1>3 DEF Renumber
  <2>2. ~late' => ~late /\ cohort # Nobody /\ ~TooSlow
    BY <2>1 DEF TooSlow
  <2>3. late' \in BOOLEAN
    BY <2>1
  <2>4. PaceInv'
    BY <1>1, <1>2, <2>1, <2>3 DEF PaceInv, LoopStates
  <2>5. TooSlow' = TooSlow /\ \A s : Those(s)' = Those(s)
    BY <1>1 DEF TooSlow, Those
  <2>6. StampInv'
    BY <1>1, <2>2, <2>5 DEF CauseInv, StampInv
  <2>7. SilenceInv'
    <3>1. cohort # Nobody => \E l \in DOMAIN cohort : l \in Those("select") \cup Those("tick") \cup Those("stuck")
      BY <1>2, EmptyIsNobody, FrameFacts DEF Those
    <3>2. Sound' => Sound
      BY <1>1, <2>1, <2>2, <2>5, <3>1 DEF Sound
    <3> QED BY <1>1, <3>2 DEF CauseInv, SilenceInv
  <2>8. DrainInv'
    BY <2>2, <2>5 DEF DrainInv
  <2> QED BY <2>4, <2>6, <2>7, <2>8 DEF CauseInv
<1>4. CASE ChangePoll
  <2>1. draining' = draining /\ late' = late
    BY <1>4 DEF ChangePoll
  <2>2. PaceInv'
    BY <1>1, <1>2, <2>1 DEF PaceInv, LoopStates
  <2>3. TooSlow' = TooSlow /\ \A s : Those(s)' = Those(s)
    BY <1>1 DEF TooSlow, Those
  <2> QED BY <1>1, <2>1, <2>2, <2>3 DEF CauseInv, StampInv, SilenceInv, DrainInv, Sound
<1> QED BY <1>3, <1>4

\* ... by a new cohort that starts from a stamp left in time, or from none, ...
LEMMA StartKeepsCause ==
    ASSUME CauseInv, NEW ls \in SUBSET Loops,
           loopPoll' \in Polls, filePoll' = loopPoll', cohort' = Started(ls, loopPoll'),
           up, bare' = FALSE, draining' = FALSE, UNCHANGED <<up, window, stamp, silent>>,
           late' \in BOOLEAN, ~late' => stamp = Never \/ 5 * stamp <= window,
           ~late' => silent = 0 \/ 5 * (silent + window) <= 2 * window + 5 * SlowTick
    PROVE  CauseInv'
<1>1. PaceInv /\ window \in Nat /\ SlowTick \in Nat
  BY HeartbeatAssumption DEF CauseInv, PaceInv
<1>2. loopPoll' \in Nat
  BY HeartbeatAssumption
<1>3. /\ DOMAIN cohort' = ls /\ cohort' \in [DOMAIN cohort' -> LoopStates']
      /\ \A m \in ls : cohort'[m].at = "select" /\ cohort'[m].wait = loopPoll'
  BY <1>2, StartedFrames DEF LoopStates
<1>4. PaceInv'
  BY <1>1, <1>3 DEF PaceInv
<1>5. StampInv'
  <2>1. SUFFICES ASSUME ~late', ~TooSlow', stamp # Never PROVE StampInv'
    BY DEF StampInv
  <2>2. 5 * loopPoll' <= window
    <3>1. ~(LivenessWindow(loopPoll') > window)
      BY <2>1 DEF TooSlow
    <3> QED BY <1>1, <1>2, <3>1, WindowHolds
  <2>3. stamp \in Nat /\ 5 * (stamp + loopPoll') <= 2 * window
    BY <1>1, <1>2, <2>1, <2>2 DEF PaceInv
  <2> QED BY <1>3, <2>3 DEF StampInv, Those
<1>6. SilenceInv'
  BY DEF SilenceInv, Sound
<1>7. DrainInv'
  BY DEF DrainInv
<1> QED BY <1>4, <1>5, <1>6, <1>7 DEF CauseInv

\* ... which is how a drained cohort is followed by the pause, ...
LEMMA RespawnKeepsCause == CauseInv /\ Respawn => CauseInv'
<1> SUFFICES ASSUME CauseInv, Respawn PROVE CauseInv'
  OBVIOUS
<1>1. /\ up /\ draining /\ cohort = Nobody /\ DOMAIN cohort = {}
      /\ draining' = FALSE /\ loopPoll' = filePoll /\ filePoll' = filePoll
      /\ UNCHANGED <<up, window, bare, stamp, silent>>
      /\ late' = (late \/ stamp > loopPoll)
  BY NobodyIsEmpty DEF Respawn
<1>2. PICK ls \in SUBSET Loops : cohort' = Started(ls, filePoll)
  BY DEF Respawn
<1>3. PaceInv /\ ~bare /\ filePoll \in Polls /\ bare = FALSE
  BY <1>1 DEF CauseInv, PaceInv
<1>4. /\ loopPoll \in Nat \ {0} /\ SlowTick \in Nat /\ window \in Nat /\ silent \in Nat
      /\ stamp \in Nat \cup {Never}
  BY <1>3, PollsAreTimes, HeartbeatAssumption DEF PaceInv
<1>5. ~late' => ~late /\ ~(stamp > loopPoll)
  BY <1>1
<1>6. Those("stuck") = {} /\ Those("tick") = {}
  BY <1>1 DEF Those
<1>7. CASE TooSlow
  <2>1. ~late' => stamp = 0 /\ (silent = 0 \/ silent + window <= SlowTick)
    BY <1>1, <1>5, <1>6, <1>7 DEF CauseInv, DrainInv
  <2>2. ~late' => 5 * stamp <= window
    BY <1>4, <2>1
  <2>3. ~late' => silent = 0 \/ 5 * (silent + window) <= 2 * window + 5 * SlowTick
    BY <1>4, <2>1
  <2> QED BY <1>1, <1>2, <1>3, <2>2, <2>3, StartKeepsCause
<1>8. CASE ~TooSlow
  <2>1. 5 * loopPoll <= window
    BY <1>3, <1>8, FivePolls
  <2>2. ~late' => stamp = Never \/ 5 * stamp <= window
    BY <1>4, <1>5, <2>1
  <2>3. ~late' => Sound
    BY <1>1, <1>5, <1>6, <1>8 DEF Sound
  <2>4. ~late' => silent = 0 \/ 5 * (silent + window) <= 2 * window + 5 * SlowTick
    BY <2>3 DEF CauseInv, SilenceInv
  <2> QED BY <1>1, <1>2, <1>3, <2>2, <2>4, StartKeepsCause
<1> QED BY <1>7, <1>8

\* ... and a daemon without controllers by its first ones, ...
LEMMA FirstConfigurationKeepsCause == CauseInv /\ FirstConfiguration => CauseInv'
<1> SUFFICES ASSUME CauseInv, FirstConfiguration PROVE CauseInv'
  OBVIOUS
<1>1. /\ up /\ bare /\ bare' = FALSE /\ filePoll' \in Polls /\ loopPoll' = filePoll'
      /\ UNCHANGED <<up, window, draining, stamp, silent, late>>
  BY DEF FirstConfiguration
<1>2. PICK ls \in SUBSET Loops : cohort' = Started(ls, loopPoll')
  BY <1>1 DEF FirstConfiguration
<1>3. stamp = Never /\ draining = FALSE /\ silent = 0 /\ late \in BOOLEAN
  BY <1>1 DEF CauseInv, PaceInv, Never
<1> QED BY <1>1, <1>2, <1>3, StartKeepsCause

\* A silence is as long as the stamp is old, which is ends to end.
LEMMA AgesAdd ==
    ASSUME NEW age \in Nat, NEW quiet \in Nat, NEW w \in Nat, NEW long \in Nat, NEW ends \in Nat,
           quiet + w <= age, age <= ends, 5 * ends <= 2 * w + 5 * long
    PROVE  5 * (quiet + w) <= 2 * w + 5 * long
OBVIOUS

\* The same for a stamp no older than a slow tick.
LEMMA AgesChain ==
    ASSUME NEW age \in Nat, NEW quiet \in Nat, NEW w \in Nat, NEW long \in Nat,
           quiet + w <= age, age <= long
    PROVE  quiet + w <= long
OBVIOUS

\* ... by a second that passes, ...
LEMMA SecondKeepsCause == CauseInv /\ Second => CauseInv'
<1> SUFFICES ASSUME CauseInv, Second PROVE CauseInv'
  OBVIOUS
<1>1. /\ up /\ silent < WatchdogSec /\ (draining => cohort # Nobody)
      /\ \A l \in DOMAIN cohort :
            cohort[l].at # "stuck" => cohort[l].wait > 0 /\ ~(draining /\ cohort[l].at = "select")
      /\ cohort' = [l \in DOMAIN cohort |->
                     IF cohort[l].at = "stuck" THEN cohort[l]
                     ELSE [cohort[l] EXCEPT !.wait = @ - 1]]
      /\ stamp' = IF stamp = Never THEN Never ELSE stamp + 1
      /\ silent' = IF stamp' = Never \/ stamp' <= window THEN 0 ELSE silent + 1
      /\ UNCHANGED <<up, window, filePoll, bare, loopPoll, draining, late>>
  BY DEF Second, ControlLoopAlive
<1>2. /\ PaceInv /\ loopPoll \in Nat \ {0} /\ SlowTick \in Nat /\ window \in Nat /\ window >= 8
      /\ silent \in Nat /\ stamp \in Nat \cup {Never}
  BY PollsAreTimes, HeartbeatAssumption DEF CauseInv, PaceInv
<1>3. /\ stamp' \in Nat \cup {Never} /\ silent' \in Nat
      /\ stamp' = Never <=> stamp = Never
      /\ stamp # Never => stamp \in Nat /\ stamp' = stamp + 1
      /\ silent' = 0 \/ (stamp' # Never /\ stamp' > window)
  BY <1>1, <1>2 DEF Never
<1>4. silent' = 0 \/ (stamp' # Never /\ silent' + window <= stamp')
  BY <1>1, <1>2, <1>3 DEF CauseInv, PaceInv, Never
<1>5. ASSUME NEW l \in DOMAIN cohort, cohort[l].at \in {"select", "tick"}
      PROVE  /\ cohort'[l].at = cohort[l].at /\ cohort'[l].wait = cohort[l].wait - 1
             /\ cohort'[l] \in LoopStates /\ cohort[l].wait \in Nat
  BY <1>1, <1>2, <1>5, FrameFacts DEF LoopStates
<1>6. ASSUME NEW l \in DOMAIN cohort
      PROVE  cohort'[l] \in LoopStates /\ cohort'[l].at = cohort[l].at
  BY <1>1, <1>2, <1>5, FrameFacts
<1>7. DOMAIN cohort' = DOMAIN cohort /\ cohort' \in [DOMAIN cohort' -> LoopStates']
  BY <1>1, <1>6 DEF LoopStates
<1>8. PaceInv'
  BY <1>1, <1>2, <1>3, <1>4, <1>7 DEF PaceInv
<1>9. /\ TooSlow' = TooSlow /\ Those("stuck")' = Those("stuck") /\ Those("select")' = Those("select")
      /\ Those("tick")' = Those("tick")
  BY <1>1, <1>6, <1>7 DEF TooSlow, Those
<1>10. stamp # Never => \A l \in Those("select") \cup Those("tick") :
          stamp' + cohort'[l].wait = stamp + cohort[l].wait /\ cohort'[l].wait \in Nat
  BY <1>1, <1>3, <1>5 DEF Those
<1>11. StampInv'
  BY <1>1, <1>3, <1>9, <1>10 DEF CauseInv, StampInv
<1>12. SilenceInv'
  <2>1. SUFFICES ASSUME Sound', silent' # 0
                 PROVE  5 * (silent' + window) <= 2 * window + 5 * SlowTick
    BY <1>1 DEF SilenceInv
  <2>2. Sound /\ stamp # Never /\ up' /\ ~late' /\ ~TooSlow' /\ stamp' # Never
    BY <1>1, <1>3, <1>9, <2>1 DEF Sound
  <2>3. PICK l \in Those("select") \cup Those("tick") : TRUE
    <3>1. draining => \E l \in DOMAIN cohort : l \in Those("select") \cup Those("tick") \cup Those("stuck")
      BY <1>1, <1>2, EmptyIsNobody, FrameFacts DEF Those
    <3> QED BY <2>2, <3>1 DEF Sound
  <2> DEFINE ends == stamp' + cohort'[l].wait
  <2>4. cohort'[l].wait \in Nat /\ stamp' \in Nat
    BY <1>3, <1>10, <2>2, <2>3
  <2>5. ends \in Nat /\ stamp' <= ends
    BY <2>4
  <2>6. 5 * ends <= 2 * window + 5 * SlowTick
    <3>1. window' = window
      BY <1>1
    <3>2. CASE l \in Those("select")
      <4>1. 5 * ends <= 2 * window
        BY <1>9, <1>11, <2>2, <3>1, <3>2 DEF StampInv
      <4> HIDE DEF ends
      <4> QED BY <1>2, <2>5, <4>1
    <3>3. CASE l \in Those("tick")
      BY <1>9, <1>11, <2>2, <3>1, <3>3 DEF StampInv
    <3> QED BY <2>3, <3>2, <3>3
  <2> HIDE DEF ends
  <2>7. silent' + window <= stamp' /\ silent' \in Nat
    BY <1>3, <1>4, <2>1
  <2>8. window \in Nat /\ SlowTick \in Nat
    BY <1>2
  <2> QED BY <2>4, <2>5, <2>6, <2>7, <2>8, AgesAdd
<1>13. DrainInv'
  <2>1. SUFFICES ASSUME draining, ~late, TooSlow, Those("stuck") = {} PROVE DrainInv'
    BY <1>1, <1>9 DEF DrainInv
  <2>2. stamp # Never /\ \A l \in Those("tick") : stamp + cohort[l].wait <= SlowTick
    BY <1>1, <2>1 DEF CauseInv, DrainInv
  <2>3. DOMAIN cohort # {} /\ Those("select") = {}
    BY <1>1, <1>2, <2>1, EmptyIsNobody DEF Those
  <2>4. PICK l \in Those("tick") : TRUE
    BY <1>2, <2>1, <2>3, FrameFacts DEF Those
  <2>5. \A m \in Those("tick") : stamp' + cohort'[m].wait <= SlowTick /\ cohort'[m].wait \in Nat
    BY <1>10, <2>2
  <2>6. silent' = 0 \/ silent' + window <= SlowTick
    <3>1. cohort'[l].wait \in Nat /\ stamp' \in Nat /\ stamp' + cohort'[l].wait <= SlowTick
      BY <1>3, <2>2, <2>4, <2>5
    <3>2. stamp' <= SlowTick
      BY <1>2, <3>1
    <3>3. silent' # 0 => silent' + window <= stamp'
      BY <1>4
    <3>4. silent' \in Nat /\ window \in Nat /\ SlowTick \in Nat /\ stamp' \in Nat
      BY <1>2, <1>3, <3>1
    <3>5. silent' # 0 => silent' + window <= SlowTick
      BY <3>2, <3>3, <3>4, AgesChain
    <3> QED BY <3>5
  <2> QED BY <1>1, <1>3, <1>7, <1>9, <2>2, <2>3, <2>5, <2>6 DEF DrainInv
<1> QED BY <1>8, <1>11, <1>12, <1>13 DEF CauseInv

\* ... and by systemd's kill.
LEMMA KillKeepsCause == CauseInv /\ WatchdogKill => CauseInv'
<1> SUFFICES ASSUME CauseInv, WatchdogKill PROVE CauseInv'
  OBVIOUS
<1>1. /\ up' = FALSE /\ cohort' = Nobody /\ draining' = FALSE
      /\ stamp' = Never /\ silent' = 0 /\ late' = FALSE
      /\ UNCHANGED <<window, filePoll, bare, loopPoll>>
  BY DEF WatchdogKill
<1>2. DOMAIN cohort' = {} /\ cohort' \in [DOMAIN cohort' -> LoopStates']
  BY <1>1, NobodyIsEmpty DEF Nobody, Started
<1>3. PaceInv'
  BY <1>1, <1>2 DEF CauseInv, PaceInv
<1> QED BY <1>1, <1>3 DEF CauseInv, StampInv, SilenceInv, DrainInv, Sound

\* So every step of the heartbeat keeps it.
LEMMA CauseStep == CauseInv /\ [HeartbeatNext]_hVars => CauseInv'
<1> SUFFICES ASSUME CauseInv, [HeartbeatNext]_hVars PROVE CauseInv'
  OBVIOUS
<1>1. ASSUME NEW l \in Loops, QuickTick(l) \/ EndLongTick(l) PROVE CauseInv'
  <2>1. /\ up /\ l \in DOMAIN cohort /\ cohort[l].at \in {"select", "tick"}
        /\ UNCHANGED <<up, window, filePoll, bare, loopPoll, draining, silent>>
    BY <1>1 DEF QuickTick, EndLongTick, TickDue
  <2>2. \E pause \in 0 .. loopPoll : EndTick(l, pause)
    <3>1. loopPoll \in Nat \ {0} /\ SlowTick \in Nat
      BY PollsAreTimes, HeartbeatAssumption DEF CauseInv, PaceInv
    <3>2. /\ loopPoll \in 0 .. loopPoll
          /\ (IF SlowTick >= loopPoll THEN 0 ELSE loopPoll - SlowTick) \in 0 .. loopPoll
      BY <3>1
    <3> QED BY <1>1, <3>2 DEF QuickTick, EndLongTick
  <2> QED BY <2>1, <2>2, EndTickKeepsCause
<1>2. ASSUME NEW l \in Loops, BeginLongTick(l) \/ Wedge(l) \/ Leave(l) PROVE CauseInv'
  BY <1>2, TickDueKeepsCause, LeaveKeepsCause
<1>3. CASE UNCHANGED hVars
  BY <1>3 DEF hVars, CauseInv, PaceInv, StampInv, SilenceInv, DrainInv, Sound, Those, TooSlow, LoopStates
<1> QED BY <1>1, <1>2, <1>3, BootKeepsCause, RenumberKeepsCause, RespawnKeepsCause,
           FirstConfigurationKeepsCause, SecondKeepsCause, KillKeepsCause DEF HeartbeatNext

\* A slow tick that is not too much longer than WatchdogSec is not a cause to kill.
LEMMA NoCauseNoKill ==
    ASSUME CauseInv, WatchdogKill, SlowTick <= WatchdogSec + 4
    PROVE  \/ \A l \in DOMAIN cohort : cohort[l].at = "stuck"
           \/ draining /\ \E l \in DOMAIN cohort : cohort[l].at = "stuck"
           \/ LivenessWindow(loopPoll) > window \/ late
<1>1. PaceInv /\ up /\ silent = WatchdogSec /\ silent # 0 /\ SlowTick \in Nat /\ WatchdogSec \in Nat
      /\ window \in Nat /\ window >= 8
  BY HeartbeatAssumption DEF CauseInv, PaceInv, WatchdogKill
<1>2. ~(5 * (silent + window) <= 2 * window + 5 * SlowTick)
  BY <1>1
<1>3. ~Sound
  BY <1>1, <1>2 DEF CauseInv, SilenceInv
<1>4. \A l \in DOMAIN cohort : l \in Those("select") \cup Those("tick") \/ cohort[l].at = "stuck"
  BY <1>1, FrameFacts DEF Those
<1> QED BY <1>1, <1>3, <1>4 DEF Sound, Those, TooSlow

\* Whatever the loops, the polls and the number of renumbers, systemd kills no daemon
\* one of whose controllers still ticks, unless one tick takes longer than WatchdogSec
\* and half of the smallest window, or the stamp is of a slower cohort or none.
THEOREM KillsHaveACause ==
    ASSUME SlowTick <= WatchdogSec + 4
    PROVE  HeartbeatSpec => KilledForCause
<1>1. CauseInv /\ [HeartbeatNext]_hVars =>
        [WatchdogKill =>
           \/ \A l \in DOMAIN cohort : cohort[l].at = "stuck"
           \/ draining /\ \E l \in DOMAIN cohort : cohort[l].at = "stuck"
           \/ LivenessWindow(loopPoll) > window \/ late]_hVars
  BY NoCauseNoKill
<1> QED BY <1>1, CauseInit, CauseStep, PTL DEF HeartbeatSpec, KilledForCause

-----------------------------------------------------------------------------
(* The duties that the other backends report.                              *)

\* What the assumption says of the constants.
LEMMA HalConstants ==
    /\ Modes \in Nat \ {0} /\ Period \in Nat \ {0}
    /\ MinSpeed \in Nat /\ MaxSpeed \in Nat /\ MinSpeed # MaxSpeed
BY HalAssumption

\* A quotient is the whole number it lies above.
LEMMA Quotient ==
    ASSUME NEW n \in Int, NEW d \in Nat \ {0}
    PROVE  /\ n \div d \in Int
           /\ d * (n \div d) <= n /\ n < d * (n \div d) + d
OBVIOUS

\* No other whole number is.
LEMMA QuotientIs ==
    ASSUME NEW n \in Int, NEW d \in Nat \ {0}, NEW k \in Int, d * k <= n, n < d * k + d
    PROVE  n \div d = k
OBVIOUS

\* Rounding gives the nearest whole number.
LEMMA Nearest ==
    ASSUME NEW n \in Int, NEW d \in Nat \ {0}
    PROVE  /\ Round(n, d) \in Int
           /\ 2 * (d * Round(n, d)) - d <= 2 * n /\ 2 * n < 2 * (d * Round(n, d)) + d
<1> DEFINE k == Round(n, d)
<1>1. 2 * n + d \in Int /\ 2 * d \in Nat \ {0}
  OBVIOUS
<1>2. k \in Int /\ (2 * d) * k <= 2 * n + d /\ 2 * n + d < (2 * d) * k + 2 * d
  BY <1>1, Quotient DEF Round
<1>3. (2 * d) * k = 2 * (d * k) /\ d * k \in Int
  BY <1>2
<1> HIDE DEF k
<1>4. 2 * (d * k) - d <= 2 * n /\ 2 * n < 2 * (d * k) + d
  BY <1>2, <1>3
<1> QED BY <1>2, <1>4 DEF k

\* No other whole number is that near.
LEMMA NearestIs ==
    ASSUME NEW n \in Int, NEW d \in Nat \ {0}, NEW k \in Int,
           2 * (d * k) - d <= 2 * n, 2 * n < 2 * (d * k) + d
    PROVE  Round(n, d) = k
<1>1. (2 * d) * k = 2 * (d * k) /\ d * k \in Int
  OBVIOUS
<1>2. 2 * n + d \in Int /\ 2 * d \in Nat \ {0} /\ (2 * d) * k <= 2 * n + d /\ 2 * n + d < (2 * d) * k + 2 * d
  BY <1>1
<1> QED BY <1>2, QuotientIs DEF Round

\* A scale of P steps and one of 255: what is written, read and written again
\* is the same step, whichever of them is the finer.
Returns(P, d) == Round(Round(Round(d * P, 255) * 255, P) * P, 255) = Round(d * P, 255)

LEMMA RoundTrip ==
    ASSUME NEW P \in Nat \ {0}, NEW d \in 0 .. 255
    PROVE  Returns(P, d)
<1> SUFFICES Round(Round(Round(d * P, 255) * 255, P) * P, 255) = Round(d * P, 255)
  BY DEF Returns
<1> DEFINE q == Round(d * P, 255)
           b == Round(q * 255, P)
           dP == d * P
           Pb == P * b
<1>1. dP \in Int /\ d \in Int /\ d * P = P * d
  OBVIOUS
<1>2. q \in Int /\ 2 * (255 * q) - 255 <= 2 * dP /\ 2 * dP < 2 * (255 * q) + 255
  BY <1>1, Nearest
<1> HIDE DEF q
<1>3. b \in Int /\ 2 * Pb - P <= 2 * (q * 255) /\ 2 * (q * 255) < 2 * Pb + P
  BY <1>2, Nearest
<1>4. Pb \in Int /\ b * P = Pb
  BY <1>3
<1> HIDE DEF dP
<1>5. CASE P > 254
  <2>1. 2 * dP - P <= 2 * (q * 255) /\ 2 * (q * 255) < 2 * dP + P
    BY <1>1, <1>2, <1>5
  <2>2. P * d = dP
    BY <1>1 DEF dP
  <2>3. b = d
    BY <1>1, <1>2, <2>1, <2>2, NearestIs
  <2> QED BY <2>3 DEF q
<1>6. CASE P <= 254
  <2> HIDE DEF b, Pb
  <2>1. 2 * (255 * q) - 255 <= 2 * Pb /\ 2 * Pb < 2 * (255 * q) + 255
    BY <1>2, <1>3, <1>4, <1>6
  <2>2. Round(Pb, 255) = q
    BY <1>2, <1>4, <2>1, NearestIs
  <2> QED BY <1>4, <2>2 DEF b, q
<1> QED BY <1>5, <1>6

\* msi-ec: the centre of a mode's share of the duties falls into that share.
LEMMA MsiStable ==
    ASSUME Modes <= 128, NEW d \in 0 .. 255
    PROVE  MsiMode(MsiPwm(MsiMode(d))) = MsiMode(d)
<1> DEFINE q == MsiMode(d)
           b == MsiPwm(q)
           Mb == Modes * b
<1>1. q \in Int
  BY HalConstants, Quotient DEF MsiMode
<1> HIDE DEF q
<1>2. b \in Int /\ Modes * b <= q * 256 + 128 /\ q * 256 + 128 < Modes * b + Modes
  BY <1>1, HalConstants, Quotient DEF MsiPwm
<1> HIDE DEF b
<1>3. Mb \in Int /\ b * Modes = Mb
  BY <1>2, HalConstants
<1>4. Mb <= q * 256 + 128 /\ q * 256 + 128 < Mb + Modes
  BY <1>2
<1> HIDE DEF Mb
<1>5. 256 * q <= Mb /\ Mb < 256 * q + 256
  BY <1>1, <1>3, <1>4, HalConstants
<1>6. Mb \div 256 = q
  BY <1>1, <1>3, <1>5, QuotientIs
<1> QED BY <1>3, <1>6 DEF q, b, MsiMode

\* thinkpad: a level is read as the duty nearest to it.
LEMMA ThinkpadStable ==
    ASSUME NEW d \in 0 .. 255
    PROVE  ThinkpadLevel(ThinkpadPwm(ThinkpadLevel(d))) = ThinkpadLevel(d)
<1> DEFINE q == ThinkpadLevel(d)
           b == ThinkpadPwm(q)
<1>1. q \in Int
  BY Quotient DEF ThinkpadLevel
<1> HIDE DEF q
<1>2. b \in Int /\ 7 * b <= q * 255 + 3 /\ q * 255 + 3 < 7 * b + 7
  BY <1>1, Quotient DEF ThinkpadPwm
<1> HIDE DEF b
<1>3. 255 * q <= b * 7 + 127 /\ b * 7 + 127 < 255 * q + 255
  BY <1>1, <1>2
<1>4. (b * 7 + 127) \div 255 = q
  BY <1>1, <1>2, <1>3, QuotientIs
<1> QED BY <1>4 DEF b, q, ThinkpadLevel

\* legion, ideapad: a profile is read as the middle of its range.
LEMMA LegionStable ==
    ASSUME NEW d \in 0 .. 255
    PROVE  LegionProfile(LegionPwm(LegionProfile(d))) = LegionProfile(d)
BY DEF LegionProfile, LegionPwm, Firmware

\* nbfc: the register counts from MinSpeed, up or down.
LEMMA NbfcStable ==
    ASSUME NEW d \in 0 .. 255
    PROVE  NbfcRegister(NbfcPwm(NbfcRegister(d))) = NbfcRegister(d)
<1> DEFINE span == IF MaxSpeed > MinSpeed THEN MaxSpeed - MinSpeed ELSE MinSpeed - MaxSpeed
           sign == IF MaxSpeed > MinSpeed THEN 1 ELSE -1
<1>1. span \in Nat \ {0}
  BY HalConstants
<1>2. ASSUME NEW e \in Int PROVE NbfcRegister(e) = MinSpeed + sign * Round(e * span, 255)
  <2> DEFINE k == Round(e * span, 255)
             es == e * span
             n == MinSpeed * 255 + (MaxSpeed - MinSpeed) * e
  <2>1. es \in Int
    BY <1>1
  <2>2. n = MinSpeed * 255 + sign * es /\ n \in Int
    <3>1. CASE MaxSpeed > MinSpeed
      BY <3>1, HalConstants
    <3>2. CASE ~(MaxSpeed > MinSpeed)
      BY <3>2, HalConstants
    <3> QED BY <3>1, <3>2
  <2> HIDE DEF es, n
  <2>3. k \in Int /\ 2 * (255 * k) - 255 <= 2 * es /\ 2 * es < 2 * (255 * k) + 255
    BY <2>1, Nearest DEF es
  <2> HIDE DEF k
  <2>4. 2 * (255 * k) - 255 # 2 * es
    BY <2>1, <2>3
  <2>5. sign \in {1, -1}
    OBVIOUS
  <2> HIDE DEF sign
  <2>6. /\ 2 * (255 * (MinSpeed + sign * k)) - 255 <= 2 * n
        /\ 2 * n < 2 * (255 * (MinSpeed + sign * k)) + 255
    BY <2>1, <2>2, <2>3, <2>4, <2>5, HalConstants
  <2>7. MinSpeed + sign * k \in Int
    BY <2>3, <2>5, HalConstants
  <2>8. Round(n, 255) = MinSpeed + sign * k
    BY <2>2, <2>6, <2>7, NearestIs
  <2> QED BY <2>8 DEF n, k, NbfcRegister
<1>3. ASSUME NEW k \in Int, NEW x \in Int, x = MinSpeed + sign * k
      PROVE  NbfcPwm(x) = Round(k * 255, span)
  <2>1. CASE MaxSpeed > MinSpeed
    <3>1. x - MinSpeed = k /\ span = MaxSpeed - MinSpeed
      BY <1>3, <2>1, HalConstants
    <3> HIDE DEF span
    <3> QED BY <2>1, <3>1 DEF NbfcPwm
  <2>2. CASE ~(MaxSpeed > MinSpeed)
    <3>1. MinSpeed - x = k /\ span = MinSpeed - MaxSpeed
      BY <1>3, <2>2, HalConstants
    <3> HIDE DEF span
    <3> QED BY <2>2, <3>1 DEF NbfcPwm
  <2> QED BY <2>1, <2>2
<1> HIDE DEF span, sign
<1> DEFINE k == Round(d * span, 255)
<1>4. k \in Int
  BY <1>1, Nearest
<1>5. NbfcRegister(d) = MinSpeed + sign * k
  BY <1>2
<1>6. NbfcPwm(NbfcRegister(d)) = Round(k * 255, span)
  <2>1. NbfcRegister(d) \in Int
    BY <1>4, <1>5, HalConstants DEF sign
  <2> QED BY <1>3, <1>4, <1>5, <2>1
<1>7. Round(k * 255, span) \in Int
  BY <1>1, <1>4, Nearest
<1>8. NbfcRegister(Round(k * 255, span)) = MinSpeed + sign * Round(Round(k * 255, span) * span, 255)
  BY <1>2, <1>7
<1>9. Round(Round(k * 255, span) * span, 255) = k
  <2>1. span \in Nat \ {0} /\ d \in 0 .. 255
    BY <1>1
  <2>2. Returns(span, d)
    BY <2>1, RoundTrip
  <2> QED BY <2>2, Zenon DEF Returns
<1> QED BY <1>5, <1>6, <1>8, <1>9

\* The helper rounds the duty it is sent back to the percentage.
LEMMA HelperStable ==
    ASSUME NEW q \in Int
    PROVE  Percent(HelperPwm(q)) = q
<1> DEFINE b == HelperPwm(q)
<1>1. b \in Int /\ 100 * b <= q * 255 /\ q * 255 < 100 * b + 100
  BY Quotient DEF HelperPwm
<1> HIDE DEF b
<1>2. 2 * (255 * q) - 255 <= 2 * (b * 100) /\ 2 * (b * 100) < 2 * (255 * q) + 255
  BY <1>1
<1>3. Round(b * 100, 255) = q
  BY <1>1, <1>2, NearestIs
<1> QED BY <1>3 DEF Percent, b

\* Every backend that tells the duty tells one that it would set to the same level.
LEMMA ReadBackStable == ASSUME Modes <= 128 PROVE ReadBackIsStable
<1> SUFFICES ASSUME kind \in ReadsBack, NEW f \in Fan, NEW d \in 0 .. 255
             PROVE  /\ Quant(kind, f, ReadBack(kind, Quant(kind, f, d))) = Quant(kind, f, d)
                    /\ kind = "nvml" => Percent(HelperPwm(Quant(kind, f, d))) = Quant(kind, f, d)
  BY DEF ReadBackIsStable
<1>1. CASE kind = "thinkpad"
  BY <1>1, ThinkpadStable DEF Quant, ReadBack
<1>2. CASE kind \in {"legion", "lenovoideapad"}
  BY <1>2, LegionStable DEF Quant, ReadBack
<1>3. CASE kind = "msiec"
  BY <1>3, MsiStable DEF Quant, ReadBack
<1>4. CASE kind = "pwmsys"
  BY <1>4, HalConstants, RoundTrip DEF Quant, ReadBack, PwmsysDuty, PwmsysPwm, Returns
<1>5. CASE kind = "nbfc"
  BY <1>5, NbfcStable DEF Quant, ReadBack
<1>6. CASE kind = "nvml"
  <2>1. Percent(d) \in Int
    BY Nearest DEF Percent
  <2>2. Quant(kind, f, d) = Percent(d) /\ ReadBack(kind, Percent(d)) = Round(Percent(d) * 255, 100)
        /\ Quant(kind, f, Round(Percent(d) * 255, 100)) = Percent(Round(Percent(d) * 255, 100))
    BY <1>6 DEF Quant, ReadBack
  <2>3. Percent(Round(Percent(d) * 255, 100)) = Percent(d)
    <3>1. PICK P \in Nat \ {0} : P = 100
      OBVIOUS
    <3>2. Returns(P, d)
      BY <3>1, RoundTrip
    <3> QED BY <3>1, <3>2 DEF Percent, Returns
  <2> QED BY <2>1, <2>2, <2>3, HelperStable
<1> QED BY <1>1, <1>2, <1>3, <1>4, <1>5, <1>6 DEF ReadsBack

-----------------------------------------------------------------------------
(* The backends keep the contract of the HAL.                              *)

\* What fan f follows in state s of the device.
Obeys(s, f) == IF f \in s.auto THEN Firmware ELSE s.level[f]

\* The commands there are.
Whats == {"set", "duty", "take", "free", "enable", "disable", "exchange"}

\* The state of a device and what became of the commands so far; the register of a
\* fan that the firmware drives holds nothing, or what a call asked for (A).
IsDevice(s, A) ==
    /\ s = [auto |-> s.auto, level |-> s.level, enabled |-> s.enabled, ok |-> s.ok]
    /\ s.auto \subseteq Fan /\ s.enabled \subseteq Fan /\ s.ok \in BOOLEAN
    /\ s.level = [f \in Fan |-> s.level[f]]
    /\ \A f \in s.auto : s.level[f] \in {Frozen, Firmware} \cup A[f]

\* From s to t only the fans in F have moved, to the firmware or a duty asked for.
Moves(s, t, F, A) ==
    \A f \in Fan : /\ f \notin F => t.level[f] = s.level[f] /\ (f \in t.auto <=> f \in s.auto)
                   /\ Obeys(t, f) \in {Obeys(s, f), Firmware, Frozen} \cup A[f]

\* A command of a call that reaches F.
IsCommand(c, F, A) ==
    /\ c = [what |-> c.what, arg |-> c.arg, on |-> c.on, must |-> c.must, each |-> c.each]
    /\ c.what \in Whats /\ c.on \subseteq F /\ F \subseteq Fan
    /\ c.must \in BOOLEAN /\ c.each \in BOOLEAN
    /\ c.what \in {"set", "duty"} => \A f \in F : c.arg \in A[f]

\* What a command makes of the device, field by field.
LEMMA EffectIs ==
    ASSUME NEW s, NEW A, NEW c, NEW F, IsDevice(s, A), IsCommand(c, F, A)
    PROVE  LET Put(v) == [f \in Fan |-> IF f \in c.on THEN v ELSE s.level[f]]
               R(a, l, e) == [auto |-> a, level |-> l, enabled |-> e, ok |-> s.ok]
           IN  \/ /\ c.what \in {"free", "disable"} \/ (c.what = "set" /\ c.arg = Firmware)
                  /\ \E e \in SUBSET Fan : Effect(s, c) = R(s.auto \cup c.on, Put(Frozen), e)
               \/ /\ c.what = "set" /\ c.arg # Firmware
                  /\ Effect(s, c) = R(s.auto \ c.on, Put(c.arg), s.enabled)
               \/ /\ c.what = "duty"
                  /\ Effect(s, c) = R(s.auto, Put(c.arg), s.enabled)
               \/ /\ c.what = "take"
                  /\ Effect(s, c) = R(s.auto \ c.on, s.level, s.enabled)
               \/ /\ c.what \in {"enable", "exchange"}
                  /\ \E e \in SUBSET Fan : Effect(s, c) = R(s.auto, s.level, e)
<1> DEFINE Put(v) == [f \in Fan |-> IF f \in c.on THEN v ELSE s.level[f]]
           R(a, l, e) == [auto |-> a, level |-> l, enabled |-> e, ok |-> s.ok]
<1>1. s = R(s.auto, s.level, s.enabled) /\ s.enabled \subseteq Fan /\ c.on \subseteq Fan
  BY DEF IsDevice, IsCommand
<1>2. CASE c.what = "free" \/ (c.what = "set" /\ c.arg = Firmware)
  <2>1. Effect(s, c) = R(s.auto \cup c.on, Put(Frozen), s.enabled)
    BY <1>1, <1>2 DEF Effect
  <2> QED BY <2>1, <1>1, <1>2
<1>3. CASE c.what = "disable"
  <2>1. Effect(s, c) = R(s.auto \cup c.on, Put(Frozen), s.enabled \ c.on)
    BY <1>1, <1>3 DEF Effect
  <2> QED BY <2>1, <1>1, <1>3
<1>4. CASE c.what = "set" /\ c.arg # Firmware
  BY <1>1, <1>4 DEF Effect
<1>5. CASE c.what = "duty"
  BY <1>1, <1>5 DEF Effect
<1>6. CASE c.what = "take"
  BY <1>1, <1>6 DEF Effect
<1>7. CASE c.what = "enable"
  <2>1. Effect(s, c) = R(s.auto, s.level, s.enabled \cup c.on)
    BY <1>1, <1>7 DEF Effect
  <2> QED BY <2>1, <1>1, <1>7
<1>8. CASE c.what = "exchange"
  <2>1. Effect(s, c) = R(s.auto, s.level, s.enabled)
    BY <1>8, <1>1 DEF Effect
  <2> QED BY <2>1, <1>1, <1>8
<1> QED BY <1>2, <1>3, <1>4, <1>5, <1>6, <1>7, <1>8 DEF IsCommand, Whats

\* Fields that differ from those of s for the fans in F only, and there as they may.
Fits(s, a, l, e, F, A) ==
    /\ a \subseteq Fan /\ e \subseteq Fan /\ l = [f \in Fan |-> l[f]]
    /\ \A f \in Fan : /\ f \notin F => l[f] = s.level[f] /\ (f \in a <=> f \in s.auto)
                      /\ f \in F => l[f] \in {s.level[f], Frozen} \cup A[f]
                      /\ f \in F /\ (f \in s.auto \/ f \in a) => l[f] \in {Frozen, Firmware} \cup A[f]

\* The device t has the fields a, l and e, and otherwise those of s.
IsMade(s, t, a, l, e) == t = [auto |-> a, level |-> l, enabled |-> e, ok |-> s.ok]

\* A device with such fields is one, and its fans have moved as they may.
LEMMA FieldsMove ==
    ASSUME NEW s, NEW A, NEW F, IsDevice(s, A), NEW a, NEW l, NEW e,
           NEW t, IsMade(s, t, a, l, e),
           Fits(s, a, l, e, F, A)
    PROVE  IsDevice(t, A) /\ Moves(s, t, F, A) /\ t.auto = a /\ t.level = l /\ t.ok = s.ok
<1>1. t.auto = a /\ t.level = l /\ t.enabled = e /\ t.ok = s.ok
         /\ t = [auto |-> a, level |-> l, enabled |-> e, ok |-> s.ok]
  BY DEF IsMade
<1>2. \A f \in a : l[f] \in {Frozen, Firmware} \cup A[f]
  BY DEF IsDevice, Fits
<1>3. IsDevice(t, A)
  BY <1>1, <1>2 DEF IsDevice, Fits
<1>4. Moves(s, t, F, A)
  BY <1>1 DEF Moves, Obeys, IsDevice, Fits
<1> QED BY <1>1, <1>3, <1>4

\* What the command c makes of the fans it is for.
Serves(s, c, t) ==
    /\ \A f \in c.on :
          /\ c.what \in {"free", "disable"} => Obeys(t, f) = Firmware
          /\ c.what = "set" => Obeys(t, f) = c.arg
          /\ c.what = "duty" => t.level[f] = c.arg
          /\ c.what = "take" => f \notin t.auto
    /\ c.what = "duty" => t.auto = s.auto
    /\ c.what = "take" => t.level = s.level
    /\ c.what \in {"enable", "exchange"} => t.auto = s.auto /\ t.level = s.level

\* What a command does to the fans it is for, and to no other.
LEMMA EffectMoves ==
    ASSUME NEW s, NEW A, NEW c, NEW F, IsDevice(s, A), IsCommand(c, F, A)
    PROVE  /\ IsDevice(Effect(s, c), A) /\ Effect(s, c).ok = s.ok
           /\ Moves(s, Effect(s, c), F, A) /\ Serves(s, c, Effect(s, c))
<1> DEFINE Put(v) == [f \in Fan |-> IF f \in c.on THEN v ELSE s.level[f]]
           R(a, l, e) == [auto |-> a, level |-> l, enabled |-> e, ok |-> s.ok]
           t == Effect(s, c)
<1>2. /\ s.auto \in SUBSET Fan /\ s.enabled \in SUBSET Fan /\ s.ok \in BOOLEAN
      /\ s.level = [f \in Fan |-> s.level[f]] /\ c.on \subseteq Fan /\ c.on \subseteq F
      /\ \A f \in s.auto : s.level[f] \in {Frozen, Firmware} \cup A[f]
      /\ c.what \in {"set", "duty"} => \A f \in F : c.arg \in A[f]
  BY DEF IsDevice, IsCommand
<1>3. ASSUME NEW a, NEW l, NEW e, t = R(a, l, e), Fits(s, a, l, e, F, A)
      PROVE  IsDevice(t, A) /\ Moves(s, t, F, A) /\ t.auto = a /\ t.level = l /\ t.ok = s.ok
  <2>1. IsMade(s, t, a, l, e)
    BY <1>3 DEF IsMade
  <2> HIDE DEF t, R, Put
  <2> QED BY <2>1, <1>3, FieldsMove
<1>4. \A e \in SUBSET Fan :
         /\ Fits(s, s.auto \cup c.on, Put(Frozen), e, F, A)
         /\ Fits(s, s.auto, s.level, e, F, A) /\ Fits(s, s.auto \ c.on, s.level, e, F, A)
  BY <1>2 DEF Fits
<1>5. c.what \in {"set", "duty"}
      => /\ Fits(s, s.auto \ c.on, Put(c.arg), s.enabled, F, A)
         /\ Fits(s, s.auto, Put(c.arg), s.enabled, F, A)
  BY <1>2 DEF Fits
<1>6. \A f \in c.on : Put(c.arg)[f] = c.arg
  BY <1>2
<1>7. \/ /\ c.what \in {"free", "disable"} \/ (c.what = "set" /\ c.arg = Firmware)
         /\ \E e \in SUBSET Fan : t = R(s.auto \cup c.on, Put(Frozen), e)
      \/ c.what = "set" /\ c.arg # Firmware /\ t = R(s.auto \ c.on, Put(c.arg), s.enabled)
      \/ c.what = "duty" /\ t = R(s.auto, Put(c.arg), s.enabled)
      \/ c.what = "take" /\ t = R(s.auto \ c.on, s.level, s.enabled)
      \/ c.what \in {"enable", "exchange"} /\ \E e \in SUBSET Fan : t = R(s.auto, s.level, e)
  BY EffectIs
<1> HIDE DEF Put, R, t
<1>8. CASE /\ c.what \in {"free", "disable"} \/ (c.what = "set" /\ c.arg = Firmware)
           /\ \E e \in SUBSET Fan : t = R(s.auto \cup c.on, Put(Frozen), e)
  <2>1. /\ IsDevice(t, A) /\ Moves(s, t, F, A) /\ t.ok = s.ok /\ t.auto = s.auto \cup c.on
    BY <1>3, <1>4, <1>8
  <2>2. Serves(s, c, t)
    BY <2>1, <1>8 DEF Serves, Obeys
  <2> QED BY <2>1, <2>2 DEF t
<1>9. CASE c.what = "set" /\ c.arg # Firmware /\ t = R(s.auto \ c.on, Put(c.arg), s.enabled)
  <2>1. /\ IsDevice(t, A) /\ Moves(s, t, F, A) /\ t.ok = s.ok /\ t.auto = s.auto \ c.on
        /\ t.level = Put(c.arg)
    BY <1>2, <1>3, <1>5, <1>9
  <2>2. Serves(s, c, t)
    BY <2>1, <1>9, <1>6 DEF Serves, Obeys
  <2> QED BY <2>1, <2>2 DEF t
<1>10. CASE c.what = "duty" /\ t = R(s.auto, Put(c.arg), s.enabled)
  <2>1. /\ IsDevice(t, A) /\ Moves(s, t, F, A) /\ t.ok = s.ok /\ t.auto = s.auto
        /\ t.level = Put(c.arg)
    BY <1>2, <1>3, <1>5, <1>10
  <2>2. Serves(s, c, t)
    BY <2>1, <1>10, <1>6 DEF Serves
  <2> QED BY <2>1, <2>2 DEF t
<1>11. CASE c.what = "take" /\ t = R(s.auto \ c.on, s.level, s.enabled)
  <2>1. /\ IsDevice(t, A) /\ Moves(s, t, F, A) /\ t.ok = s.ok /\ t.auto = s.auto \ c.on
        /\ t.level = s.level
    BY <1>2, <1>3, <1>4, <1>11
  <2>2. Serves(s, c, t)
    BY <2>1, <1>11 DEF Serves
  <2> QED BY <2>1, <2>2 DEF t
<1>12. CASE c.what \in {"enable", "exchange"} /\ \E e \in SUBSET Fan : t = R(s.auto, s.level, e)
  <2>1. /\ IsDevice(t, A) /\ Moves(s, t, F, A) /\ t.ok = s.ok /\ t.auto = s.auto /\ t.level = s.level
    BY <1>3, <1>4, <1>12
  <2>2. Serves(s, c, t)
    BY <2>1, <1>12 DEF Serves
  <2> QED BY <2>1, <2>2 DEF t
<1> QED BY <1>7, <1>8, <1>9, <1>10, <1>11, <1>12

\* Two moves make one.
LEMMA MovesAdd ==
    ASSUME NEW s, NEW t, NEW u, NEW F, NEW A, Moves(s, t, F, A), Moves(t, u, F, A)
    PROVE  Moves(s, u, F, A)
  BY DEF Moves

\* What becomes of a command, whether it is carried out, in part or not at all.
LEMMA OutcomeMoves ==
    ASSUME NEW s, NEW A, NEW c, NEW F, IsDevice(s, A), IsCommand(c, F, A), NEW t \in Outcomes(s, c)
    PROVE  /\ IsDevice(t, A) /\ Moves(s, t, F, A) /\ (t.ok => s.ok)
           /\ t.ok /\ c.must => Serves(s, c, t)
           /\ c.what \in {"enable", "exchange", "duty"} => t.auto = s.auto
           /\ c.what \in {"enable", "exchange", "take"} => t.level = s.level
<1>1. CASE ~s.ok
  <2>1. t = s
    BY <1>1 DEF Outcomes
  <2> QED BY <2>1, <1>1 DEF Moves
<1>2. CASE t = Effect(s, c) /\ s.ok
  BY <1>2, EffectMoves DEF Serves
<1>3. ASSUME NEW G \in Before(c), s.ok,
             t = [Effect(s, [c EXCEPT !.on = G]) EXCEPT !.ok = ~c.must]
      PROVE  /\ IsDevice(t, A) /\ Moves(s, t, F, A) /\ (t.ok => ~c.must)
             /\ c.what \in {"enable", "exchange", "duty"} => t.auto = s.auto
             /\ c.what \in {"enable", "exchange", "take"} => t.level = s.level
  <2> DEFINE d == [c EXCEPT !.on = G]
             u == Effect(s, d)
  <2>1. G \subseteq c.on
    BY <1>3 DEF Before
  <2>2. d = [what |-> c.what, arg |-> c.arg, on |-> G, must |-> c.must, each |-> c.each]
    BY DEF IsCommand
  <2>3. d.what = c.what /\ d.arg = c.arg /\ d.on = G /\ d.must = c.must /\ d.each = c.each
    BY <2>2
  <2> HIDE DEF d
  <2>4. IsCommand(d, F, A)
    BY <2>1, <2>2, <2>3 DEF IsCommand
  <2>5. IsDevice(u, A) /\ Moves(s, u, F, A) /\ Serves(s, d, u)
    BY <2>4, EffectMoves
  <2>6. t = [u EXCEPT !.ok = ~c.must]
    BY <1>3 DEF d
  <2> HIDE DEF u
  <2>7. t = [auto |-> u.auto, level |-> u.level, enabled |-> u.enabled, ok |-> ~c.must]
    BY <2>5, <2>6 DEF IsDevice
  <2>8. /\ t.auto = u.auto /\ t.level = u.level /\ t.enabled = u.enabled /\ (t.ok <=> ~c.must)
        /\ t.ok \in BOOLEAN
    BY <2>7
  <2>9. IsDevice(t, A)
    BY <2>5, <2>7, <2>8 DEF IsDevice
  <2>10. Moves(s, t, F, A)
    BY <2>5, <2>8 DEF Moves, Obeys
  <2> QED BY <2>3, <2>5, <2>8, <2>9, <2>10 DEF Serves
<1>4. \/ ~s.ok
      \/ s.ok /\ t = Effect(s, c)
      \/ s.ok /\ \E G \in Before(c) : t = [Effect(s, [c EXCEPT !.on = G]) EXCEPT !.ok = ~c.must]
  BY DEF Outcomes
<1> QED BY <1>1, <1>2, <1>3, <1>4

\* The state a way starts from.
Fresh(s) == [s EXCEPT !.ok = TRUE]

\* It is the same to the fans.
LEMMA FreshIs ==
    ASSUME NEW s, NEW A, IsDevice(s, A)
    PROVE  /\ IsDevice(Fresh(s), A) /\ Fresh(s).auto = s.auto /\ Fresh(s).level = s.level
           /\ \A F : Moves(s, Fresh(s), F, A)
<1>1. Fresh(s) = [auto |-> s.auto, level |-> s.level, enabled |-> s.enabled, ok |-> TRUE]
  <2>1. s = [auto |-> s.auto, level |-> s.level, enabled |-> s.enabled, ok |-> s.ok]
    BY DEF IsDevice
  <2>2. ASSUME NEW b PROVE [s EXCEPT !.ok = b] = [auto |-> s.auto, level |-> s.level, enabled |-> s.enabled, ok |-> b]
    BY <2>1
  <2> QED BY <2>2, Zenon DEF Fresh
<1>2. Fresh(s).auto = s.auto /\ Fresh(s).level = s.level /\ Fresh(s).enabled = s.enabled
      /\ Fresh(s).ok
  BY <1>1
<1>3. IsDevice(Fresh(s), A)
  BY <1>1, <1>2 DEF IsDevice
<1> QED BY <1>2, <1>3 DEF Moves, Obeys

\* A script of one command, of two and of four, with what it passes through.
LEMMA RunOne ==
    ASSUME NEW s, NEW c
    PROVE  Run(s, <<c>>) = Outcomes(Fresh(s), c)
<1>1. Len(<<c>>) = 1 /\ <<c>>[1] = c
  OBVIOUS
<1>2. After({Fresh(s)}, <<c>>, 1) = Outcomes(Fresh(s), c)
  BY <1>1 DEF After
<1>3. \A S : After(S, <<c>>, 2) = S /\ After(S, <<c>>, 3) = S /\ After(S, <<c>>, 4) = S
  BY <1>1 DEF After
<1> QED BY <1>2, <1>3 DEF Run, Fresh

LEMMA RunTwo ==
    ASSUME NEW s, NEW c, NEW d, NEW t \in Run(s, <<c, d>>)
    PROVE  \E u \in Outcomes(Fresh(s), c) : t \in Outcomes(u, d)
<1>1. Len(<<c, d>>) = 2 /\ <<c, d>>[1] = c /\ <<c, d>>[2] = d
  OBVIOUS
<1>2. After({Fresh(s)}, <<c, d>>, 1) = Outcomes(Fresh(s), c)
  BY <1>1 DEF After
<1>3. \A S : After(S, <<c, d>>, 2) = UNION {Outcomes(u, d) : u \in S}
  BY <1>1 DEF After
<1>4. \A S : After(S, <<c, d>>, 3) = S /\ After(S, <<c, d>>, 4) = S
  BY <1>1 DEF After
<1> QED BY <1>2, <1>3, <1>4 DEF Run, Fresh

LEMMA RunFour ==
    ASSUME NEW s, NEW c, NEW d, NEW e, NEW g, NEW t \in Run(s, <<c, d, e, g>>)
    PROVE  \E u \in Outcomes(Fresh(s), c) : \E v \in Outcomes(u, d) : \E w \in Outcomes(v, e) :
              t \in Outcomes(w, g)
<1> DEFINE q == <<c, d, e, g>>
<1>1. Len(q) = 4 /\ q[1] = c /\ q[2] = d /\ q[3] = e /\ q[4] = g
  OBVIOUS
<1> HIDE DEF q
<1>2. After({Fresh(s)}, q, 1) = Outcomes(Fresh(s), c)
  BY <1>1 DEF After
<1>3. /\ \A S : After(S, q, 2) = UNION {Outcomes(u, d) : u \in S}
      /\ \A S : After(S, q, 3) = UNION {Outcomes(u, e) : u \in S}
      /\ \A S : After(S, q, 4) = UNION {Outcomes(u, g) : u \in S}
  BY <1>1 DEF After
<1>4. t \in Run(s, q)
  BY DEF q
<1> QED BY <1>2, <1>3, <1>4 DEF Run, Fresh

\* A command for the fans of F that sets a duty sets one that was asked for.
IsMeant(what, arg, F, A) == F \subseteq Fan /\ (what \in {"set", "duty"} => \A f \in F : arg \in A[f])

\* A command that ends its script where it fails is one, ...
LEMMA DoIs ==
    ASSUME NEW what, what \in Whats, NEW arg, NEW F, NEW A, IsMeant(what, arg, F, A)
    PROVE  /\ IsCommand(Do(what, arg, F), F, A) /\ Do(what, arg, F).what = what
           /\ Do(what, arg, F).arg = arg /\ Do(what, arg, F).on = F /\ Do(what, arg, F).must
<1> DEFINE c == [what |-> what, arg |-> arg, on |-> F, must |-> TRUE, each |-> FALSE]
<1>1. Do(what, arg, F) = c
  BY DEF Do, Command
<1>2. c.what = what /\ c.arg = arg /\ c.on = F /\ (c.must <=> TRUE) /\ (c.each <=> FALSE)
  OBVIOUS
<1>3. c = [what |-> c.what, arg |-> c.arg, on |-> c.on, must |-> c.must, each |-> c.each]
  OBVIOUS
<1>4. c.must \in BOOLEAN /\ c.each \in BOOLEAN
  OBVIOUS
<1> HIDE DEF c
<1>5. IsCommand(c, F, A)
  BY <1>2, <1>3, <1>4 DEF IsCommand, IsMeant
<1> QED BY <1>1, <1>2, <1>5

\* ... or does not, ...
LEMMA TryIs ==
    ASSUME NEW what, what \in Whats, NEW arg, NEW F, NEW A, IsMeant(what, arg, F, A)
    PROVE  IsCommand(Try(what, arg, F), F, A) /\ Try(what, arg, F).what = what
<1> DEFINE c == [what |-> what, arg |-> arg, on |-> F, must |-> FALSE, each |-> FALSE]
<1>1. Try(what, arg, F) = c
  BY DEF Try, Command
<1>2. c.what = what /\ c.arg = arg /\ c.on = F /\ (c.must <=> FALSE) /\ (c.each <=> FALSE)
  OBVIOUS
<1>3. c = [what |-> c.what, arg |-> c.arg, on |-> c.on, must |-> c.must, each |-> c.each]
  OBVIOUS
<1>4. c.must \in BOOLEAN /\ c.each \in BOOLEAN
  OBVIOUS
<1> HIDE DEF c
<1>5. IsCommand(c, F, A)
  BY <1>2, <1>3, <1>4 DEF IsCommand, IsMeant
<1> QED BY <1>1, <1>2, <1>5

\* ... or is given to its fans one after the other.
LEMMA EachIs ==
    ASSUME NEW what, what \in Whats, NEW arg, NEW F, NEW A, IsMeant(what, arg, F, A)
    PROVE  /\ IsCommand(Each(what, arg, F), F, A) /\ Each(what, arg, F).what = what
           /\ Each(what, arg, F).arg = arg /\ Each(what, arg, F).on = F /\ Each(what, arg, F).must
<1> DEFINE c == [what |-> what, arg |-> arg, on |-> F, must |-> TRUE, each |-> TRUE]
<1>1. Each(what, arg, F) = c
  BY DEF Each, Command
<1>2. c.what = what /\ c.arg = arg /\ c.on = F /\ (c.must <=> TRUE) /\ (c.each <=> TRUE)
  OBVIOUS
<1>3. c = [what |-> c.what, arg |-> c.arg, on |-> c.on, must |-> c.must, each |-> c.each]
  OBVIOUS
<1>4. c.must \in BOOLEAN /\ c.each \in BOOLEAN
  OBVIOUS
<1> HIDE DEF c
<1>5. IsCommand(c, F, A)
  BY <1>2, <1>3, <1>4 DEF IsCommand, IsMeant
<1> QED BY <1>1, <1>2, <1>5

\* A command that, carried out, has fan f follow v; and one that moves no fan.
Gives(c, f, v) ==
    /\ c.must /\ f \in c.on
    /\ (c.what = "set" /\ v = c.arg) \/ (c.what \in {"free", "disable"} /\ v = Firmware)
Idle(c) == c.what \in {"exchange", "enable"}

\* What a script of one command makes of the fans.
LEMMA OneMoves ==
    ASSUME NEW s, NEW A, NEW F, NEW c, IsDevice(s, A), IsCommand(c, F, A), NEW t \in Run(s, <<c>>)
    PROVE  /\ IsDevice(t, A) /\ Moves(s, t, F, A)
           /\ t.ok => \A f, v : Gives(c, f, v) => Obeys(t, f) = v
           /\ c.what = "duty" => t.auto = s.auto
           /\ t.ok /\ c.must /\ c.what = "duty" => \A f \in c.on : t.level[f] = c.arg
<1>1. t \in Outcomes(Fresh(s), c)
  BY RunOne
<1>2. IsDevice(Fresh(s), A) /\ Moves(s, Fresh(s), F, A) /\ Fresh(s).auto = s.auto
  BY FreshIs
<1>3. /\ IsDevice(t, A) /\ Moves(Fresh(s), t, F, A) /\ (t.ok /\ c.must => Serves(Fresh(s), c, t))
      /\ c.what \in {"enable", "exchange", "duty"} => t.auto = Fresh(s).auto
  BY <1>1, <1>2, OutcomeMoves
<1>4. Moves(s, t, F, A)
  BY <1>2, <1>3, MovesAdd
<1> QED BY <1>2, <1>3, <1>4 DEF Serves, Gives

\* What a script of two makes of them.
LEMMA TwoMove ==
    ASSUME NEW s, NEW A, NEW F, NEW c, NEW d, IsDevice(s, A), IsCommand(c, F, A), IsCommand(d, F, A),
           NEW t \in Run(s, <<c, d>>)
    PROVE  /\ IsDevice(t, A) /\ Moves(s, t, F, A)
           /\ t.ok => \A f, v : Gives(d, f, v) \/ (Gives(c, f, v) /\ Idle(d)) => Obeys(t, f) = v
           /\ t.ok /\ c.must /\ d.must /\ c.what = "duty" /\ d.what = "take"
              => \A f \in c.on \cap d.on : f \notin t.auto /\ t.level[f] = c.arg
           /\ t.ok /\ c.must /\ d.must /\ c.what = "take" /\ d.what = "duty"
              => \A f \in c.on \cap d.on : f \notin t.auto /\ t.level[f] = d.arg
<1>1. PICK u \in Outcomes(Fresh(s), c) : t \in Outcomes(u, d)
  BY RunTwo
<1>2. IsDevice(Fresh(s), A) /\ Moves(s, Fresh(s), F, A)
  BY FreshIs
<1>3. IsDevice(u, A) /\ Moves(Fresh(s), u, F, A) /\ (u.ok /\ c.must => Serves(Fresh(s), c, u))
  BY <1>1, <1>2, OutcomeMoves
<1>4. /\ IsDevice(t, A) /\ Moves(u, t, F, A) /\ (t.ok => u.ok) /\ (t.ok /\ d.must => Serves(u, d, t))
      /\ d.what \in {"enable", "exchange", "duty"} => t.auto = u.auto
      /\ d.what \in {"enable", "exchange", "take"} => t.level = u.level
  BY <1>1, <1>3, OutcomeMoves
<1>5. Moves(s, t, F, A)
  BY <1>2, <1>3, <1>4, MovesAdd
<1>6. ASSUME t.ok, NEW f, NEW v, Gives(d, f, v) \/ (Gives(c, f, v) /\ Idle(d))
      PROVE  Obeys(t, f) = v
  <2>1. CASE Gives(d, f, v)
    BY <2>1, <1>4, <1>6 DEF Gives, Serves
  <2>2. CASE Gives(c, f, v) /\ Idle(d)
    <3>1. Obeys(u, f) = v
      BY <2>2, <1>3, <1>4, <1>6 DEF Gives, Serves
    <3>2. t.auto = u.auto /\ t.level = u.level
      BY <2>2, <1>4 DEF Idle
    <3> QED BY <3>1, <3>2 DEF Obeys
  <2> QED BY <1>6, <2>1, <2>2
<1> QED BY <1>3, <1>4, <1>5, <1>6 DEF Serves

\* What a script of four makes of them, of which only the third moves fans.
LEMMA FourMove ==
    ASSUME NEW s, NEW A, NEW F, NEW c, NEW d, NEW e, NEW g, IsDevice(s, A),
           IsCommand(c, F, A), IsCommand(d, F, A), IsCommand(e, F, A), IsCommand(g, F, A),
           Idle(g), NEW t \in Run(s, <<c, d, e, g>>)
    PROVE  /\ IsDevice(t, A) /\ Moves(s, t, F, A)
           /\ t.ok => \A f, v : Gives(e, f, v) => Obeys(t, f) = v
<1>1. PICK u, v, w : /\ u \in Outcomes(Fresh(s), c) /\ v \in Outcomes(u, d)
                     /\ w \in Outcomes(v, e) /\ t \in Outcomes(w, g)
  BY RunFour
<1>2. IsDevice(Fresh(s), A) /\ Moves(s, Fresh(s), F, A)
  BY FreshIs
<1>3. IsDevice(u, A) /\ Moves(Fresh(s), u, F, A)
  BY <1>1, <1>2, OutcomeMoves
<1>4. IsDevice(v, A) /\ Moves(u, v, F, A)
  BY <1>1, <1>3, OutcomeMoves
<1>5. IsDevice(w, A) /\ Moves(v, w, F, A) /\ (w.ok /\ e.must => Serves(v, e, w))
  BY <1>1, <1>4, OutcomeMoves
<1>6. IsDevice(t, A) /\ Moves(w, t, F, A) /\ (t.ok => w.ok) /\ t.auto = w.auto /\ t.level = w.level
  BY <1>1, <1>5, OutcomeMoves DEF Idle
<1>7. Moves(s, t, F, A)
  BY <1>2, <1>3, <1>4, <1>5, <1>6, MovesAdd
<1>8. ASSUME t.ok, NEW f, NEW x, Gives(e, f, x) PROVE Obeys(t, f) = x
  <2>1. Obeys(w, f) = x
    BY <1>5, <1>6, <1>8 DEF Gives, Serves
  <2> QED BY <2>1, <1>6 DEF Obeys
<1> QED BY <1>6, <1>7, <1>8

\* A call reaches the fan it is about.
LEMMA ChannelsReach ==
    ASSUME NEW f \in Channels
    PROVE  f \in Fan /\ f \in Reach(f) /\ Reach(f) \subseteq Fan
<1>1. (CHOOSE g \in Fan : TRUE) \in Fan
  BY HalAssumption
<1>2. f \in Fan
  BY <1>1 DEF Channels
<1> QED BY <1>2 DEF Reach

\* Every backend's Write: whatever fails, the fans it reaches move to the duty that was
\* asked for or to the firmware, or stay; and they follow the duty if it reports so.
LEMMA WriteServes ==
    ASSUME kind \in Kinds, NEW f \in Channels, NEW q, NEW A, \A g \in Reach(f) : q \in A[g],
           NEW s, IsDevice(s, A), kind = "pwmsys" /\ f \in acquired => f \notin s.auto,
           NEW t \in Run(s, WriteCommands(f, q))
    PROVE  /\ IsDevice(t, A) /\ Moves(s, t, Reach(f), A)
           /\ t.ok => \A g \in Reach(f) : Obeys(t, g) = q
           /\ kind = "pwmsys" /\ (t.ok \/ f \in acquired) => f \notin t.auto
<1> DEFINE F == Reach(f)
           set == Do("set", q, F)
           write == Do("duty", q, F)
           take == Do("take", Firmware, F)
           gate == Try("enable", Firmware, F)
           idle == Try("exchange", Firmware, F)
           each == Each("set", q, F)
<1>1. f \in F /\ F \subseteq Fan /\ \A g \in F : q \in A[g]
  BY ChannelsReach
<1> HIDE DEF F
<1>2. /\ "set" \in Whats /\ "duty" \in Whats /\ IsMeant("set", q, F, A) /\ IsMeant("duty", q, F, A)
      /\ \A what \in {"take", "enable", "exchange"} : what \in Whats /\ IsMeant(what, Firmware, F, A)
  BY <1>1 DEF Whats, IsMeant
<1>a. /\ "take" \in Whats /\ "enable" \in Whats /\ "exchange" \in Whats
      /\ IsMeant("take", Firmware, F, A) /\ IsMeant("enable", Firmware, F, A)
      /\ IsMeant("exchange", Firmware, F, A)
  BY <1>2
<1>3. \A c \in {set, each} : IsCommand(c, F, A) /\ \A g \in F : Gives(c, g, q)
  <2>1. IsCommand(set, F, A) /\ set.what = "set" /\ set.arg = q /\ set.on = F /\ set.must
    BY <1>2, DoIs
  <2>2. IsCommand(each, F, A) /\ each.what = "set" /\ each.arg = q /\ each.on = F /\ each.must
    BY <1>2, EachIs
  <2> HIDE DEF set, each
  <2> QED BY <2>1, <2>2 DEF Gives
<1>4. IsCommand(write, F, A) /\ write.what = "duty" /\ write.arg = q /\ write.on = F /\ write.must
  BY <1>2, DoIs
<1>5. IsCommand(take, F, A) /\ take.what = "take" /\ take.on = F /\ take.must
  BY <1>a, DoIs
<1>6. IsCommand(gate, F, A) /\ IsCommand(idle, F, A) /\ Idle(idle) /\ IsCommand(Exchange(F), F, A)
  <2>1. IsCommand(gate, F, A) /\ IsCommand(idle, F, A) /\ idle.what = "exchange"
    BY <1>a, TryIs
  <2>2. IsCommand(Exchange(F), F, A)
    BY <1>a, DoIs DEF Exchange
  <2> QED BY <2>1, <2>2 DEF Idle
<1> HIDE DEF set, write, take, gate, idle, each
<1>7. ASSUME NEW c \in {set, each}, t \in Run(s, <<c>>)
      PROVE  IsDevice(t, A) /\ Moves(s, t, F, A) /\ (t.ok => \A g \in F : Obeys(t, g) = q)
  BY <1>3, <1>7, OneMoves
<1>8. ASSUME NEW c, NEW d \in {set, each}, IsCommand(c, F, A), t \in Run(s, <<c, d>>)
      PROVE  IsDevice(t, A) /\ Moves(s, t, F, A) /\ (t.ok => \A g \in F : Obeys(t, g) = q)
  BY <1>3, <1>8, TwoMove
<1>9. CASE kind \in {"lenovoideapad", "msiec", "crosec", "nbfc", "ipmi"}
  <2>1. WriteCommands(f, q) = <<set>> /\ kind # "pwmsys"
    BY <1>9 DEF F, set, Reach, WriteCommands, IdeapadWrite, MsiWrite, CrosecWrite, NbfcWrite, IpmiWrite
  <2>2. t \in Run(s, <<set>>)
    BY <2>1
  <2> QED BY <1>7, <2>1, <2>2 DEF F
<1>10. CASE kind = "nvml"
  <2>1. WriteCommands(f, q) = <<Exchange(F), each>> /\ kind # "pwmsys"
    BY <1>10 DEF F, each, WriteCommands, NvmlWrite, Reach
  <2>2. t \in Run(s, <<Exchange(F), each>>)
    BY <2>1
  <2> QED BY <1>6, <1>8, <2>1, <2>2 DEF F
<1>11. CASE kind = "legion"
  <2>1. WriteCommands(f, q) = <<set, idle>> /\ kind # "pwmsys"
    BY <1>11 DEF F, set, idle, WriteCommands, LegionWrite, Reach
  <2>2. t \in Run(s, <<set, idle>>)
    BY <2>1
  <2>3. IsDevice(t, A) /\ Moves(s, t, F, A) /\ (t.ok => \A g \in F : Obeys(t, g) = q)
    BY <1>3, <1>6, <2>2, TwoMove
  <2> QED BY <2>1, <2>3 DEF F
<1>12. CASE kind = "thinkpad"
  <2>1. F = {f} /\ kind # "pwmsys"
    BY <1>12 DEF F, Reach
  <2>2. WriteCommands(f, q) = ThinkpadWrite(f, q)
    BY <1>12 DEF WriteCommands
  <2>3. CASE f \in acquired
    <3>1. t \in Run(s, <<set>>)
      BY <2>1, <2>2, <2>3 DEF ThinkpadWrite, set
    <3> QED BY <1>7, <2>1, <3>1 DEF F
  <2>4. CASE f \notin acquired
    <3>1. t \in Run(s, <<gate, set>>)
      BY <2>1, <2>2, <2>4 DEF ThinkpadWrite, set, gate
    <3> QED BY <1>6, <1>8, <2>1, <3>1 DEF F
  <2> QED BY <2>3, <2>4
<1>13. CASE kind = "amdgpu"
  <2>1. WriteCommands(f, q) = <<take, write>> /\ kind # "pwmsys"
    BY <1>13 DEF F, take, write, WriteCommands, AmdgpuWrite, Reach
  <2>2. t \in Run(s, <<take, write>>)
    BY <2>1
  <2>3. /\ IsDevice(t, A) /\ Moves(s, t, F, A)
        /\ t.ok => \A g \in F : g \notin t.auto /\ t.level[g] = q
    BY <1>4, <1>5, <2>2, TwoMove
  <2> QED BY <2>1, <2>3 DEF Obeys, F
<1>14. CASE kind = "pwmsys"
  <2>1. F = {f}
    BY <1>14 DEF F, Reach
  <2>2. WriteCommands(f, q) = PwmsysWrite(f, q)
    BY <1>14 DEF WriteCommands
  <2>3. CASE f \in acquired
    <3>1. t \in Run(s, <<write>>)
      BY <2>1, <2>2, <2>3 DEF PwmsysWrite, write
    <3>2. /\ IsDevice(t, A) /\ Moves(s, t, F, A) /\ t.auto = s.auto
          /\ t.ok => t.level[f] = q
      BY <1>1, <1>4, <3>1, OneMoves
    <3>3. f \notin t.auto
      BY <1>14, <2>3, <3>2
    <3> QED BY <2>1, <3>2, <3>3 DEF F, Obeys
  <2>4. CASE f \notin acquired
    <3>1. t \in Run(s, <<write, take>>)
      BY <2>1, <2>2, <2>4 DEF PwmsysWrite, write, take
    <3>2. /\ IsDevice(t, A) /\ Moves(s, t, F, A)
          /\ t.ok => f \notin t.auto /\ t.level[f] = q
      BY <1>1, <1>4, <1>5, <3>1, TwoMove
    <3> QED BY <2>1, <2>4, <3>2 DEF F, Obeys
  <2> QED BY <2>3, <2>4
<1>15. CASE kind = "corsair"
  <2>1. WriteCommands(f, q) = <<Exchange(F), Exchange(F), set, idle>> /\ kind # "pwmsys"
    BY <1>15 DEF F, set, idle, WriteCommands, CorsairWrite, Reach
  <2>2. t \in Run(s, <<Exchange(F), Exchange(F), set, idle>>)
    BY <2>1
  <2>3. IsDevice(t, A) /\ Moves(s, t, F, A) /\ (t.ok => \A g \in F : Obeys(t, g) = q)
    BY <1>3, <1>6, <2>2, FourMove
  <2> QED BY <2>1, <2>3 DEF F
<1>16. kind \in {"thinkpad", "legion", "lenovoideapad", "msiec", "pwmsys", "crosec",
                  "amdgpu", "nvml", "nbfc", "ipmi", "corsair"}
  BY HalAssumption
<1> QED BY <1>9, <1>10, <1>11, <1>12, <1>13, <1>14, <1>15, <1>16

\* Every backend's Restore: whatever fails, the fans it reaches move to the firmware, or
\* stay, or are frozen; and they follow the firmware if it reports so.
LEMMA RestoreServes ==
    ASSUME kind \in Kinds, NEW f \in Channels, NEW A, NEW s, IsDevice(s, A),
           NEW t \in RunWays(s, RestoreWays(f))
    PROVE  /\ IsDevice(t, A) /\ Moves(s, t, Reach(f), A)
           /\ t.ok => \A g \in Reach(f) : Obeys(t, g) = Firmware
<1> DEFINE F == Reach(f)
           free == Do("free", Firmware, F)
           disable == Do("disable", Firmware, F)
           idle == Try("exchange", Firmware, F)
           each == Each("free", Firmware, F)
           Good(r, u) == /\ IsDevice(u, A) /\ Moves(r, u, F, A)
                         /\ u.ok => \A g \in F : Obeys(u, g) = Firmware
<1>1. f \in F /\ F \subseteq Fan
  BY ChannelsReach
<1> HIDE DEF F
<1>2. /\ "free" \in Whats /\ "disable" \in Whats /\ "exchange" \in Whats
      /\ IsMeant("free", Firmware, F, A) /\ IsMeant("disable", Firmware, F, A)
      /\ IsMeant("exchange", Firmware, F, A)
  BY <1>1 DEF Whats, IsMeant
<1>3. \A c \in {free, disable, each} : IsCommand(c, F, A) /\ \A g \in F : Gives(c, g, Firmware)
  <2>1. IsCommand(free, F, A) /\ free.what = "free" /\ free.on = F /\ free.must
    BY <1>2, DoIs
  <2>2. IsCommand(each, F, A) /\ each.what = "free" /\ each.on = F /\ each.must
    BY <1>2, EachIs
  <2>3. IsCommand(disable, F, A) /\ disable.what = "disable" /\ disable.on = F /\ disable.must
    BY <1>2, DoIs
  <2> HIDE DEF free, each, disable
  <2> QED BY <2>1, <2>2, <2>3 DEF Gives
<1>4. IsCommand(idle, F, A) /\ Idle(idle) /\ IsCommand(Exchange(F), F, A) /\ Idle(Exchange(F))
  <2>1. IsCommand(idle, F, A) /\ idle.what = "exchange"
    BY <1>2, TryIs
  <2>2. IsCommand(Exchange(F), F, A) /\ Exchange(F).what = "exchange"
    BY <1>2, DoIs DEF Exchange
  <2> QED BY <2>1, <2>2 DEF Idle
<1> HIDE DEF free, disable, idle, each
<1>5. ASSUME NEW w, t \in RunWays(s, <<w>>)
      PROVE  t \in Run(s, w)
  BY <1>5 DEF RunWays
<1>6. ASSUME NEW r, NEW u, NEW c \in {free, disable}, IsDevice(r, A), u \in Run(r, <<c>>)
      PROVE  Good(r, u)
  BY <1>3, <1>6, OneMoves
<1>7. CASE kind \in {"lenovoideapad", "msiec", "pwmsys", "crosec", "amdgpu", "ipmi"}
  <2>1. RestoreWays(f) = << <<free>> >>
    BY <1>7 DEF F, free, Reach, RestoreWays, IdeapadRestore, MsiRestore, PwmsysRestore, CrosecRestore,
                AmdgpuRestore, IpmiRestore
  <2>2. t \in Run(s, <<free>>)
    BY <2>1, <1>5
  <2> QED BY <1>6, <2>2 DEF F
<1>8. CASE kind \in {"legion", "nbfc"}
  <2>1. PICK d \in {idle, Exchange(F)} : RestoreWays(f) = << <<free, d>> >>
    BY <1>8 DEF F, free, idle, Reach, RestoreWays, LegionRestore, NbfcRestore
  <2>2. t \in Run(s, <<free, d>>)
    BY <2>1, <1>5
  <2>3. Good(s, t)
    BY <1>3, <1>4, <2>2, TwoMove
  <2> QED BY <2>3 DEF F
<1>9. CASE kind = "nvml"
  <2>1. RestoreWays(f) = << <<Exchange(F), each>> >>
    BY <1>9 DEF F, each, Reach, RestoreWays, NvmlRestore
  <2>2. t \in Run(s, <<Exchange(F), each>>)
    BY <2>1, <1>5
  <2>3. Good(s, t)
    BY <1>3, <1>4, <2>2, TwoMove
  <2> QED BY <2>3 DEF F
<1>10. CASE kind = "corsair"
  <2>1. RestoreWays(f) = << <<Exchange(F), Exchange(F), free, idle>> >>
    BY <1>10 DEF F, free, idle, Reach, RestoreWays, CorsairRestore
  <2>2. t \in Run(s, <<Exchange(F), Exchange(F), free, idle>>)
    BY <2>1, <1>5
  <2>3. Good(s, t)
    BY <1>3, <1>4, <2>2, FourMove
  <2> QED BY <2>3 DEF F
<1>11. CASE kind = "thinkpad"
  <2>1. RestoreWays(f) = << <<free>>, <<disable>> >>
    BY <1>11 DEF F, free, disable, Reach, RestoreWays, ThinkpadRestore
  <2>2. PICK u \in Run(s, <<free>>) : t = u \/ t \in Run(u, <<disable>>)
    <3> DEFINE ways == << <<free>>, <<disable>> >>
    <3>1. Len(ways) = 2 /\ ways[1] = <<free>> /\ ways[2] = <<disable>>
      OBVIOUS
    <3> HIDE DEF ways
    <3>2. t \in RunWays(s, ways)
      BY <2>1 DEF ways
    <3> QED BY <3>1, <3>2 DEF RunWays
  <2>3. Good(s, u)
    BY <1>6, <2>2
  <2>4. CASE t = u
    BY <2>3, <2>4 DEF F
  <2>5. CASE t \in Run(u, <<disable>>)
    <3>1. Good(u, t)
      BY <1>6, <2>3, <2>5
    <3>2. Moves(s, t, F, A)
      BY <2>3, <3>1, MovesAdd
    <3> QED BY <3>1, <3>2 DEF F
  <2> QED BY <2>2, <2>4, <2>5
<1>12. kind \in {"thinkpad", "legion", "lenovoideapad", "msiec", "pwmsys", "crosec",
                  "amdgpu", "nvml", "nbfc", "ipmi", "corsair"}
  BY HalAssumption
<1> QED BY <1>7, <1>8, <1>9, <1>10, <1>11, <1>12

\* A fan that pwmsys has enabled and remembers is not the firmware's; the register of a
\* fan that the firmware drives holds nothing, or a duty some call has asked for.
DeviceInv ==
    /\ level = [f \in Fan |-> level[f]] /\ asked = [f \in Fan |-> asked[f]]
    /\ \A f \in auto : level[f] \in {Frozen, Firmware} \cup asked[f]
    /\ kind = "pwmsys" => acquired \cap auto = {}
HalInv == HalTypeOK /\ DeviceInv

\* The device as the calls find it.
LEMMA NowIs ==
    ASSUME HalInv
    PROVE  /\ Now.auto = auto /\ Now.level = level /\ Now.enabled = enabled
           /\ \A A : (\A f \in Fan : asked[f] \subseteq A[f]) => IsDevice(Now, A)
           /\ \A f \in Fan : follows[f] = Obeys(Now, f)
<1>1. /\ Now.auto = auto /\ Now.level = level /\ Now.enabled = enabled /\ Now.ok \in BOOLEAN
      /\ Now = [auto |-> Now.auto, level |-> Now.level, enabled |-> Now.enabled, ok |-> Now.ok]
  <2>1. TRUE \in BOOLEAN
    OBVIOUS
  <2>2. ASSUME NEW b \in BOOLEAN, NEW s, s = [auto |-> auto, level |-> level, enabled |-> enabled, ok |-> b]
        PROVE  /\ s.auto = auto /\ s.level = level /\ s.enabled = enabled /\ s.ok \in BOOLEAN
               /\ s = [auto |-> s.auto, level |-> s.level, enabled |-> s.enabled, ok |-> s.ok]
    BY <2>2
  <2> QED BY <2>1, <2>2, Zenon DEF Now
<1>2. ASSUME NEW A, \A f \in Fan : asked[f] \subseteq A[f] PROVE IsDevice(Now, A)
  <2>1. /\ auto \subseteq Fan /\ enabled \subseteq Fan /\ level = [f \in Fan |-> level[f]]
        /\ \A f \in auto : level[f] \in {Frozen, Firmware} \cup A[f]
    BY <1>2 DEF HalInv, HalTypeOK, DeviceInv
  <2> QED BY <1>1, <2>1 DEF IsDevice
<1>3. \A f \in Fan : follows[f] = Obeys(Now, f)
  BY <1>1 DEF follows, Obeys
<1> QED BY <1>1, <1>2, <1>3

\* A call that leaves the device as s: the fans follow what they follow there, which is
\* what they followed, the firmware, what it left, or a duty asked for.
LEMMA CallMoves ==
    ASSUME HalInv, NEW f \in Channels, NEW s, Becomes(s), IsDevice(s, asked'),
           Moves(Now, s, Reach(f), asked')
    PROVE  /\ auto' \subseteq Fan /\ enabled' \subseteq Fan /\ level' = [g \in Fan |-> level'[g]]
           /\ \A g \in auto' : level'[g] \in {Frozen, Firmware} \cup asked'[g]
           /\ auto' \ Reach(f) = auto \ Reach(f)
           /\ follows' = [g \in Fan |-> Obeys(s, g)]
           /\ \A g \in Fan : /\ g \notin Reach(f) => follows'[g] = follows[g]
                             /\ follows'[g] \in {follows[g], Firmware, Frozen} \cup asked'[g]
<1>1. auto' = s.auto /\ level' = s.level /\ enabled' = s.enabled
  BY DEF Becomes
<1>2. /\ Now.auto = auto /\ Now.level = level
      /\ \A g \in Fan : follows[g] = Obeys(Now, g)
  BY NowIs
<1>3. /\ auto' \subseteq Fan /\ enabled' \subseteq Fan /\ level' = [g \in Fan |-> level'[g]]
      /\ \A g \in auto' : level'[g] \in {Frozen, Firmware} \cup asked'[g]
  BY <1>1 DEF IsDevice
<1>4. follows' = [g \in Fan |-> Obeys(s, g)]
  BY <1>1 DEF follows, Obeys
<1>5. \A g \in Fan : follows'[g] = Obeys(s, g)
  BY <1>4
<1>6. ASSUME NEW g \in Fan, g \notin Reach(f) PROVE follows'[g] = follows[g]
  BY <1>1, <1>2, <1>5, <1>6 DEF Moves, Obeys
<1>7. auto \subseteq Fan
  BY DEF HalInv, HalTypeOK
<1>8. auto' \ Reach(f) = auto \ Reach(f)
  BY <1>1, <1>2, <1>3, <1>7 DEF Moves
<1> QED BY <1>2, <1>3, <1>4, <1>5, <1>6, <1>8 DEF Moves

\* A Write is one of the contract, or one that failed.
LEMMA WriteKeeps ==
    ASSUME HalInv, NEW f \in Channels, NEW d \in Duties, HalWrite(f, d)
    PROVE  HalInv' /\ (Contract!Written \/ Contract!Failed)
<1> DEFINE q == Quant(kind, f, d)
           Bursts(t) == kind = "crosec" /\ ~t.ok /\ failures + 1 >= Burst
<1>1. PICK t \in Run(Now, WriteCommands(f, q)) :
         /\ \E s \in IF Bursts(t) THEN RunWays(t, RestoreWays(f)) ELSE {t} : Becomes(s)
         /\ failures' = IF kind # "crosec" \/ t.ok \/ Bursts(t) THEN 0 ELSE failures + 1
         /\ acquired' = Remembered(f, t.ok)
         /\ asked' = [g \in Fan |-> IF g \in Reach(f) THEN asked[g] \cup {q} ELSE asked[g]]
         /\ Says("write", f, t.ok)
         /\ UNCHANGED <<kind, old>>
  BY Zenon DEF HalWrite
<1>2. PICK s \in IF Bursts(t) THEN RunWays(t, RestoreWays(f)) ELSE {t} : Becomes(s)
  BY <1>1
<1>3. f \in Fan /\ f \in Reach(f) /\ Reach(f) \subseteq Fan
  BY ChannelsReach
<1>4. kind \in Kinds
  BY DEF HalInv, HalTypeOK
<1> HIDE DEF q
<1>5. /\ \A g \in Fan : asked[g] \subseteq asked'[g]
      /\ \A g \in Reach(f) : q \in asked'[g] /\ asked'[g] = asked[g] \cup {q}
      /\ \A g \in Fan \ Reach(f) : asked'[g] = asked[g]
      /\ asked' = [g \in Fan |-> asked'[g]]
  BY <1>1, <1>3
<1>6. IsDevice(Now, asked') /\ Now.auto = auto
  BY <1>5, NowIs
<1>7. kind = "pwmsys" /\ f \in acquired => f \notin auto
  BY DEF HalInv, DeviceInv
<1>8. /\ IsDevice(t, asked') /\ Moves(Now, t, Reach(f), asked')
      /\ t.ok => \A g \in Reach(f) : Obeys(t, g) = q
      /\ kind = "pwmsys" /\ (t.ok \/ f \in acquired) => f \notin t.auto
  BY <1>4, <1>5, <1>6, <1>7, WriteServes
<1>9. IsDevice(s, asked') /\ Moves(Now, s, Reach(f), asked')
  <2>1. CASE Bursts(t)
    <3>1. s \in RunWays(t, RestoreWays(f))
      BY <1>2, <2>1
    <3>2. IsDevice(s, asked') /\ Moves(t, s, Reach(f), asked')
      BY <1>4, <1>8, <3>1, RestoreServes
    <3> QED BY <1>8, <3>2, MovesAdd
  <2>2. CASE ~Bursts(t)
    BY <1>2, <1>8, <2>2
  <2> QED BY <2>1, <2>2
<1>10. t.ok \/ kind = "pwmsys" => s = t
  BY <1>2
<1>11. /\ auto' \subseteq Fan /\ enabled' \subseteq Fan /\ level' = [g \in Fan |-> level'[g]]
       /\ \A g \in auto' : level'[g] \in {Frozen, Firmware} \cup asked'[g]
       /\ auto' \ Reach(f) = auto \ Reach(f)
       /\ follows' = [g \in Fan |-> Obeys(s, g)]
       /\ \A g \in Fan : /\ g \notin Reach(f) => follows'[g] = follows[g]
                         /\ follows'[g] \in {follows[g], Firmware, Frozen} \cup asked'[g]
  BY <1>2, <1>9, CallMoves
<1>12. HalTypeOK'
  <2>1. acquired' \subseteq Fan
    BY <1>1, <1>3 DEF Remembered, HalInv, HalTypeOK
  <2>2. failures' \in 0 .. (Burst - 1)
    BY <1>1 DEF HalInv, HalTypeOK, Burst
  <2> QED BY <1>1, <1>11, <2>1, <2>2 DEF HalInv, HalTypeOK
<1>13. DeviceInv'
  <2>1. kind = "pwmsys" => acquired' \cap auto' = {}
    <3>1. ASSUME kind = "pwmsys" PROVE acquired' \cap auto' = {}
      <4>1. Reach(f) = {f} /\ auto' = t.auto
        BY <1>2, <1>10, <3>1 DEF Reach, Becomes
      <4>2. acquired' \ {f} = acquired \ {f} /\ (f \in acquired' => t.ok \/ f \in acquired)
        BY <1>1, <3>1 DEF Remembered
      <4>3. acquired \cap auto = {}
        BY <3>1 DEF HalInv, DeviceInv
      <4> QED BY <1>8, <1>11, <3>1, <4>1, <4>2, <4>3
    <3> QED BY <3>1
  <2> QED BY <1>1, <1>5, <1>11, <2>1 DEF DeviceInv
<1>14. said'.call = "write" /\ said'.of = Reach(f) /\ (said'.ok <=> t.ok)
  BY <1>1, <1>8 DEF Says, IsDevice
<1>15. ASSUME t.ok PROVE Contract!Written
  <2>1. follows' = [g \in Fan |-> IF g \in Reach(f) THEN q ELSE follows[g]]
    <3>1. \A g \in Fan : follows'[g] = IF g \in Reach(f) THEN q ELSE follows[g]
      BY <1>8, <1>10, <1>11, <1>15
    <3> QED BY <1>11, <3>1
  <2>2. q \in UNION {asked'[g] : g \in said'.of}
    BY <1>3, <1>5, <1>14
  <2> QED BY <1>1, <1>14, <1>15, <2>1, <2>2 DEF Contract!Written, Contract!Reached
<1>16. ASSUME ~t.ok PROVE Contract!Failed
  BY <1>5, <1>11, <1>14, <1>16 DEF Contract!Failed, Contract!Reached
<1> QED BY <1>12, <1>13, <1>15, <1>16 DEF HalInv

\* A Restore is one of the contract, or one that failed.
LEMMA RestoreKeeps ==
    ASSUME HalInv, NEW f \in Channels, HalRestore(f)
    PROVE  HalInv' /\ (Contract!Restored \/ Contract!Failed)
<1>1. PICK t \in RunWays(Now, RestoreWays(f)) :
         /\ Becomes(t)
         /\ acquired' = Forgotten(f, t.ok)
         /\ Says("restore", f, t.ok)
         /\ UNCHANGED <<kind, old, failures, asked>>
  BY DEF HalRestore
<1>2. f \in Fan /\ f \in Reach(f) /\ Reach(f) \subseteq Fan
  BY ChannelsReach
<1>3. kind \in Kinds /\ asked = [g \in Fan |-> asked[g]]
  BY DEF HalInv, HalTypeOK, DeviceInv
<1>4. IsDevice(Now, asked') /\ Now.auto = auto
  BY <1>1, NowIs
<1>5. /\ IsDevice(t, asked') /\ Moves(Now, t, Reach(f), asked')
      /\ t.ok => \A g \in Reach(f) : Obeys(t, g) = Firmware
  BY <1>3, <1>4, RestoreServes
<1>6. /\ auto' \subseteq Fan /\ enabled' \subseteq Fan /\ level' = [g \in Fan |-> level'[g]]
      /\ \A g \in auto' : level'[g] \in {Frozen, Firmware} \cup asked'[g]
      /\ auto' \ Reach(f) = auto \ Reach(f)
      /\ follows' = [g \in Fan |-> Obeys(t, g)]
      /\ \A g \in Fan : /\ g \notin Reach(f) => follows'[g] = follows[g]
                        /\ follows'[g] \in {follows[g], Firmware, Frozen} \cup asked'[g]
  BY <1>1, <1>5, CallMoves
<1>7. HalTypeOK'
  BY <1>1, <1>6 DEF Forgotten, HalInv, HalTypeOK
<1>8. DeviceInv'
  <2>1. kind = "pwmsys" => acquired' \cap auto' = {}
    <3>1. ASSUME kind = "pwmsys" PROVE acquired' \cap auto' = {}
      <4>1. Reach(f) = {f}
        BY <3>1 DEF Reach
      <4>2. acquired' = acquired \ {f} /\ acquired \cap auto = {}
        BY <1>1, <3>1 DEF Forgotten, HalInv, DeviceInv
      <4> QED BY <1>6, <4>1, <4>2
    <3> QED BY <3>1
  <2> QED BY <1>1, <1>3, <1>6, <2>1 DEF DeviceInv
<1>9. said'.call = "restore" /\ said'.of = Reach(f) /\ (said'.ok <=> t.ok)
  BY <1>1, <1>5 DEF Says, IsDevice
<1>10. ASSUME t.ok PROVE Contract!Restored
  <2>1. follows' = [g \in Fan |-> IF g \in Reach(f) THEN Firmware ELSE follows[g]]
    <3>1. \A g \in Fan : follows'[g] = IF g \in Reach(f) THEN Firmware ELSE follows[g]
      BY <1>5, <1>6, <1>10
    <3> QED BY <1>6, <3>1
  <2> QED BY <1>1, <1>9, <1>10, <2>1 DEF Contract!Restored, Contract!Reached
<1>11. ASSUME ~t.ok PROVE Contract!Failed
  BY <1>1, <1>6, <1>9, <1>11 DEF Contract!Failed, Contract!Reached
<1> QED BY <1>7, <1>8, <1>10, <1>11 DEF HalInv

\* Every step of the backends is one of the contract, or none that it can see.
LEMMA HalStep ==
    HalInv /\ [HalNext]_halVars
    => HalInv' /\ [Contract!Written \/ Contract!Restored \/ Contract!Failed]_(Contract!contract)
<1> SUFFICES ASSUME HalInv, [HalNext]_halVars
             PROVE  HalInv' /\ [Contract!Written \/ Contract!Restored \/ Contract!Failed]_(Contract!contract)
  OBVIOUS
<1>1. ASSUME NEW f \in Channels, NEW d \in Duties, HalWrite(f, d)
      PROVE  HalInv' /\ [Contract!Written \/ Contract!Restored \/ Contract!Failed]_(Contract!contract)
  BY <1>1, WriteKeeps
<1>2. ASSUME NEW f \in Channels, HalRestore(f)
      PROVE  HalInv' /\ [Contract!Written \/ Contract!Restored \/ Contract!Failed]_(Contract!contract)
  BY <1>2, RestoreKeeps
<1>3. CASE HalRestart \/ UNCHANGED halVars
  <2>1. /\ UNCHANGED <<kind, old, auto, level, enabled, asked, said>>
        /\ acquired' \in {acquired, {}} /\ failures' \in {failures, 0}
    BY <1>3 DEF HalRestart, halVars, dev
  <2>2. HalInv'
    BY <2>1 DEF HalInv, HalTypeOK, DeviceInv, Burst
  <2>3. UNCHANGED Contract!contract
    BY <2>1 DEF Contract!contract, follows
  <2> QED BY <2>2, <2>3
<1> QED BY <1>1, <1>2, <1>3 DEF HalNext

\* It holds when the daemon starts.
LEMMA HalBegins == HalInit => HalInv /\ Contract!Init
<1> SUFFICES ASSUME HalInit PROVE HalInv /\ Contract!Init
  OBVIOUS
<1>1. level = [f \in Fan |-> level[f]] /\ asked = [f \in Fan |-> asked[f]]
  BY DEF HalInit
<1>2. old \in BOOLEAN
  BY DEF HalInit
<1>3. HalTypeOK
  BY <1>2 DEF HalInit, HalTypeOK, Burst
<1>4. DeviceInv
  BY <1>1 DEF HalInit, DeviceInv
<1>5. Contract!Init
  BY Zenon DEF HalInit, Contract!Init
<1> QED BY <1>3, <1>4, <1>5 DEF HalInv

\* The backends implement the contract.
THEOREM BackendsKeepTheContract == HalSpec => ImplementsContract
<1>1. HalInit => HalInv /\ Contract!Init
  BY HalBegins
<1>2. HalInv /\ [HalNext]_halVars
      => HalInv' /\ [Contract!Written \/ Contract!Restored \/ Contract!Failed]_(Contract!contract)
  BY HalStep
<1> QED BY <1>1, <1>2, PTL DEF HalSpec, ImplementsContract, Contract!Spec

-----------------------------------------------------------------------------
(* The daemon composed of its parts implements each of them.               *)

\* A step of the daemon is a step of the blend, or none of it.
LEMMA BlendImplemented == SafetySpec => BlendSpec
<1>1. SafetyInit => BlendInit
  BY DEF SafetyInit
<1>2. [SafetyNext]_<<part, vars, wVars, lVars, halVars, hVars, eVars, ssVars, diVars, sbVars>>
      => [BlendNext]_sbVars
  BY DEF SafetyNext
<1> QED BY <1>1, <1>2, PTL DEF SafetySpec, BlendSpec

\* So it is of the watcher, ...
LEMMA WatcherImplemented == SafetySpec => WatcherSpec
<1>1. SafetyInit => WatcherInit
  BY DEF SafetyInit
<1>2. [SafetyNext]_<<part, vars, wVars, lVars, halVars, hVars, eVars, ssVars, diVars, sbVars>>
      => [WatcherNext]_wVars
  BY DEF SafetyNext
<1> QED BY <1>1, <1>2, PTL DEF SafetySpec, WatcherSpec

\* ... of the heartbeat ...
LEMMA HeartbeatImplemented == SafetySpec => HeartbeatSpec
<1>1. SafetyInit => HeartbeatInit
  BY DEF SafetyInit
<1>2. [SafetyNext]_<<part, vars, wVars, lVars, halVars, hVars, eVars, ssVars, diVars, sbVars>>
      => [HeartbeatNext]_hVars
  BY DEF SafetyNext
<1> QED BY <1>1, <1>2, PTL DEF SafetySpec, HeartbeatSpec

\* ... and of the backends.
LEMMA BackendsImplemented == SafetySpec => HalSpec
<1>1. SafetyInit => HalInit
  BY DEF SafetyInit
<1>2. [SafetyNext]_<<part, vars, wVars, lVars, halVars, hVars, eVars, ssVars, diVars, sbVars>>
      => [HalNext]_halVars
  BY DEF SafetyNext
<1> QED BY <1>1, <1>2, PTL DEF SafetySpec, HalSpec

\* The daemon's deadlines hold: a change of the chips is confirmed, a stall of the
\* controllers is caught and smart mode gives way to the curve, each in its time.
THEOREM DaemonKeepsDeadlines == SafetySpec => []DeadlinesHold
<1>1. SafetySpec => []NoticedInTime
  BY WatcherImplemented, WatcherIsInTime
<1>2. SafetySpec => []StallIsCaught
  BY HeartbeatImplemented, StallsAreCaught
<1>3. SafetySpec => []YieldsInTime
  BY BlendImplemented, BlendYields
<1> QED BY <1>1, <1>2, <1>3, PTL DEF DeadlinesHold

\* The daemon's blend is safe.
THEOREM DaemonBlendsSafely == SafetySpec => []BlendIsSafe
BY BlendImplemented, BlendStaysSafe

\* Neither the watcher nor systemd acts on the daemon without its cause, however many
\* chips and controllers it has.
THEOREM DaemonRaisesNoFalseAlarm ==
    ASSUME SlowTick <= WatchdogSec + 4
    PROVE  SafetySpec => NoFalseAlarm
<1>1. SafetySpec => FlapsAreSilent
  BY WatcherImplemented, WatcherIsSilent
<1>2. SafetySpec => KilledForCause
  BY HeartbeatImplemented, KillsHaveACause
<1> QED BY <1>1, <1>2, PTL DEF NoFalseAlarm

\* Whatever calls are made, whichever of their commands fail and wherever the process
\* dies: a Write or a Restore that reports success has done it, and one that fails leaves
\* its fans where they were, frozen, with the firmware or at a duty that was asked for.
THEOREM DaemonsBackendsKeepTheContract == SafetySpec => ImplementsContract
BY BackendsImplemented, BackendsKeepTheContract

\* For every PWM period, NBFC range and board of at most 128 fan modes, a duty that is
\* read back and written again changes nothing.
THEOREM ReadBacksAreStable ==
    ASSUME Modes <= 128
    PROVE  SafetySpec => []ReadBackIsStable
BY ReadBackStable, PTL
=============================================================================
