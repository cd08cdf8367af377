--------------------------- MODULE ControllerTick ---------------------------
(***************************************************************************)
(* internal/controller/controller.go: the tick of one controller, over its *)
(* HwmonBackend, beside the panic button, a calibration of the same fan, a *)
(* watchdog hand-back, firmware, and reloads of the configuration.         *)
(*                                                                         *)
(* A tick is two steps and the Write between them: it passes the gates,    *)
(* takes its snapshot of the configuration and the sensor and decides on a *)
(* duty; Backend.Write runs; the result is recorded.  Everything else may  *)
(* happen in between.  Temperatures are levels; a curve of duty = level    *)
(* (less the curve's offset) stands for the compiled curve, "blend" for    *)
(* whatever the smart-mode hook returns.                                   *)
(***************************************************************************)
EXTENDS HwmonBackend, PanicButton

CONSTANTS
    Configs,         \* the configurations a reload may bring
    Curves,          \* curve name -> offset
    Gone,            \* the bound curve is not in the configuration
    NoDuty,          \* no ManualPWM; no lastPWM
    Levels,          \* temperatures
    Emergency,       \* the level overtempForce engages at
    Margin,          \* emergencyReleaseC, in levels
    Hysteresis,      \* CurveConfig.Hysteresis, in levels
    Debounce,        \* emergencyDebounce
    SentinelMax,     \* sentinelInvalidDuration
    Smart,           \* a blend hook is installed
    Polarities,      \* the polarities a channel may have
    MaxReloads, MaxSweeps   \* bounds

VARIABLES
    polarity,    \* polarityCh.Polarity
    cfg,         \* the live configuration, as this fan sees it
    temp,        \* what the curve's sensor would read now
    calibrating, \* IsCalibrating of this fan
    cpc,         \* "idle", "write", "retry", "dead"
    kind,        \* what the running write is for: "curve", "manual", "carry"
    planTemp,    \* the temperature it was decided at
    lastPWM,     \* lastPWM, or NoDuty when ~hasLastPWM
    lastTemp,
    activeCurve,
    blind,       \* age of sensorInvalidSince, or None
    engaged,     \* the failsafe is forcing full speed
    dwell,       \* age of overSince, or of underSince when engaged, or None
    unbound,     \* unboundRestored
    refused,     \* polarityHandedBack
    reloads, sweeps

cVars == <<polarity, cfg, temp, calibrating, cpc, kind, planTemp, lastPWM, lastTemp,
           activeCurve, blind, engaged, dwell, unbound, refused, reloads, sweeps>>
tickVars == <<bVars, pVars, cVars>>

Sentinel == -1
Missing == -2
None == -1

ASSUME TickAssumption ==
    /\ Configs \subseteq [fan : BOOLEAN, curve : DOMAIN Curves \cup {Gone},
                          manual : Duties \cup {NoDuty}, min : Duties,
                          max : Duties, stop : BOOLEAN]
    /\ \A c \in Configs : c.min <= c.max
    /\ NoDuty \notin Duties
    /\ 0 \in Levels /\ Levels \subseteq Duties
    /\ \A c \in DOMAIN Curves : Curves[c] \in Nat
    /\ Gone \notin DOMAIN Curves
    /\ {Debounce, SentinelMax, MaxReloads, MaxSweeps, MaxPresses} \subseteq Nat

\* The curve's output at a level; a sensor that is not in the map reads Top.
CurveDuty(c, t) ==
    IF t = Missing THEN Top
    ELSE IF t > Curves[c] THEN t - Curves[c] ELSE 0

ClampTo(f, v) == IF v < f.min THEN f.min ELSE IF v > f.max THEN f.max ELSE v

\* computePWM: clamp, blend, clamp again.
Computed(f, t) ==
    LET reactive == ClampTo(f, CurveDuty(f.curve, t))
    IN  IF Smart /\ t # Missing THEN {ClampTo(f, v) : v \in Duties} ELSE {reactive}


\* The duty in terms of airflow.
Through(v) == IF polarity = "inverted" THEN Top - v ELSE v
Flow == Through(duty)

TickTypeOK ==
    /\ BackendTypeOK /\ PanicTypeOK
    /\ polarity \in Polarities
    /\ cfg \in Configs
    /\ temp \in Levels \cup {Sentinel, Missing}
    /\ calibrating \in BOOLEAN
    /\ cpc \in {"idle", "write", "retry", "dead"}
    /\ kind \in {"none", "curve", "manual", "carry"}
    /\ planTemp \in Levels \cup {Missing}
    /\ lastPWM \in Duties \cup {NoDuty}
    /\ lastTemp \in Levels
    /\ activeCurve \in DOMAIN Curves \cup {Gone}
    /\ blind \in {None} \cup 0..SentinelMax
    /\ engaged \in BOOLEAN
    /\ dwell \in {None} \cup 0..Debounce
    /\ unbound \in BOOLEAN /\ refused \in BOOLEAN
    /\ reloads \in 0..MaxReloads /\ sweeps \in 0..MaxSweeps

TickInit ==
    /\ BackendInit /\ PanicInit
    /\ polarity \in Polarities
    /\ cfg \in Configs
    /\ temp = 0
    /\ calibrating = FALSE
    /\ cpc = "idle" /\ kind = "none" /\ planTemp = 0
    /\ lastPWM = NoDuty /\ lastTemp = 0
    /\ activeCurve = Gone
    /\ blind = None /\ engaged = FALSE /\ dwell = None
    /\ unbound = FALSE /\ refused = FALSE
    /\ reloads = 0 /\ sweeps = 0

-----------------------------------------------------------------------------
(* The first step of a tick.                                               *)

Env == <<polarity, cfg, temp, calibrating, reloads, sweeps>>
Sensing == <<activeCurve, blind, engaged, dwell>>
Last == <<lastPWM, lastTemp>>
ButChip == <<exposes, acquired, checked, wpc, want, wres, reverts>>

Bound == cfg.fan /\ (cfg.manual # NoDuty \/ cfg.curve # Gone)
OnCurve == cfg.fan /\ cfg.manual = NoDuty /\ cfg.curve # Gone

\* The calibration and panic gates; a tick that yields leaves this state alone.
Ready == cpc = "idle" /\ ~calibrating /\ ~IsPanicked

\* RestoreOne of this fan, seen from the chip.
RestoreOne == HandToFirmware /\ UNCHANGED ButChip

\* restoreOnUnbind: the fan or its curve has left the configuration.
Unbinds ==
    /\ Ready /\ ~Bound /\ ~unbound
    /\ RestoreOne
    /\ unbound' = TRUE
    /\ UNCHANGED <<pVars, Env, cpc, kind, planTemp, Last, Sensing, refused>>

\* writePWMViaPolarity: inverted channels get the complement; a phantom is
\* refused, handed back once, and the write is reported as done.
Send(v) ==
    IF polarity = "phantom"
    THEN /\ IF refused THEN UNCHANGED <<enable, duty>> ELSE HandToFirmware
         /\ refused' = TRUE
         /\ wres' = "ok" /\ want' = v
         /\ UNCHANGED <<exposes, acquired, checked, wpc, reverts>>
    ELSE /\ CallWrite(Through(v))
         /\ UNCHANGED <<exposes, enable, duty, acquired, checked, reverts, refused>>

StartWrite(k, v, t) ==
    /\ Send(v)
    /\ cpc' = "write" /\ kind' = k /\ planTemp' = t

\* Zero needs the fan's consent: MinPWM = 0 and AllowStop.
MayWrite(v) == v > 0 \/ cfg.stop

\* Manual mode writes the clamped ManualPWM.
ManualTick ==
    /\ Ready /\ cfg.fan /\ cfg.manual # NoDuty
    /\ LET v == ClampTo(cfg, cfg.manual) IN MayWrite(v) /\ StartWrite("manual", v, 0)
    /\ UNCHANGED <<pVars, Env, Last, Sensing, unbound>>

\* initCurveStateIfNeeded: another curve forgets the hysteresis baseline.
CurveBound == Ready /\ OnCurve
Swapped == activeCurve # cfg.curve
Prev == IF Swapped THEN NoDuty ELSE lastPWM
PrevTemp == IF Swapped THEN 0 ELSE lastTemp
TakeCurve == activeCurve' = cfg.curve /\ lastPWM' = Prev /\ lastTemp' = PrevTemp

\* Mutant of SentinelTick: every tick starts the clock again.
SentinelTickRestarts ==
    /\ CurveBound /\ temp = Sentinel
    /\ TakeCurve
    /\ blind' = IF Prev = NoDuty THEN blind ELSE 0
    /\ IF Prev = NoDuty
       THEN RestoreOne /\ UNCHANGED <<cpc, kind, planTemp, refused>>
       ELSE StartWrite("carry", Prev, 0)
    /\ UNCHANGED <<pVars, Env, engaged, dwell, unbound>>

\* The sensor reads a sentinel: carry lastPWM forward for SentinelMax, then,
\* or at once when there is none, hand the fan to firmware.
SentinelTick ==
    /\ CurveBound /\ temp = Sentinel
    /\ TakeCurve
    /\ LET since == IF blind = None THEN 0 ELSE blind IN
       /\ blind' = IF Prev = NoDuty THEN blind ELSE since
       /\ IF Prev = NoDuty \/ since >= SentinelMax
          THEN RestoreOne /\ UNCHANGED <<cpc, kind, planTemp, refused>>
          ELSE StartWrite("carry", Prev, 0)
    /\ UNCHANGED <<pVars, Env, engaged, dwell, unbound>>

\* overtempForce: engage and release are debounced and a margin apart; a
\* sensor that could not be read is not looked at.
OvertempForce(t) ==
    IF t = Missing THEN UNCHANGED <<engaged, dwell>>
    ELSE LET crossed == IF engaged THEN t < Emergency - Margin ELSE t >= Emergency
             since == IF ~crossed THEN None ELSE IF dwell = None THEN 0 ELSE dwell
             fires == since >= Debounce
         IN  /\ engaged' = (engaged # fires)
             /\ dwell' = IF fires THEN None ELSE since

\* Mutant of Forced: the operator's cap bounds the failsafe too.
ForcedCapped(b) == IF temp # Missing /\ engaged' THEN cfg.max ELSE b

Forced(b) == IF temp # Missing /\ engaged' THEN Top ELSE b

\* The hysteresis gate, ramp-down only.
Holds(v) ==
    /\ Prev # NoDuty /\ v < Prev
    /\ Hysteresis > 0
    /\ temp # Missing /\ temp > PrevTemp - Hysteresis

\* The part of a curve tick up to the duty.
Evaluate ==
    /\ CurveBound /\ temp # Sentinel
    /\ TakeCurve
    /\ blind' = None
    /\ OvertempForce(temp)
    /\ UNCHANGED <<pVars, Env>>

\* A duty the rules refuse, or the hysteresis gate holds back, is not written;
\* a held tick is a completed one and re-arms the hand-back.
RefusingTick ==
    /\ Evaluate
    /\ \E b \in Computed(cfg, temp) : ~MayWrite(Forced(b))
    /\ UNCHANGED <<bVars, cpc, kind, planTemp, refused, unbound>>

HoldingTick(v) ==
    /\ Evaluate
    /\ \E b \in Computed(cfg, temp) : v = Forced(b)
    /\ MayWrite(v) /\ Holds(v)
    /\ unbound' = FALSE
    /\ UNCHANGED <<bVars, cpc, kind, planTemp, refused>>

WritingTick ==
    /\ Evaluate
    /\ \E b \in Computed(cfg, temp) :
         LET v == Forced(b) IN
         MayWrite(v) /\ ~Holds(v) /\ StartWrite("curve", v, temp)
    /\ UNCHANGED unbound

-----------------------------------------------------------------------------
(* Backend.Write runs, and the second step of the tick.                    *)

Writing == cpc \in {"write", "retry"}
Returned == Writing /\ wpc = "idle" /\ wres # "none"

BackendStep ==
    /\ Writing /\ WriteStep
    /\ UNCHANGED <<pVars, cVars>>

\* The tick is over and forgets its locals.
Done ==
    /\ cpc' = "idle" /\ kind' = "none" /\ planTemp' = 0
    /\ wres' = "none" /\ want' = 0
    /\ UNCHANGED <<exposes, acquired, checked, wpc, reverts, pVars, Env, Sensing, refused>>

\* Mutant of WriteSucceeded: the hand-back is never re-armed.
WriteSucceededOnce ==
    /\ Returned /\ wres = "ok"
    /\ IF kind = "curve"
       THEN /\ lastPWM' = Through(want)
            /\ lastTemp' = IF planTemp = Missing THEN lastTemp ELSE planTemp
       ELSE UNCHANGED Last
    /\ UNCHANGED <<enable, duty, unbound>>
    /\ Done

\* markTickCompleted re-arms the hand-back; a carried duty does not reach it.
WriteSucceeded ==
    /\ Returned /\ wres = "ok"
    /\ IF kind = "curve"
       THEN /\ lastPWM' = Through(want)
            /\ lastTemp' = IF planTemp = Missing THEN lastTemp ELSE planTemp
       ELSE UNCHANGED Last
    /\ unbound' = (kind = "carry" /\ unbound)
    /\ UNCHANGED <<enable, duty>>
    /\ Done

\* writeWithRetry: ErrNotPermitted ends Run, whose defer restores.  Any other
\* error is retried once and then the watchdog takes over.  The carried write
\* is best effort.
WriteDenied ==
    /\ Returned /\ wres = "denied" /\ kind # "carry" /\ cpc = "write"
    /\ RestoreOne
    /\ cpc' = "dead"
    /\ UNCHANGED <<pVars, Env, kind, planTemp, Last, Sensing, unbound, refused>>

WriteRetried ==
    /\ Returned /\ wres \in {"busy", "failed"} /\ kind # "carry" /\ cpc = "write"
    /\ Send(Through(want))
    /\ cpc' = "retry"
    /\ UNCHANGED <<pVars, Env, kind, planTemp, Last, Sensing, unbound>>

WriteGivesUp ==
    /\ Returned /\ wres # "ok" /\ (kind = "carry" \/ cpc = "retry")
    /\ IF kind = "carry" THEN UNCHANGED <<enable, duty>> ELSE HandToFirmware
    /\ UNCHANGED <<Last, unbound>>
    /\ Done

TickStep ==
    \/ Unbinds \/ ManualTick \/ SentinelTick
    \/ RefusingTick \/ (\E v \in Duties : HoldingTick(v)) \/ WritingTick
    \/ BackendStep \/ WriteSucceeded \/ WriteDenied \/ WriteRetried \/ WriteGivesUp

-----------------------------------------------------------------------------
(* Everybody else.                                                         *)

Controller == <<cpc, kind, planTemp, Last, Sensing, unbound, refused>>

\* Mutant of Older: ages grow without end.
OlderUncapped(age, cap) == IF age >= 0 THEN age + 1 ELSE age

Older(age, cap) == IF age \in 0..(cap - 1) THEN age + 1 ELSE age

\* Time passes between ticks; a write takes none of it.
Clock ==
    /\ ~Writing
    /\ CheckAges
    /\ blind' = Older(blind, SentinelMax)
    /\ dwell' = Older(dwell, Debounce)
    /\ UNCHANGED <<exposes, enable, duty, acquired, wpc, want, wres, reverts, pVars, Env,
                   cpc, kind, planTemp, Last, activeCurve, engaged, unbound, refused>>

\* The configuration and the sensor are read at the start of a tick only: a
\* change during a write is one after it.
Reload ==
    /\ ~Writing /\ reloads < MaxReloads
    /\ cfg' \in Configs \ {cfg}
    /\ reloads' = reloads + 1
    /\ UNCHANGED <<bVars, pVars, polarity, temp, calibrating, sweeps, Controller>>

Weather ==
    /\ ~Writing
    /\ temp' \in (Levels \cup {Sentinel, Missing}) \ {temp}
    /\ UNCHANGED <<bVars, pVars, polarity, cfg, calibrating, reloads, sweeps, Controller>>

\* A sweep owns the channel and ends by handing it back.
SweepBegins ==
    /\ ~calibrating /\ sweeps < MaxSweeps
    /\ calibrating' = TRUE
    /\ sweeps' = sweeps + 1
    /\ enable' = "manual" /\ duty' = 0
    /\ UNCHANGED <<ButChip, pVars, polarity, cfg, temp, reloads, Controller>>

SweepEnds ==
    /\ calibrating
    /\ calibrating' = FALSE
    /\ RestoreOne
    /\ UNCHANGED <<pVars, polarity, cfg, temp, reloads, sweeps, Controller>>

\* The panic handler writes the raw duty: it takes no manual mode, and a
\* channel firmware holds ignores or refuses it.
PanicPins ==
    /\ Pinned
    /\ duty' = IF enable = "manual" /\ cfg.fan THEN Through(cfg.max) ELSE duty
    /\ UNCHANGED <<enable, ButChip, cVars>>

PanicPress == (Press \/ RestorePanic(FALSE)) /\ UNCHANGED <<bVars, cVars>>
PanicCallback == (Fire \/ RestorePanic(TRUE)) /\ UNCHANGED <<bVars, cVars>>

Firmware == FirmwareReverts /\ UNCHANGED <<pVars, cVars>>

TickNext ==
    \/ TickStep \/ Clock \/ Reload \/ Weather \/ SweepBegins \/ SweepEnds
    \/ PanicPress \/ PanicPins \/ PanicCallback \/ Firmware

TickSpec == TickInit /\ [][TickNext]_tickVars

-----------------------------------------------------------------------------

\* While a panic is on and its writes are done, a fan the daemon drives stays
\* pinned: no tick that was under way undoes it.
PanicPinsFans ==
    (active /\ ~pinning /\ ~Writing /\ sweeps = 0 /\ enable = "manual" /\ cfg.fan
       /\ polarity # "phantom" /\ reloads = 0)
    => Flow >= cfg.max

Steady == ~calibrating /\ ~active /\ cpc # "dead"

\* A fan whose binding is gone for good is handed back to firmware for good,
\* however the binding came and went before.
UnboundIsHandedBack ==
    <>[](~Bound /\ Steady /\ exposes) => <>[](enable = "auto")

\* When the sensor reads garbage for good, the fan ends with firmware: lastPWM
\* is not carried for ever.
BlindDriveEnds ==
    <>[](OnCurve /\ Steady /\ temp = Sentinel /\ exposes) => <>[](enable = "auto")

\* A fan whose sensor stays critical runs at full speed again and again, past
\* the operator's cap, or firmware has it.
CriticalHeatWins ==
    <>[](OnCurve /\ Steady /\ temp >= Emergency /\ exposes /\ polarity # "phantom")
    => []<>(Flow = Top \/ enable = "auto" \/ cpc = "dead")
=============================================================================
