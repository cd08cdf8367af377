---------------------------- MODULE HalBackends ----------------------------
(***************************************************************************)
(* internal/hal/<vendor>: the backends that are not hwmon.  A call is a    *)
(* sequence of commands to a device, each of which can fail; a backend     *)
(* differs from another by its commands, by the failures it stops at, by   *)
(* what it remembers of having taken the fan, and by how finely its device *)
(* knows duties.  Firmware is the firmware's own control; on a device whose    *)
(* only commands are platform profiles it is the profile "balanced".       *)
(***************************************************************************)
EXTENDS Integers, Sequences

CONSTANTS
    Fan,         \* the channels of one device
    Pump,        \* those of them that are a pump
    Kinds,       \* the backends to look at
    Duties,        \* the duties asked for, out of 0..255
    Modes,       \* how many fan modes the msi-ec board can be set to
    Quiet,       \* the platform has a profile "quiet" or "low-power"
    Period,      \* of the kernel's PWM device
    MinSpeed, MaxSpeed,   \* of the NBFC configuration
    PumpMin

ASSUME HalAssumption ==
    /\ Kinds \subseteq {"thinkpad", "legion", "lenovoideapad", "msiec", "pwmsys", "crosec",
                        "amdgpu", "nvml", "nbfc", "ipmi", "corsair"}
    /\ Fan # {} /\ Duties \subseteq 0..255 /\ {Modes, Period} \subseteq Nat \ {0}
    /\ {MinSpeed, MaxSpeed} \subseteq Nat /\ MinSpeed # MaxSpeed

Firmware == -1
Frozen == -2   \* the register of a fan that the firmware drives

VARIABLES
    kind,        \* the backend of this behaviour
    old,         \* the kernel refuses a level before "enable" (thinkpad)
    auto,        \* the fans that the firmware drives
    level,       \* level[f]: the device's duty register
    enabled,     \* the fans whose thinkpad gate is open
    acquired,    \* Backend.acquired
    failures,    \* Backend.failures (crosec)
    asked, said  \* what the calls asked for, and the last one's report

dev == <<auto, level, enabled>>
follows == [f \in Fan |-> IF f \in auto THEN Firmware ELSE level[f]]
halVars == <<kind, old, dev, acquired, failures, asked, said>>

-----------------------------------------------------------------------------
(* Duties as the devices know them, and what Read makes of them.           *)

Round(n, d) == (2 * n + d) \div (2 * d)

ThinkpadLevel(d) == (d * 7 + 127) \div 255
ThinkpadPwm(q) == (q * 255 + 3) \div 7

LegionProfile(d) == IF d <= 84 /\ Quiet THEN 0 ELSE IF d <= 170 THEN Firmware ELSE 2
LegionPwm(q) == IF q = 0 THEN 42 ELSE IF q = Firmware THEN 127 ELSE 213

MsiMode(d) == (d * Modes) \div 256
MsiPwm(q) == (q * 256 + 128) \div Modes

PwmsysDuty(d) == Round(d * Period, 255)
PwmsysPwm(q) == Round(q * 255, Period)

CrosPercent(d) == (d * 100) \div 255
Percent(d) == Round(d * 100, 255)
HelperPwm(pct) == (pct * 255) \div 100

NbfcRegister(d) == Round(MinSpeed * 255 + (MaxSpeed - MinSpeed) * d, 255)
NbfcPwm(q) == IF MaxSpeed > MinSpeed
              THEN Round((q - MinSpeed) * 255, MaxSpeed - MinSpeed)
              ELSE Round((MinSpeed - q) * 255, MinSpeed - MaxSpeed)

CorsairDuty(f, d) == IF f \in Pump /\ d < PumpMin THEN PumpMin ELSE d

\* Mutant of Quant: the level is truncated.
QuantTruncated(k, f, d) == IF k = "thinkpad" THEN (d * 7) \div 256 ELSE d

Quant(k, f, d) ==
    CASE k = "thinkpad" -> ThinkpadLevel(d)
      [] k \in {"legion", "lenovoideapad"} -> LegionProfile(d)
      [] k = "msiec" -> MsiMode(d)
      [] k = "pwmsys" -> PwmsysDuty(d)
      [] k = "crosec" -> CrosPercent(d)
      [] k = "amdgpu" -> d
      [] k \in {"ipmi", "nvml"} -> Percent(d)
      [] k = "nbfc" -> NbfcRegister(d)
      [] k = "corsair" -> CorsairDuty(f, d)

\* The backends whose Read tells the duty.
ReadsBack == {"thinkpad", "msiec", "pwmsys", "nbfc", "nvml", "legion", "lenovoideapad"}
ReadBack(k, q) ==
    CASE k = "thinkpad" -> ThinkpadPwm(q)
      [] k \in {"legion", "lenovoideapad"} -> LegionPwm(q)
      [] k = "msiec" -> MsiPwm(q)
      [] k = "pwmsys" -> PwmsysPwm(q)
      [] k = "nbfc" -> NbfcPwm(q)
      [] k = "nvml" -> Round(q * 255, 100)

-----------------------------------------------------------------------------
(* Commands.  One that is not must is tried and its failure ignored; one   *)
(* that is each reaches a fan after the other, up to the one that fails.   *)

Command(what, arg, F, must, each) ==
    [what |-> what, arg |-> arg, on |-> F, must |-> must, each |-> each]
Do(what, arg, F) == Command(what, arg, F, TRUE, FALSE)
Try(what, arg, F) == Command(what, arg, F, FALSE, FALSE)
Each(what, arg, F) == Command(what, arg, F, TRUE, TRUE)
Exchange(F) == Do("exchange", Firmware, F)   \* a command without effect on a fan

\* The devices with one channel, and those whose commands reach every fan: a
\* BMC's name zone 0 or all fans, and the channel of nvml is the card.
OneChannel == {"thinkpad", "legion", "lenovoideapad", "msiec", "crosec", "amdgpu"}
Channels == IF kind \in OneChannel THEN {CHOOSE f \in Fan : TRUE} ELSE Fan
Reach(f) == IF kind \in {"ipmi", "nvml"} THEN Fan ELSE {f}

ThinkpadWrite(f, q) ==
    IF f \in acquired THEN <<Do("set", q, {f})>>
    ELSE <<Try("enable", Firmware, {f}), Do("set", q, {f})>>
ThinkpadRestore(f) == << <<Do("free", Firmware, {f})>>, <<Do("disable", Firmware, {f})>> >>

LegionWrite(f, q) == <<Do("set", q, {f}), Try("exchange", Firmware, {f})>>
LegionRestore(f) == << <<Do("free", Firmware, {f}), Try("exchange", Firmware, {f})>> >>

IdeapadWrite(f, q) == <<Do("set", q, {f})>>
IdeapadRestore(f) == << <<Do("free", Firmware, {f})>> >>

MsiWrite(f, q) == <<Do("set", q, {f})>>
MsiRestore(f) == << <<Do("free", Firmware, {f})>> >>

PwmsysWrite(f, q) ==
    IF f \in acquired THEN <<Do("duty", q, {f})>>
    ELSE <<Do("duty", q, {f}), Do("take", Firmware, {f})>>
PwmsysRestore(f) == << <<Do("free", Firmware, {f})>> >>

CrosecWrite(f, q) == <<Do("set", q, {f})>>
CrosecRestore(f) == << <<Do("free", Firmware, {f})>> >>

AmdgpuWrite(f, q) == <<Do("take", Firmware, {f}), Do("duty", q, {f})>>
AmdgpuRestore(f) == << <<Do("free", Firmware, {f})>> >>

NvmlWrite(f, q) == <<Exchange(Fan), Each("set", q, Fan)>>
NvmlRestore(f) == << <<Exchange(Fan), Each("free", Firmware, Fan)>> >>

NbfcWrite(f, q) == <<Do("set", q, {f})>>
NbfcRestore(f) == << <<Do("free", Firmware, {f}), Exchange({f})>> >>

IpmiWrite(f, q) == <<Do("set", q, Reach(f))>>
IpmiRestore(f) == << <<Do("free", Firmware, Reach(f))>> >>

CorsairWrite(f, q) ==
    <<Exchange({f}), Exchange({f}), Do("set", q, {f}), Try("exchange", Firmware, {f})>>
CorsairRestore(f) ==
    << <<Exchange({f}), Exchange({f}), Do("free", Firmware, {f}), Try("exchange", Firmware, {f})>> >>

WriteCommands(f, q) ==
    CASE kind = "thinkpad" -> ThinkpadWrite(f, q)
      [] kind = "legion" -> LegionWrite(f, q)
      [] kind = "lenovoideapad" -> IdeapadWrite(f, q)
      [] kind = "msiec" -> MsiWrite(f, q)
      [] kind = "pwmsys" -> PwmsysWrite(f, q)
      [] kind = "crosec" -> CrosecWrite(f, q)
      [] kind = "amdgpu" -> AmdgpuWrite(f, q)
      [] kind = "nvml" -> NvmlWrite(f, q)
      [] kind = "nbfc" -> NbfcWrite(f, q)
      [] kind = "ipmi" -> IpmiWrite(f, q)
      [] kind = "corsair" -> CorsairWrite(f, q)

\* The ways to restore f, the next tried when one has failed.
RestoreWays(f) ==
    CASE kind = "thinkpad" -> ThinkpadRestore(f)
      [] kind = "legion" -> LegionRestore(f)
      [] kind = "lenovoideapad" -> IdeapadRestore(f)
      [] kind = "msiec" -> MsiRestore(f)
      [] kind = "pwmsys" -> PwmsysRestore(f)
      [] kind = "crosec" -> CrosecRestore(f)
      [] kind = "amdgpu" -> AmdgpuRestore(f)
      [] kind = "nvml" -> NvmlRestore(f)
      [] kind = "nbfc" -> NbfcRestore(f)
      [] kind = "ipmi" -> IpmiRestore(f)
      [] kind = "corsair" -> CorsairRestore(f)

-----------------------------------------------------------------------------
(* The device.                                                             *)

Refused(s, c) == old /\ c.what = "set" /\ ~(c.on \subseteq s.enabled)

Effect(s, c) ==
    LET Put(v) == [f \in Fan |-> IF f \in c.on THEN v ELSE s.level[f]]
        Freed == [s EXCEPT !.auto = @ \cup c.on, !.level = Put(Frozen)]
    IN  CASE c.what = "set" /\ c.arg = Firmware -> Freed   \* the profile "balanced"
          [] c.what = "set" /\ c.arg # Firmware ->
                [s EXCEPT !.auto = @ \ c.on, !.level = Put(c.arg)]
          [] c.what = "duty" -> [s EXCEPT !.level = Put(c.arg)]
          [] c.what = "take" -> [s EXCEPT !.auto = @ \ c.on]
          [] c.what = "free" -> Freed
          [] c.what = "enable" -> [s EXCEPT !.enabled = @ \cup c.on]
          [] c.what = "disable" -> [Freed EXCEPT !.enabled = @ \ c.on]
          [] c.what = "exchange" -> s

\* What a failing command may have reached, in the order of the card's fans.
Before(c) == IF c.each THEN SUBSET c.on \ {c.on} ELSE {{}}

\* A command is carried out or fails; after a failure that matters no other is sent.
Outcomes(s, c) ==
    IF ~s.ok THEN {s}
    ELSE {[Effect(s, [c EXCEPT !.on = F]) EXCEPT !.ok = ~c.must] : F \in Before(c)}
         \cup (IF Refused(s, c) THEN {} ELSE {Effect(s, c)})

\* Command i of those there are.
After(S, commands, i) ==
    IF i > Len(commands) THEN S ELSE UNION {Outcomes(s, commands[i]) : s \in S}

\* The commands one after the other: no call has more than four.
Run(s, commands) ==
    After(After(After(After({[s EXCEPT !.ok = TRUE]}, commands, 1), commands, 2), commands, 3),
          commands, 4)

Now == [auto |-> auto, level |-> level, enabled |-> enabled, ok |-> TRUE]

\* The outcomes of the first way that works.
RunWays(s, ways) ==
    IF Len(ways) = 1 THEN Run(s, ways[1])
    ELSE UNION {IF t.ok THEN {t} ELSE Run(t, ways[2]) : t \in Run(s, ways[1])}

Becomes(t) == auto' = t.auto /\ level' = t.level /\ enabled' = t.enabled

-----------------------------------------------------------------------------
HalInit ==
    /\ kind \in Kinds
    /\ old \in IF kind = "thinkpad" THEN BOOLEAN ELSE {FALSE}
    /\ \E d \in Duties :
        level \in [Fan -> {Frozen} \cup {Quant(kind, f, d) : f \in Fan}]
    /\ auto = {f \in Fan : level[f] \in {Frozen, Firmware}} /\ enabled = {}
    /\ acquired = {} /\ failures = 0
    /\ asked = [f \in Fan |-> {}]
    /\ said = [call |-> "none", of |-> {}, ok |-> TRUE]

Keeps == {"thinkpad", "legion", "lenovoideapad", "pwmsys"}

\* Mutant of Remembered: pwmsys remembers the fan although enabling it failed.
RememberedAlways(f, ok) == IF kind \in Keeps THEN acquired \cup {f} ELSE acquired

\* pwmsys forgets the fan when the command that takes it fails, and does not
\* remember one whose duty was refused.
Remembered(f, ok) ==
    IF kind \in Keeps /\ (kind = "pwmsys" => ok) THEN acquired \cup {f} ELSE acquired

\* pwmsys forgets before it restores, the others when the restore has worked.
Forgotten(f, ok) == IF kind = "pwmsys" \/ ok THEN acquired \ {f} ELSE acquired

Burst == 5   \* maxConsecutiveFailures

Says(call, f, ok) == said' = [call |-> call, of |-> Reach(f), ok |-> ok]

\* After a burst of failures crosec restores, and still reports the error.
HalWrite(f, d) ==
    LET q == Quant(kind, f, d)
        commands == WriteCommands(f, q)
    IN  \E t \in Run(Now, commands) :
          LET burst == kind = "crosec" /\ ~t.ok /\ failures + 1 >= Burst
          IN  /\ \E s \in IF burst THEN RunWays(t, RestoreWays(f)) ELSE {t} : Becomes(s)
              /\ failures' = IF kind # "crosec" \/ t.ok \/ burst THEN 0 ELSE failures + 1
              /\ acquired' = Remembered(f, t.ok)
              /\ asked' = [g \in Fan |-> IF g \in Reach(f) THEN asked[g] \cup {q} ELSE asked[g]]
              /\ Says("write", f, t.ok)
              /\ UNCHANGED <<kind, old>>

HalRestore(f) ==
    \E t \in RunWays(Now, RestoreWays(f)) :
        /\ Becomes(t)
        /\ acquired' = Forgotten(f, t.ok)
        /\ Says("restore", f, t.ok)
        /\ UNCHANGED <<kind, old, failures, asked>>

\* The process dies and another one takes the device over as it is.
HalRestart ==
    /\ acquired' = {} /\ failures' = 0
    /\ UNCHANGED <<kind, old, dev, asked, said>>

HalNext ==
    \/ \E f \in Channels, d \in Duties : HalWrite(f, d)
    \/ \E f \in Channels : HalRestore(f)
    \/ HalRestart

HalSpec == HalInit /\ [][HalNext]_halVars

-----------------------------------------------------------------------------
HalTypeOK ==
    /\ kind \in Kinds /\ old \in BOOLEAN
    /\ auto \subseteq Fan /\ enabled \subseteq Fan
    /\ acquired \subseteq Fan /\ failures \in 0..(Burst - 1)

\* Every backend keeps the contract of the HAL, over any sequence of calls,
\* failing commands and restarts.
Contract == INSTANCE HalContract

ImplementsContract == Contract!Spec

\* "A write, read, compare round-trip is stable": writing what Read reported
\* changes nothing, for every duty and every device that can be read; and the
\* helper that writes for a daemon without root sets the percentage it is given.
ReadBackIsStable ==
    said.call = "none" /\ kind \in ReadsBack =>
        \A f \in Fan, d \in 0..255 :
            LET q == Quant(kind, f, d)
            IN  /\ Quant(kind, f, ReadBack(kind, q)) = q
                /\ kind = "nvml" => Percent(HelperPwm(q)) = q
=============================================================================
