----------------------------- MODULE PwmEnable -----------------------------
(***************************************************************************)
(* The pwm_enable register of a fan channel and the pure decisions ventd   *)
(* takes about it: what Register captures as the restore baseline          *)
(* (watchdog.applyPriorCrashFallback), what Restore does to the register   *)
(* and the duty byte (hal/hwmon restorePWM and restoreRPMTarget, which     *)
(* differ only in the file they write), and the firmware handback walk     *)
(* shared by ventd-recover, hwmon.RecoverAllPWM and the start-up           *)
(* reconciliation of stranded channels.                                    *)
(*                                                                         *)
(* A channel is one pwm path (or backend channel ID).  The kernel driver   *)
(* rejects, with EINVAL, the register values outside Accepts[c]; that set  *)
(* is a property of the chip and never changes.  A duty byte is abstracted *)
(* to who chose it: the firmware, a ventd writer, or the 255 failsafe.     *)
(***************************************************************************)
EXTENDS Integers, Sequences, FiniteSets

CONSTANTS
    Channel,      \* fan channels
    EnablePath,   \* the hwmon channels that expose a pwm_enable attribute
    Vendor,       \* channels restored through a vendor primitive
                  \* (nvidia, msi-ec, IPMI, NBFC, other registry backends)
    Mode,         \* values a pwm_enable register can hold
    Accepts       \* Accepts[c]: values c's driver takes without EINVAL

Manual == 1       \* pwm_enable = 1: the duty byte decides the fan speed
Unknown == -1     \* "no value": origEnable -1, or a miss in the store

ASSUME ChannelAssumption ==
    /\ EnablePath \subseteq Channel
    /\ Vendor \subseteq Channel
    /\ EnablePath \cap Vendor = {}

ASSUME ModeAssumption ==
    /\ Mode \subseteq Nat
    /\ {0, 1, 2, 99} \subseteq Mode

\* Manual mode is what the daemon drives a fan in, so every driver takes it.
ASSUME AcceptsAssumption ==
    /\ Accepts \in [Channel -> SUBSET Mode]
    /\ \A c \in EnablePath : Manual \in Accepts[c]

\* Who chose the duty byte in the chip.
Duty == {"firmware", "driven", "full"}

\* The outcome of the sysfs writes of one operation: both files work, the
\* enable file fails with an error other than EINVAL, or nothing can be
\* written at all (a chip that is gone).
IoOutcome == {"ok", "enable_fails", "all_fail"}

-----------------------------------------------------------------------------
(* The firmware handback walk: 2 (automatic), 99 (vendor placeholder), 0.  *)

\* Mutant of SafePreDaemonEnableSequence: the "automatic" 1 of issue #1434.
ManualHandback == <<1>>

SafePreDaemonEnableSequence == <<2, 99, 0>>

\* The first value of seq the driver of c takes, or Unknown.
FirstAccepted(c, seq) ==
    LET taken == {i \in DOMAIN seq : seq[i] \in Accepts[c]}
    IN  IF taken = {} THEN Unknown
        ELSE seq[CHOOSE i \in taken : \A j \in taken : i <= j]

\* ventd-recover and ReconcileUnmanagedManual on a register holding en:
\* the first accepted value lands; EINVAL on all of them, or a file that
\* cannot be written, leaves the register alone.
HandBack(c, en, io) ==
    LET v == FirstAccepted(c, SafePreDaemonEnableSequence)
    IN  IF io = "ok" /\ v # Unknown THEN v ELSE en

-----------------------------------------------------------------------------
(* What Register captures.                                                 *)

\* Mutant of Capture: the register is the baseline, whatever it holds (the
\* behaviour before the prior-crash fallback).
CaptureVerbatim(live, stored) ==
    [orig |-> live, fallback |-> FALSE, persist |-> live]

\* live: the register as read, Unknown when the read failed or timed out.
\* stored: the LastKnownStore value, Unknown on a miss.
\* fallback: Restore may walk SafePreDaemonEnableSequence.
\* persist: the value to write to the store, Unknown for none.
Capture(live, stored) ==
    IF live = Unknown
      THEN [orig |-> Unknown, fallback |-> FALSE, persist |-> Unknown]
    ELSE IF live # Manual
      THEN [orig |-> live, fallback |-> FALSE, persist |-> live]
    ELSE IF stored \notin {Unknown, Manual}
      THEN [orig |-> stored, fallback |-> FALSE, persist |-> Unknown]
    ELSE [orig |-> Head(SafePreDaemonEnableSequence), fallback |-> TRUE,
          persist |-> Unknown]

-----------------------------------------------------------------------------
(* What Restore does with a baseline on a chip holding (en, duty).         *)

Chip(en, duty, persist) == [enable |-> en, duty |-> duty, persist |-> persist]

\* A channel with no usable baseline, or whose register cannot be written,
\* is driven to full speed.
FullSpeed(en) == Chip(en, "full", Unknown)

\* Mutant of RestoreHwmon: a failed write of the enable file is returned to
\* the caller without the full-speed failsafe.
RestoreHwmonNoFailsafe(c, e, en, duty, io) ==
    IF io # "ok" \/ e.orig = Unknown THEN Chip(en, duty, Unknown)
    ELSE IF e.orig \in Accepts[c] THEN Chip(e.orig, duty, Unknown)
    ELSE Chip(Manual, duty, Unknown)

RestoreHwmon(c, e, en, duty, io) ==
    LET winner == FirstAccepted(c, Tail(SafePreDaemonEnableSequence))
    IN  IF io = "all_fail" THEN Chip(en, duty, Unknown)
        ELSE IF e.orig = Unknown \/ io = "enable_fails" THEN FullSpeed(en)
        ELSE IF e.orig \in Accepts[c] THEN Chip(e.orig, duty, Unknown)
        ELSE IF e.fallback /\ winner # Unknown
          THEN Chip(winner, duty, winner)
        \* A chip that reported a value above 1 and now rejects it keeps its
        \* current duty byte in manual mode rather than jumping to 255.
        ELSE IF e.orig > Manual /\ Manual \in Accepts[c]
          THEN Chip(Manual, duty, Unknown)
        ELSE FullSpeed(en)

\* The vendor primitive puts the channel in its automatic mode (modelled as
\* 2) or fails and leaves it alone.
RestoreVendor(en, duty, io) ==
    Chip(IF io = "ok" THEN 2 ELSE en, duty, Unknown)

RestoreEffect(c, e, en, duty, io) ==
    IF c \in Vendor THEN RestoreVendor(en, duty, io)
                    ELSE RestoreHwmon(c, e, en, duty, io)

-----------------------------------------------------------------------------
\* The fan sits at a duty byte some ventd writer chose: the channel has no
\* automatic mode or is in manual mode.
Held(c, en, duty) ==
    duty = "driven" /\ (en = Manual \/ c \notin EnablePath \cup Vendor)

\* The driver takes no value this baseline lets Restore write, other than
\* manual mode (issue #1249 in the source: such a chip keeps its duty byte).
Unrestorable(c, e) ==
    /\ c \notin Vendor
    /\ e.orig > Manual
    /\ e.orig \notin Accepts[c]
    /\ e.fallback => FirstAccepted(c, Tail(SafePreDaemonEnableSequence)) = Unknown
=============================================================================
