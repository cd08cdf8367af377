---------------------------- MODULE HwmonBackend ----------------------------
(***************************************************************************)
(* internal/hal/hwmon/backend.go: how one controller's Backend takes and   *)
(* keeps manual mode of one channel, and writes its duty.                  *)
(*                                                                         *)
(* The chip has a mode register (pwm*_enable) and a duty.  Firmware may    *)
(* take the mode back at any time, and a driver answers a duty write under *)
(* firmware control either with EBUSY or by accepting and ignoring it.     *)
(* Time is kept as ages, each capped where the code stops telling it apart *)
(* from anything older.                                                    *)
(***************************************************************************)
EXTENDS Integers

CONSTANTS
    Top,             \* the highest duty (255)
    CheckInterval,   \* ReassertReadbackInterval
    MaxReverts       \* bound: how often firmware takes the channel back

ASSUME BackendAssumption ==
    /\ Top \in Nat \ {0}
    /\ CheckInterval \in Nat \ {0}
    /\ MaxReverts \in Nat

VARIABLES
    exposes,     \* the driver has a pwm*_enable file
    enable,      \* who the chip obeys: "manual" or "auto"
    duty,        \* the duty the chip was last given in manual mode
    acquired,    \* Backend.acquired holds the channel
    checked,     \* age of reassertChecks' entry; CheckInterval: due, or none
    wpc,         \* where Backend.Write is
    want,        \* the duty being written
    wres,        \* what Write returned and its caller has not read yet
    reverts

bVars == <<exposes, enable, duty, acquired, checked, wpc, want, wres,
           reverts>>

Duties == 0..Top

BackendTypeOK ==
    /\ exposes \in BOOLEAN
    /\ enable \in {"manual", "auto"}
    /\ duty \in Duties
    /\ acquired \in BOOLEAN
    /\ checked \in 0..CheckInterval
    /\ wpc \in {"idle", "ensure", "duty", "reacquire", "retry"}
    /\ want \in Duties
    /\ wres \in {"none", "ok", "busy", "failed", "denied"}
    /\ reverts \in 0..MaxReverts

\* A driver without the file drives the header from the duty alone.
BackendInit ==
    /\ exposes \in BOOLEAN
    /\ enable = IF exposes THEN "auto" ELSE "manual"
    /\ duty = Top
    /\ acquired = FALSE
    /\ checked = CheckInterval
    /\ wpc = "idle"
    /\ want = 0
    /\ wres = "none"
    /\ reverts = 0

\* Write(ch, v) is called.
CallWrite(v) ==
    /\ wpc' = "ensure"
    /\ want' = v
    /\ wres' = "none"

Return(res) ==
    /\ wpc' = "idle"
    /\ wres' = res

\* Mutant of ReassertIfReverted: a channel once acquired is trusted.
NeverReassert == UNCHANGED <<enable, checked>>

\* reassertIfReverted: one read-back per interval.  A failed rewrite is
\* logged only; a missing file cannot be verified.
ReassertIfReverted ==
    IF checked < CheckInterval
    THEN UNCHANGED <<enable, checked>>
    ELSE checked' = 0 /\ enable' \in {"manual", enable}

\* ensureManualMode, called at the start of Write and again after EBUSY.
EnsureManualMode(at, next) ==
    /\ wpc = at
    /\ \/ /\ acquired
          /\ ReassertIfReverted
          /\ wpc' = next
          /\ UNCHANGED <<acquired, wres>>
       \/ /\ ~acquired /\ exposes
          /\ enable' = "manual"
          /\ acquired' = TRUE
          /\ checked' = 0
          /\ wpc' = next
          /\ UNCHANGED wres
       \/ /\ ~acquired /\ ~exposes
          /\ acquired' = TRUE
          /\ wpc' = next
          /\ UNCHANGED <<enable, checked, wres>>
       \/ /\ ~acquired /\ exposes
          /\ \E res \in {"failed", "denied"} : Return(res)
          /\ UNCHANGED <<enable, acquired, checked>>
    /\ UNCHANGED <<exposes, duty, want, reverts>>

\* writeDuty's outcomes other than EBUSY.
DutyLands ==
    /\ duty' = IF enable = "manual" THEN want ELSE duty
    /\ Return("ok")
    /\ UNCHANGED acquired

DutyFails ==
    /\ Return("failed")
    /\ UNCHANGED <<duty, acquired>>

\* The first EBUSY drops the acquired entry, so that the next step writes
\* enable instead of trusting the throttled read-back.
FirstDuty ==
    /\ wpc = "duty"
    /\ \/ DutyLands
       \/ DutyFails
       \/ /\ enable = "auto"
          /\ acquired' = FALSE
          /\ wpc' = "reacquire"
          /\ UNCHANGED <<duty, wres>>
    /\ UNCHANGED <<exposes, enable, checked, want, reverts>>

\* The write is retried once; a second EBUSY is the caller's.
RetryDuty ==
    /\ wpc = "retry"
    /\ \/ DutyLands
       \/ DutyFails
       \/ /\ enable = "auto"
          /\ Return("busy")
          /\ UNCHANGED <<duty, acquired>>
    /\ UNCHANGED <<exposes, enable, checked, want, reverts>>

WriteStep ==
    \/ EnsureManualMode("ensure", "duty")
    \/ FirstDuty
    \/ EnsureManualMode("reacquire", "retry")
    \/ RetryDuty

\* Firmware takes the channel back without a word (resume, BIOS fan control).
FirmwareReverts ==
    /\ exposes /\ enable = "manual"
    /\ reverts < MaxReverts
    /\ enable' = "auto"
    /\ reverts' = reverts + 1
    /\ UNCHANGED <<exposes, duty, acquired, checked, wpc, want, wres>>

\* Somebody hands the channel to firmware: the watchdog, a finished sweep.
\* Nothing tells the Backend: ClearAcquired has no caller.
HandToFirmware ==
    IF exposes
    THEN enable' = "auto" /\ UNCHANGED duty
    ELSE duty' = Top /\ UNCHANGED enable

CheckAges == checked' = IF checked < CheckInterval THEN checked + 1 ELSE checked

-----------------------------------------------------------------------------

\* A duty the driver accepted and ignored, firmware being in charge, was
\* written less than one interval after the mode register was last looked at
\* or written: silent loss of control lasts no longer than the throttle of
\* reassertIfReverted.  And the one retry after EBUSY starts with the channel
\* in manual mode: the re-acquire writes the register, it does not trust the
\* throttled look.
NoStaleWrite ==
    [][ /\ (wpc \in {"duty", "retry"} /\ wres' = "ok" /\ enable = "auto")
             => checked < CheckInterval
        /\ (wpc = "reacquire" /\ wpc' = "retry") => enable' = "manual" ]_bVars
=============================================================================
