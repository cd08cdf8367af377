----------------------------- MODULE MCSafety ------------------------------
(***************************************************************************)
(* Parts of the daemon that share no state, in one run: the watchdog on a  *)
(* chip that rejects the values above 1 (the NCT6687D of the source's      *)
(* comments), the hwmon watcher, the observation log, a backend of the     *)
(* HAL, the systemd heartbeat, the envelope probe, the state directory,    *)
(* the installation of drivers and smart mode's blend.  A behaviour is one *)
(* part's.                                                                 *)
(***************************************************************************)
EXTENDS Watchdog, HwmonWatcher, ObservationLog, HalBackends, Heartbeat, Envelope, StateStore,
        DriverInstall, SmartBlend

CONSTANT picky

VARIABLE part

MCAccepts == [c \in Channel |-> {0, 1}]

MCDevice == [c \in Channel |->
    [chip |-> "nct6687", stem |-> "nct6687", digits |-> TRUE, index |-> 1,
     suffix |-> "656"]]

ThreeSteps == <<3, 2, 1>>

CoolsOrWarms == {-2, 1}

SafetyInit ==
    /\ part \in {"watchdog", "watcher", "log", "hal", "heartbeat", "envelope", "store",
                "driver", "blend"}
    /\ version \in IF part = "store" THEN {0, CurrentVersion + 1} ELSE {CurrentVersion}
    /\ Init /\ (part # "watchdog" => \A c \in Channel : enable[c] = 0)
    /\ WatcherInit /\ (part # "watcher" => \A k \in Chips : actual[k] = NoChip)
    /\ LogInit
    /\ HalInit /\ (part # "hal" => kind = "ipmi" /\ \A f \in Fan : follows[f] = Firmware)
    /\ HeartbeatInit /\ (part # "heartbeat" => bare /\ filePoll = DefaultPoll)
    /\ EnvInit /\ (part # "envelope" => reg = 0 /\ facing = "normal")
    /\ StoreInit
    /\ DriverInit /\ (part # "driver" => host.control = Plain)
    /\ BlendInit

SafetyNext ==
    \/ part = "watchdog" /\ UNCHANGED <<part, wVars, lVars, halVars, hVars, eVars, ssVars, diVars, sbVars>> /\ Next
    \/ part = "watcher" /\ UNCHANGED <<part, vars, lVars, halVars, hVars, eVars, ssVars, diVars, sbVars>> /\ WatcherNext
    \/ part = "log" /\ UNCHANGED <<part, vars, wVars, halVars, hVars, eVars, ssVars, diVars, sbVars>> /\ LogNext
    \/ part = "hal" /\ UNCHANGED <<part, vars, wVars, lVars, hVars, eVars, ssVars, diVars, sbVars>> /\ HalNext
    \/ part = "heartbeat" /\ UNCHANGED <<part, vars, wVars, lVars, halVars, eVars, ssVars, diVars, sbVars>>
       /\ HeartbeatNext
    \/ part = "envelope" /\ UNCHANGED <<part, vars, wVars, lVars, halVars, hVars, ssVars, diVars, sbVars>> /\ EnvNext
    \/ part = "store" /\ UNCHANGED <<part, vars, wVars, lVars, halVars, hVars, eVars, diVars, sbVars>> /\ StoreNext
    \/ part = "driver" /\ UNCHANGED <<part, vars, wVars, lVars, halVars, hVars, eVars, ssVars, sbVars>> /\ DriverNext
    \/ part = "blend" /\ UNCHANGED <<part, vars, wVars, lVars, halVars, hVars, eVars, ssVars, diVars>> /\ BlendNext

\* The types of every part.
PartsTypeOK == TypeOK /\ WatcherTypeOK /\ LogTypeOK /\ HalTypeOK /\ HeartbeatTypeOK /\ EnvTypeOK /\ StoreTypeOK
               /\ DriverTypeOK /\ BlendTypeOK

\* The watcher confirms a change, systemd catches a stall and smart mode gives
\* way to the curve, each in time.
DeadlinesHold == NoticedInTime /\ StallIsCaught /\ YieldsInTime

\* What was acknowledged or installed before a death or a power failure is
\* there after it.
DeathsAreSurvived == StoreIsSound /\ DriverLasts

\* Neither the watcher nor the systemd watchdog acts without its cause.
NoFalseAlarm == FlapsAreSilent /\ KilledForCause

SafetySpec == SafetyInit /\ [][SafetyNext]_<<part, vars, wVars, lVars, halVars, hVars, eVars, ssVars, diVars, sbVars>>
=============================================================================
