--------------------------- MODULE DriverInstall ---------------------------
(***************************************************************************)
(* internal/hwmon: installing the kernel module that controls a board's    *)
(* fans.  The package's scripts probe the modules of the kernel            *)
(* (AutoloadModules); the wizard plans out-of-tree drivers (Diagnose) and  *)
(* runs the pipeline on one after the other; a reset takes a driver out    *)
(* again.  What counts is what the files on disk make the next boot load:  *)
(* /lib/modules, DKMS, modules-load.d, the blacklist and the kernel's      *)
(* command line.                                                           *)
(*                                                                         *)
(* The board has one chip.  Plain controls it where the kernel can; else   *)
(* Right does, an out-of-tree module, which the kernel's own Shadow, that  *)
(* shows the chip read-only, keeps out or not.  Wrong is a driver of       *)
(* another chip.                                                           *)
(***************************************************************************)
EXTENDS Integers, Sequences, FiniteSets

CONSTANTS MaxKernel,       \* bound: kernels the host goes through
          MaxBoots,        \* bound: reboots and process deaths
          MaxInstallFaults \* bound: commands and writes that fail

ASSUME DriverAssumption == {MaxKernel, MaxBoots, MaxInstallFaults} \subseteq Nat /\ MaxKernel # 0

VARIABLES
    host,        \* what the board is: which module controls it, which proposals it gets
    kernel,
    mods,        \* the modules loaded
    kos,         \* <<module, kernel>>: files in /lib/modules/<release>/extra
    dkms,        \* modules registered with DKMS
    blacklisted,
    loadConf,    \* modules-load.d/ventd.conf
    grubFile, grubCfg,  \* acpi_enforce_resources=lax: in the file, in what boots
    plan,        \* the candidates not tried yet; the first is being installed
    stage,       \* of the pipeline
    probing,     \* AutoloadModules: the lists not tried yet
    owed,        \* history: the modules said to be installed, and written to last
    gap,         \* history: a death between the unloading of Shadow and its blacklisting
    boots, installFaults

diVars == <<host, kernel, mods, kos, dkms, blacklisted, loadConf, grubFile, grubCfg, plan,
            stage, probing, owed, gap, boots, installFaults>>

Plain == "nct6775"
Right == "nct6687"
Shadow == "nct6683"
Wrong == "it87"
OutOfTree == {Right, Wrong}
Modules == OutOfTree \cup {Plain, Shadow}

Boards == {"named", "both", "late", "shown"}

Host == [control : {Plain, Right}, board : Boards, shares : BOOLEAN, acpi : BOOLEAN]

Stages == {"idle", "build", "copy", "depmod", "dkms", "modprobe", "blacklist", "retry",
           "verify", "sweep", "forbid", "persist"}

DriverTypeOK ==
    /\ host \in Host /\ kernel \in 1 .. MaxKernel
    /\ mods \subseteq Modules /\ kos \subseteq OutOfTree \X (1 .. MaxKernel)
    /\ dkms \subseteq OutOfTree /\ blacklisted \subseteq {Shadow} /\ loadConf \subseteq Modules
    /\ {grubFile, grubCfg, gap} \subseteq BOOLEAN
    /\ plan \in Seq(OutOfTree) /\ stage \in Stages
    /\ \A i \in DOMAIN probing : probing[i] \in Seq(Modules)
    /\ owed \subseteq OutOfTree
    /\ boots \in 0 .. MaxBoots /\ installFaults \in 0 .. MaxInstallFaults

-----------------------------------------------------------------------------
(* The kernel. *)

\* What boots by itself, by the bus's alias.
SelfLoading == IF host.control = Right /\ Shadow \notin blacklisted THEN {Shadow} ELSE {}

Kept(m, L) == m = Right /\ Shadow \in L /\ ~host.shares

Busy(m) == m = Right /\ host.acpi

\* A file in extra, or one that DKMS built.
Exists(m) == m \notin OutOfTree \/ <<m, kernel>> \in kos \/ m \in dkms

\* What the next boot loads: modules-load.d comes after the bus's aliases.
BootSet ==
    SelfLoading
        \cup {m \in loadConf : Exists(m) /\ ~Kept(m, SelfLoading) /\ (Busy(m) => grubCfg)}

Controllable(L) == host.control \in L
Shows(L) == Controllable(L) \/ (host.control = Right /\ Shadow \in L)

Fault == installFaults < MaxInstallFaults /\ installFaults' = installFaults + 1

DriverInit ==
    /\ host \in Host /\ (host.control = Plain => ~host.shares /\ ~host.acpi /\ host.board = "late")
    /\ kernel = 1 /\ kos = {} /\ dkms = {} /\ blacklisted = {} /\ loadConf = {}
    /\ mods = SelfLoading
    /\ grubFile = FALSE /\ grubCfg = FALSE /\ plan = <<>> /\ stage = "idle" /\ probing = <<>>
    /\ owed = {} /\ gap = FALSE /\ boots = 0 /\ installFaults = 0

-----------------------------------------------------------------------------
(* AutoloadModules, when the package is installed or upgraded. *)

\* The hwdb's modules, those of sensors-detect, those of the kernel's directory.
Lists == {<<h, d, <<Shadow, Plain>>>> : h \in {<<>>, <<Shadow>>, <<Plain>>},
                                        d \in {<<Shadow>>, <<Plain>>}}

\* Mutant of PersistVisible: any PWM file will do.
PersistShown == Shows(mods)

\* The fast path looks for PWM that can be controlled.
PersistVisible == Controllable(mods)

\* moduleFromPath
Owner == IF Controllable(mods) THEN host.control ELSE Shadow

\* persistModule, whose failure is only logged.
PersistModule(m) ==
    \/ loadConf' = loadConf \cup {m} /\ UNCHANGED installFaults
    \/ Fault /\ UNCHANGED loadConf

ProbeBegins ==
    /\ stage = "idle" /\ probing = <<>>
    /\ IF PersistVisible THEN PersistModule(Owner) /\ UNCHANGED probing
       ELSE probing' \in Lists /\ UNCHANGED <<loadConf, installFaults>>
    /\ UNCHANGED <<host, kernel, mods, kos, dkms, blacklisted, grubFile, grubCfg, plan, stage,
                   owed, gap, boots>>

\* Read-only PWM after sensors-detect's modules ends the probe.
NextList(L) ==
    probing' = IF Len(probing) = 2 /\ Shows(L) THEN <<>> ELSE Tail(probing)

\* tryModuleCandidates on the next module: it shows nothing and goes out
\* again; what shows is read-only, and this list ends; or it controls.
ProbeNext ==
    /\ probing # <<>>
    /\ LET now == Head(probing)
           L == mods \cup {Head(now)}
       IN \/ now = <<>> /\ NextList(mods) /\ UNCHANGED <<mods, loadConf, installFaults>>
          \/ /\ now # <<>> /\ ~Shows(L)
             /\ mods' = mods \ {Head(now)} /\ probing' = [probing EXCEPT ![1] = Tail(now)]
             /\ UNCHANGED <<loadConf, installFaults>>
          \/ /\ now # <<>> /\ Shows(L) /\ ~Controllable(L)
             /\ mods' = L /\ NextList(L) /\ UNCHANGED <<loadConf, installFaults>>
          \/ /\ now # <<>> /\ Controllable(L)
             /\ mods' = L /\ probing' = <<>> /\ PersistModule(Head(now))
    /\ UNCHANGED <<host, kernel, kos, dkms, blacklisted, grubFile, grubCfg, plan, stage, owed,
                   gap, boots>>

-----------------------------------------------------------------------------
(* The wizard's plan. *)

\* identifyDriverNeeds and the proposals by DMI: the name that Shadow shows,
\* the board's name, its vendor, its system's vendor.
Needs ==
    LET shown == Shadow \in mods IN
    CASE host.board = "named" -> <<Right>>
      [] host.board = "both" -> IF shown THEN <<Right, Wrong>> ELSE <<Wrong>>
      [] host.board = "late" -> IF shown THEN <<Right>> ELSE <<Wrong, Right>>
      [] host.board = "shown" -> IF shown THEN <<Right>> ELSE <<Wrong>>

PlanDriver ==
    /\ stage = "idle" /\ probing = <<>> /\ ~Controllable(mods) /\ host.control = Right
    /\ plan' = Needs /\ stage' = "build"
    /\ UNCHANGED <<host, kernel, mods, kos, dkms, blacklisted, loadConf, grubFile, grubCfg,
                   probing, owed, gap, boots, installFaults>>

m0 == Head(plan)

\* The candidate failed: the next one is tried, this one stays as it is.
NextCandidate == plan' = Tail(plan) /\ stage' = IF Len(plan) = 1 THEN "idle" ELSE "build"

Ends == plan' = <<>> /\ stage' = "idle"
Goes(s) == stage' = s /\ UNCHANGED plan

-----------------------------------------------------------------------------
(* RunPipeline. *)

\* Tools, headers, download, make, signing, a copy, depmod, or a modprobe the
\* kernel refuses for another reason: one of them fails.
StepFails ==
    /\ stage \in {"build", "copy", "depmod", "modprobe"} /\ Fault /\ NextCandidate
    /\ mods' = IF stage = "modprobe" THEN mods \ {m0} ELSE mods
    /\ UNCHANGED <<host, kernel, kos, dkms, blacklisted, loadConf, grubFile, grubCfg, probing,
                   owed, gap, boots>>

Build ==
    /\ stage = "build" /\ Goes("copy")
    /\ UNCHANGED <<host, kernel, mods, kos, dkms, blacklisted, loadConf, grubFile, grubCfg,
                   probing, owed, gap, boots, installFaults>>

CopyModule ==
    /\ stage = "copy" /\ Goes("depmod") /\ kos' = kos \cup {<<m0, kernel>>}
    /\ UNCHANGED <<host, kernel, mods, dkms, blacklisted, loadConf, grubFile, grubCfg, probing,
                   owed, gap, boots, installFaults>>

\* depmod; what DKMS had of this version goes first ...
Depmod ==
    /\ stage = "depmod" /\ Goes("dkms") /\ dkms' \in {dkms, dkms \ {m0}}
    /\ UNCHANGED <<host, kernel, mods, kos, blacklisted, loadConf, grubFile, grubCfg, probing,
                   owed, gap, boots, installFaults>>

\* ... and what cannot be registered again is only logged.
RegisterDKMS ==
    /\ stage = "dkms" /\ Goes("modprobe")
    /\ \/ dkms' = dkms \cup {m0} /\ UNCHANGED installFaults
       \/ Fault /\ UNCHANGED dkms
    /\ UNCHANGED <<host, kernel, mods, kos, blacklisted, loadConf, grubFile, grubCfg, probing,
                   owed, gap, boots>>

\* The module loads, or the kernel keeps it out.
Modprobe ==
    /\ stage = "modprobe"
    /\ ~(Busy(m0) /\ ~grubCfg) /\ ~Kept(m0, mods)
    /\ mods' = mods \cup {m0} /\ Goes("verify")
    /\ UNCHANGED <<host, kernel, kos, dkms, blacklisted, loadConf, grubFile, grubCfg, probing,
                   owed, gap, boots, installFaults>>

\* The ports are ACPI's: the parameter goes into the bootloader's file, which
\* is rendered unless it was in there, and a reboot is asked for.
ModprobeBusy ==
    /\ stage = "modprobe" /\ Busy(m0) /\ ~grubCfg
    /\ mods' = mods \ {m0} /\ grubFile' = TRUE /\ Ends
    /\ \/ grubCfg' = ~grubFile /\ UNCHANGED installFaults
       \/ ~grubFile /\ Fault /\ UNCHANGED grubCfg
    /\ UNCHANGED <<host, kernel, kos, dkms, blacklisted, loadConf, probing, owed, gap, boots>>

\* unloadAndBlacklistModule's first half, which may find the module busy.
Unloads(from, to) ==
    /\ stage = from /\ Goes(to)
    /\ \/ mods' = mods \ {Shadow} /\ UNCHANGED installFaults
       \/ Fault /\ UNCHANGED mods
    /\ UNCHANGED <<host, kernel, kos, dkms, blacklisted, loadConf, grubFile, grubCfg, probing,
                   owed, gap, boots>>

\* "Operation not permitted": Shadow holds the chip.
ModprobeRefused ==
    /\ Unloads("modprobe", "blacklist") /\ ~(Busy(m0) /\ ~grubCfg) /\ Kept(m0, mods)

\* The second half, whose failure is only logged.
Blacklists(from, to) ==
    /\ stage = from /\ Goes(to)
    /\ \/ blacklisted' = blacklisted \cup {Shadow} /\ UNCHANGED <<installFaults, gap>>
       \/ Fault /\ gap' = TRUE /\ UNCHANGED blacklisted
    /\ UNCHANGED <<host, kernel, mods, kos, dkms, loadConf, grubFile, grubCfg, probing, owed,
                   boots>>

BlacklistRival == Blacklists("blacklist", "retry")

ModprobeAgain ==
    /\ stage = "retry"
    /\ IF Kept(m0, mods) THEN NextCandidate /\ UNCHANGED mods
       ELSE mods' = mods \cup {m0} /\ Goes("verify")
    /\ UNCHANGED <<host, kernel, kos, dkms, blacklisted, loadConf, grubFile, grubCfg, probing,
                   owed, gap, boots, installFaults>>

\* Mutant of Verified: the step of 0.8 that followed persist.
VerifiedLater == TRUE

\* A channel that can be controlled has appeared.
Verified == Controllable(mods)

Verify ==
    /\ stage = "verify"
    /\ IF Verified THEN Goes("sweep") ELSE NextCandidate
    /\ UNCHANGED <<host, kernel, mods, kos, dkms, blacklisted, loadConf, grubFile, grubCfg,
                   probing, owed, gap, boots, installFaults>>

\* Mutant of Superseded: a rival that let the module in is left alone.
SupersededNever == FALSE

\* A rival that let the module in is still there.
Superseded == Shadow \in mods

SweepNothing ==
    /\ stage = "sweep" /\ ~Superseded /\ Goes("persist")
    /\ UNCHANGED <<host, kernel, mods, kos, dkms, blacklisted, loadConf, grubFile, grubCfg,
                   probing, owed, gap, boots, installFaults>>

SweepRival == Superseded /\ Unloads("sweep", "forbid")
ForbidRival == Blacklists("forbid", "persist")

\* The driver is installed, whether or not the next boot will load it.
Persist ==
    /\ stage = "persist" /\ Ends
    /\ \/ loadConf' = loadConf \cup {m0} /\ owed' = owed \cup {m0} /\ UNCHANGED installFaults
       \/ Fault /\ UNCHANGED <<loadConf, owed>>
    /\ UNCHANGED <<host, kernel, mods, kos, dkms, blacklisted, grubFile, grubCfg, probing, gap,
                   boots>>

-----------------------------------------------------------------------------
\* Mutant of Spared: the files of a loaded module go too.
SparedNever(m) == FALSE

\* A loaded module keeps its file and its line.
Spared(m) == m \in mods

\* CleanupOrphanInstall, from a reset; DKMS is asked by the module's name,
\* which may not be the package's.
Cleanup(m) ==
    /\ stage = "idle" /\ probing = <<>>
    /\ kos' = IF Spared(m) THEN kos ELSE kos \ {<<m, kernel>>}
    /\ loadConf' = IF Spared(m) THEN loadConf ELSE loadConf \ {m}
    /\ dkms' \in {dkms, dkms \ {m}}
    /\ owed' = IF m \in mods /\ <<m, kernel>> \in kos THEN owed ELSE owed \ {m}
    /\ UNCHANGED <<host, kernel, mods, blacklisted, grubFile, grubCfg, plan, stage, probing,
                   gap, boots, installFaults>>

Killing == boots < MaxBoots /\ boots' = boots + 1

\* The daemon dies in the pipeline.
InstallerDies ==
    /\ stage # "idle" /\ Killing /\ Ends
    /\ gap' = (gap \/ stage \in {"blacklist", "forbid"})
    /\ UNCHANGED <<host, kernel, mods, kos, dkms, blacklisted, loadConf, grubFile, grubCfg,
                   probing, owed, installFaults>>

\* The host boots, perhaps a new kernel, for which DKMS has built what it
\* can; what it has not is not owed there.
NewKernel ==
    /\ kernel < MaxKernel /\ kernel' = kernel + 1
    /\ \/ UNCHANGED <<dkms, installFaults>>
       \/ Fault /\ \E m \in dkms : dkms' = dkms \ {m}
    /\ owed' = owed \cap dkms'

SameKernel == UNCHANGED <<kernel, dkms, installFaults, owed>>

HostBoots ==
    /\ Killing
    /\ UNCHANGED <<host, kos, blacklisted, loadConf, grubFile, grubCfg>>
    /\ SameKernel \/ NewKernel
    /\ mods' = BootSet'
    /\ plan' = <<>> /\ stage' = "idle" /\ probing' = <<>>
    /\ gap' = (gap \/ stage \in {"blacklist", "forbid"})

DriverNext ==
    \/ ProbeBegins \/ ProbeNext \/ PlanDriver
    \/ StepFails \/ Build \/ CopyModule \/ Depmod \/ RegisterDKMS
    \/ Modprobe \/ ModprobeBusy \/ ModprobeRefused \/ BlacklistRival \/ ModprobeAgain
    \/ Verify \/ SweepNothing \/ SweepRival \/ ForbidRival \/ Persist
    \/ \E m \in OutOfTree : Cleanup(m)
    \/ InstallerDies
    \/ HostBoots

-----------------------------------------------------------------------------
\* A driver the wizard reported as installed, and wrote down, controls the fans
\* again after any reboot and alone, whatever came between: failed attempts,
\* resets, other candidates, a new kernel that DKMS built it for.
InstalledLasts ==
    (Right \in owed /\ ~gap) => Controllable(BootSet) /\ Shadow \notin BootSet

\* No boot is told to load a module that does not control the fans
\* (install_steps.go:175-180, autoload.go:346-354).
BootsOnlyControlling == loadConf \subseteq {host.control}

DriverLasts == InstalledLasts /\ BootsOnlyControlling
=============================================================================
