------------------------------ MODULE Watchdog ------------------------------
(***************************************************************************)
(* The hardware watchdog of internal/watchdog: the registry of restore     *)
(* baselines that every writer of a fan channel (daemon start-up,          *)
(* calibration sweeps, the polarity probe) pushes to and pops from, the    *)
(* persistent store of last-known-good pwm_enable values behind it, and    *)
(* the parallel, budgeted RestoreCtx that every exit path runs.            *)
(*                                                                         *)
(* This module is the component under any legal sequence of calls, with    *)
(* the environment it is written for: writers that take channels to manual *)
(* mode, firmware that takes them back, I/O faults, and the death of the   *)
(* process, which loses the registry and keeps the chips and the store.    *)
(***************************************************************************)
EXTENDS PwmEnable, SequencesExt

CONSTANTS
    Device,       \* what identifies a channel's hardware, see HardwareID
    FirmwareMode, \* modes a BIOS puts a channel in on its own
    Faulty,       \* channels whose I/O can start and stop failing
    Caller,       \* callers of Restore in one process: main, the controllers
    MaxEntries    \* bound on the registry, for TLC

ASSUME DeviceAssumption == DOMAIN Device = Channel
ASSUME FirmwareAssumption == FirmwareMode \subseteq Mode \ {Manual}
ASSUME FaultyAssumption == Faulty \subseteq Channel
ASSUME MaxEntriesAssumption == MaxEntries \in Nat

VARIABLES
    entries,      \* Watchdog.entries: a stack per path inside one slice
    store,        \* the LastKnownStore, persistent
    enable,       \* the pwm_enable register of every channel
    duty,         \* who chose the duty byte of every channel
    io,           \* what sysfs writes to a channel do now
    call,         \* call[r]: the RestoreCtx call of caller r
    seen          \* history: register values chip c has reported or accepted

(***************************************************************************)
(* The store key.  Device[c] holds the chip name, the pwm index, and the   *)
(* base name of the device link split at its last dot: stem and suffix.    *)
(* resolveChannelIdentity keeps only a suffix made of digits (the address  *)
(* of a platform device, nct6687.2592) and the whole base name otherwise.  *)
(***************************************************************************)
BusAddr(d) == IF d.digits THEN <<d.suffix>> ELSE <<d.stem, d.suffix>>

\* Mutant of KeyOf: the channels of a chip share a key.
KeyOfChip(c) == <<Device[c].chip, BusAddr(Device[c])>>

KeyOf(c) == <<Device[c].chip, BusAddr(Device[c]), Device[c].index>>
Key == {KeyOf(c) : c \in Channel}

vars == <<entries, store, enable, duty, io, call, seen>>
registry == <<entries, call>>
chip == <<enable, duty, io, seen>>

Entry == [path : Channel, orig : Mode \cup {Unknown}, fallback : BOOLEAN]

\* left: goroutines not finished; incomplete: the map RestoreCtx reports from;
\* abandoned: the channels it named when the budget ran out.
NoCall == [open |-> "idle", snap |-> << >>, left |-> {}, incomplete |-> {},
           abandoned |-> {}]

Call == [open : {"idle", "waiting", "returned"}, snap : Seq(Entry),
         left : SUBSET Nat, incomplete : SUBSET Channel,
         abandoned : SUBSET Channel]

TypeOK ==
    /\ entries \in Seq(Entry)
    /\ store \in [Key -> Mode \cup {Unknown}]
    /\ enable \in [Channel -> Mode]
    /\ duty \in [Channel -> Duty]
    /\ io \in [Channel -> IoOutcome]
    /\ call \in [Caller -> Call]
    /\ \A r \in Caller : call[r].left \subseteq DOMAIN call[r].snap
    /\ seen \in [Channel -> SUBSET Mode]

\* First boot of a machine: nothing stored, every channel in the mode the BIOS
\* left it in, manual included.
Init ==
    /\ entries = << >>
    /\ store = [k \in Key |-> Unknown]
    /\ enable \in [Channel -> FirmwareMode \cup {Manual}]
    /\ duty = [c \in Channel |-> "firmware"]
    /\ io = [c \in Channel |-> "ok"]
    /\ call = [r \in Caller |-> NoCall]
    /\ seen = [c \in Channel |-> {enable[c]}]

-----------------------------------------------------------------------------
(* The registry.                                                           *)

\* The index of the most recent entry for c, 0 when there is none.
Top(c) == LET own == {i \in DOMAIN entries : entries[i].path = c}
          IN  IF own = {} THEN 0 ELSE CHOOSE i \in own : \A j \in own : j <= i

\* The register as readPWMEnableWithDeadline returns it.
LiveEnable(c, readOk) ==
    IF c \in EnablePath /\ readOk THEN enable[c] ELSE Unknown

Save(k, v, saved) ==
    store' = IF saved /\ v # Unknown THEN [store EXCEPT ![k] = v] ELSE store

\* Register: read the register, decide the baseline, persist a legitimate
\* capture, push.  readOk: the read beat the deadline.  saved: the store took
\* the write (a failure is logged and ignored).
Register(c, readOk, saved) ==
    LET got == Capture(LiveEnable(c, readOk), store[KeyOf(c)])
    IN  /\ entries' = Append(entries, [path |-> c, orig |-> got.orig,
                                       fallback |-> got.fallback])
        /\ Save(KeyOf(c), got.persist, saved)
        /\ UNCHANGED <<chip, call>>

\* Mutant of Deregister: every entry of the path goes.
DeregisterAll(c) ==
    /\ entries' = SelectSeq(entries, LAMBDA e : e.path # c)
    /\ UNCHANGED <<store, chip, call>>

\* Deregister pops the most recent entry of the path, and is a no-op when
\* there is none.
Deregister(c) ==
    /\ entries' = IF Top(c) = 0 THEN entries ELSE RemoveAt(entries, Top(c))
    /\ UNCHANGED <<store, chip, call>>

-----------------------------------------------------------------------------
(* Restoring.                                                              *)

\* One entry handed to its backend, with the winner of a fallback walk
\* written back to the store.
RestoreEntryEffect(e, saved) ==
    LET c == e.path
        out == RestoreEffect(c, e, enable[c], duty[c], io[c])
    IN  /\ enable' = [enable EXCEPT ![c] = out.enable]
        /\ duty' = [duty EXCEPT ![c] = out.duty]
        /\ seen' = [seen EXCEPT ![c] = @ \cup {out.enable}]
        /\ Save(KeyOf(c), out.persist, saved)
        /\ UNCHANGED io

\* RestoreOne: the most recent entry of c, on the caller's goroutine.
RestoreOne(c, saved) ==
    /\ IF Top(c) = 0
         THEN UNCHANGED <<store, chip>>
         ELSE RestoreEntryEffect(entries[Top(c)], saved)
    /\ UNCHANGED <<entries, call>>

\* RestoreCtx snapshots the registry and starts one goroutine per entry.
RestoreCall(r) ==
    /\ call[r].open = "idle"
    /\ call' = [call EXCEPT ![r] =
                  IF entries = << >>
                    THEN [NoCall EXCEPT !.open = "returned"]
                    ELSE [open |-> "waiting", snap |-> entries,
                          left |-> DOMAIN entries,
                          incomplete |-> {entries[i].path : i \in DOMAIN entries},
                          abandoned |-> {}]]
    /\ UNCHANGED <<entries, store, chip>>

\* Mutant of Finish: the goroutine does not report its completion.
FinishSilently(r, i) == call' = [call EXCEPT ![r].left = @ \ {i}]

Finish(r, i) ==
    call' = [call EXCEPT ![r].left = @ \ {i},
                         ![r].incomplete = @ \ {call[r].snap[i].path}]

\* Goroutine i restores its entry.  A syscall in flight when the budget ran
\* out completes later all the same.
RestoreEntry(r, i, saved) ==
    /\ i \in call[r].left
    /\ RestoreEntryEffect(call[r].snap[i], saved)
    /\ Finish(r, i)
    /\ UNCHANGED entries

\* Goroutine i found the context cancelled before its backend call.
RestoreSkip(r, i) ==
    /\ i \in call[r].left
    /\ call[r].open = "returned"
    /\ Finish(r, i)
    /\ UNCHANGED <<entries, store, chip>>

RestoreDone(r) ==
    /\ call[r].open = "waiting"
    /\ call[r].left = {}
    /\ call' = [call EXCEPT ![r].open = "returned"]
    /\ UNCHANGED <<entries, store, chip>>

\* Budget and grace period over with goroutines still in flight.
RestoreDeadline(r) ==
    /\ call[r].open = "waiting"
    /\ call[r].left # {}
    /\ call' = [call EXCEPT ![r].open = "returned",
                            ![r].abandoned = call[r].incomplete]
    /\ UNCHANGED <<entries, store, chip>>

-----------------------------------------------------------------------------
(* The environment.                                                        *)

\* A writer (controller, sweep) takes the channel: manual mode where there is
\* a mode, and a duty byte.
TakeManual(c) ==
    /\ io[c] = "ok"
    /\ enable' = [enable EXCEPT ![c] =
                    IF c \in EnablePath \cup Vendor THEN Manual ELSE @]
    /\ duty' = [duty EXCEPT ![c] = "driven"]
    /\ seen' = [seen EXCEPT ![c] = @ \cup {enable'[c]}]
    /\ UNCHANGED <<entries, store, io, call>>

\* A writer that leaves the enable file alone (the polarity probe).
WriteDuty(c) ==
    /\ io[c] # "all_fail"
    /\ duty' = [duty EXCEPT ![c] = "driven"]
    /\ UNCHANGED <<entries, store, enable, io, call, seen>>

\* The BIOS reasserts its own mode (Q-Fan, resume from suspend).
FirmwareReasserts(c, m) ==
    /\ c \in EnablePath
    /\ enable' = [enable EXCEPT ![c] = m]
    /\ duty' = [duty EXCEPT ![c] = "firmware"]
    /\ seen' = [seen EXCEPT ![c] = @ \cup {m}]
    /\ UNCHANGED <<entries, store, io, call>>

IoChanges(c, o) ==
    /\ io' = [io EXCEPT ![c] = o]
    /\ UNCHANGED <<entries, store, enable, duty, call, seen>>

\* SIGKILL, OOM, power loss, or the end of main: the registry and every
\* goroutine are gone, the chips and the store stay.
ProcessDies ==
    /\ entries' = << >>
    /\ call' = [r \in Caller |-> NoCall]
    /\ UNCHANGED <<store, chip>>

\* ventd-recover (or the start-up reconciliation) on one channel.
RecoverChannel(c) ==
    LET v == HandBack(c, enable[c], io[c])
    IN  /\ c \in EnablePath
        /\ enable' = [enable EXCEPT ![c] = v]
        /\ seen' = [seen EXCEPT ![c] = @ \cup {v}]
        /\ UNCHANGED <<entries, store, duty, io, call>>

Next ==
    \/ \E c \in Channel, readOk, saved \in BOOLEAN :
          Len(entries) < MaxEntries /\ Register(c, readOk, saved)
    \/ \E c \in Channel : Deregister(c)
    \/ \E c \in Channel, saved \in BOOLEAN : RestoreOne(c, saved)
    \/ \E r \in Caller : RestoreCall(r)
    \/ \E r \in Caller, saved \in BOOLEAN :
          \E i \in call[r].left : RestoreEntry(r, i, saved)
    \/ \E r \in Caller : \E i \in call[r].left : RestoreSkip(r, i)
    \/ \E r \in Caller : RestoreDone(r) \/ RestoreDeadline(r)
    \/ \E c \in Channel : TakeManual(c) \/ WriteDuty(c)
    \/ \E c \in Channel, m \in FirmwareMode : FirmwareReasserts(c, m)
    \/ \E c \in Faulty, o \in IoOutcome : IoChanges(c, o)
    \/ \E c \in Channel : RecoverChannel(c)
    \/ ProcessDies

Spec == Init /\ [][Next]_vars

-----------------------------------------------------------------------------
(* Properties.                                                             *)

Baselines == Range(entries) \cup UNION {Range(call[r].snap) : r \in Caller}

\* No restore baseline and no persisted value is manual mode: whatever the
\* order of registrations, crashes, failed reads and failed saves, an exit
\* path never restores a fan to the mode that pins it at a dead daemon's last
\* duty byte (RULE-WD-PRIOR-CRASH-FALLBACK).
NoManualBaseline ==
    /\ \A e \in Baselines : e.orig # Manual
    /\ \A k \in Key : store[k] # Manual

\* A baseline that claims to be authoritative, and a persisted value, are
\* modes this very chip once reported or accepted, never another channel's:
\* the store is read back only for the channel that wrote it.
OwnBaseline ==
    /\ \A e \in Baselines :
          e.fallback \/ e.orig = Unknown \/ e.orig \in seen[e.path]
    /\ \A c \in Channel : store[KeyOf(c)] \in seen[c] \cup {Unknown}

\* A restore that ran within its budget leaves no fan held at a ventd duty
\* byte, in whichever step the chip's writes failed, unless nothing could be
\* written or the chip takes none of the values the baseline allows.
RestoredIn(e, before) ==
    LET c == e.path
    IN  \/ ~Held(c, enable'[c], duty'[c])
        \/ Unrestorable(c, e)
        \/ before = "all_fail"
        \/ before = "enable_fails" /\ c \in Vendor

RestoreHandsBack ==
    [][\A r \in Caller :
         call[r].open = "waiting" /\ call'[r].open = "waiting" =>
           \A i \in call[r].left \ call'[r].left :
              RestoredIn(call[r].snap[i], io[call[r].snap[i].path])]_vars

StillInFlight(r) == {call[r].snap[i].path : i \in call[r].left}

NoDuplicates(r) ==
    \A i, j \in DOMAIN call[r].snap :
        call[r].snap[i].path = call[r].snap[j].path => i = j

\* When the budget runs out, RestoreCtx names exactly the channels whose
\* goroutines are still in flight, provided no path is registered twice.
AbandonedAreNamed ==
    [][\A r \in Caller :
         call[r].open = "waiting" /\ call'[r].open = "returned" /\ NoDuplicates(r)
           => call'[r].abandoned = StillInFlight(r)]_vars
=============================================================================
