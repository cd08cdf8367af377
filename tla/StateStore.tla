----------------------------- MODULE StateStore -----------------------------
(***************************************************************************)
(* internal/state: the PID file that keeps a second process away from the  *)
(* state directory, and the key-value store whose every change rewrites    *)
(* state.yaml through a temporary file.  A process can die, and the power  *)
(* can fail, between any two steps; what a power failure leaves of a file  *)
(* that was renamed but not yet synced with its directory is either of its *)
(* contents.                                                               *)
(*                                                                         *)
(* The store holds a pair of keys that only transactions change, both at   *)
(* once, and a key that Set changes alone; values grow.                    *)
(***************************************************************************)
EXTENDS Integers, FiniteSets

CONSTANTS Starters,       \* processes: the daemon, ventd -setup
          MaxValue,       \* bound: writes of a key
          MaxKills,       \* bound: processes that die, power failures
          MaxStoreFaults  \* bound: writes and chmods that fail, closures that give up

ASSUME StoreAssumption ==
    /\ IsFiniteSet(Starters) /\ "none" \notin Starters
    /\ {MaxValue, MaxKills, MaxStoreFaults} \subseteq Nat

VARIABLES
    version,    \* the version sentinel
    pid,        \* ventd.pid: whose, or NoPid
    proc,       \* process -> where it is
    kv,         \* process -> db.data
    prev,       \* process -> WithTransaction's prev
    file,       \* state.yaml, as programs see it
    lasting,    \* what a power failure can leave of it
    promised,      \* history: the last values whose write returned no error
    mingled,    \* history: a process began to start while another was starting
    kills, storeFaults

ssVars == <<version, pid, proc, kv, prev, file, lasting, promised, mingled, kills, storeFaults>>

NoPid == "none"
CurrentVersion == 2
Data == [a : 0 .. MaxValue, b : 0 .. MaxValue, alone : 0 .. MaxValue]
Empty == [a |-> 0, b |-> 0, alone |-> 0]
TornFile == [a |-> -1, b |-> -1, alone |-> -1]

Running == {"open", "saving", "renamed", "moded"}

StoreTypeOK ==
    /\ version \in 0 .. CurrentVersion + 1 /\ pid \in Starters \cup {NoPid}
    /\ proc \in [Starters -> {"off", "stale", "claim", "owner"} \cup Running]
    /\ kv \in [Starters -> Data] /\ prev \in [Starters -> SUBSET Data]
    /\ file \in Data \cup {TornFile} /\ lasting \subseteq Data \cup {TornFile} /\ lasting # {}
    /\ promised \in Data /\ mingled \in BOOLEAN
    /\ kills \in 0 .. MaxKills /\ storeFaults \in 0 .. MaxStoreFaults

StoreInit ==
    /\ version \in 0 .. CurrentVersion + 1 /\ pid = NoPid
    /\ proc = [p \in Starters |-> "off"]
    /\ kv = [p \in Starters |-> Empty] /\ prev = [p \in Starters |-> {}]
    /\ file = Empty /\ lasting = {Empty} /\ promised = Empty /\ mingled = FALSE
    /\ kills = 0 /\ storeFaults = 0

-----------------------------------------------------------------------------
(* AcquirePID. *)

Alive(p) == proc[p] # "off"
Starting(p) == proc[p] \in {"stale", "claim"}
At(p, s) == proc' = [proc EXCEPT ![p] = s]

Holds(p) == proc[p] \in {"owner"} \cup Running

\* The process that wrote the file is alive (its next life has another PID).
Owned == pid # NoPid /\ Holds(pid)

\* The file is read; a live owner turns the starter away.
ReadPid(p) ==
    /\ proc[p] = "off" /\ ~Owned
    /\ At(p, IF pid = NoPid THEN "claim" ELSE "stale")
    /\ mingled' = (mingled \/ \E q \in Starters : Starting(q))
    /\ UNCHANGED <<version, pid, kv, prev, file, lasting, promised, kills, storeFaults>>

\* A stale one is removed, whosever it is by then ...
RemoveStale(p) ==
    /\ proc[p] = "stale" /\ pid' = NoPid /\ At(p, "claim")
    /\ UNCHANGED <<version, kv, prev, file, lasting, promised, mingled, kills, storeFaults>>

\* ... and its own is written, over what is there.
WritePid(p) ==
    /\ proc[p] = "claim" /\ pid' = p /\ At(p, "owner")
    /\ UNCHANGED <<version, kv, prev, file, lasting, promised, mingled, kills, storeFaults>>

-----------------------------------------------------------------------------
(* Open. *)

Refuses == version > CurrentVersion \/ file = TornFile

\* CheckVersion and openKV, which trust the version or leave.
OpenState(p) ==
    /\ proc[p] = "owner"
    /\ IF Refuses
         THEN At(p, "off") /\ pid' = NoPid /\ UNCHANGED <<version, kv>>
         ELSE At(p, "open") /\ version' = CurrentVersion /\ kv' = [kv EXCEPT ![p] = file] /\ UNCHANGED pid
    /\ UNCHANGED <<prev, file, lasting, promised, mingled, kills, storeFaults>>

\* Close and the release of the PID file, whosever it is.
CloseState(p) ==
    /\ proc[p] = "open" /\ At(p, "off") /\ pid' = NoPid
    /\ UNCHANGED <<version, kv, prev, file, lasting, promised, mingled, kills, storeFaults>>

-----------------------------------------------------------------------------
(* Set, WithTransaction and persist, under db.mu. *)

StoreFault == storeFaults < MaxStoreFaults /\ storeFaults' = storeFaults + 1

Paired(d) == [d EXCEPT !.a = @ + 1, !.b = @ + 1]

SetAlone(p) ==
    /\ proc[p] = "open" /\ kv[p].alone < MaxValue
    /\ kv' = [kv EXCEPT ![p].alone = @ + 1] /\ At(p, "saving")
    /\ UNCHANGED <<version, pid, prev, file, lasting, promised, mingled, kills, storeFaults>>

\* The closure works on a copy that becomes the data ...
Commit(p) ==
    /\ proc[p] = "open" /\ kv[p].a < MaxValue
    /\ prev' = [prev EXCEPT ![p] = {kv[p]}]
    /\ kv' = [kv EXCEPT ![p] = Paired(@)] /\ At(p, "saving")
    /\ UNCHANGED <<version, pid, file, lasting, promised, mingled, kills, storeFaults>>

\* Mutant of AfterGivingUp: the closure's map is the store's own.
HalfDone(d) == [d EXCEPT !.a = @ + 1]

\* What is left of a closure that fails between its two keys: kvDeepCopy.
AfterGivingUp(d) == d

GiveUp(p) ==
    /\ proc[p] = "open" /\ kv[p].a < MaxValue /\ StoreFault
    /\ kv' = [kv EXCEPT ![p] = AfterGivingUp(@)]
    /\ UNCHANGED <<version, pid, proc, prev, file, lasting, promised, mingled, kills>>

\* Mutant of Remains: no fsync of the temporary file before the rename.
RemainsUnsynced(d) == {d, TornFile}

\* What a power failure leaves of a temporary file.
Remains(d) == {d}

\* The temporary file is written, synced and renamed.
RenameTemp(p) ==
    /\ proc[p] = "saving" /\ At(p, "renamed")
    /\ file' = kv[p] /\ lasting' = lasting \cup Remains(kv[p])
    /\ UNCHANGED <<version, pid, kv, prev, promised, mingled, kills, storeFaults>>

\* An error returns to the caller: a transaction takes its data back, Set
\* does not.
RolledBack(p) ==
    /\ kv' = [kv EXCEPT ![p] = IF prev[p] = {} THEN @ ELSE CHOOSE d \in prev[p] : TRUE]
    /\ prev' = [prev EXCEPT ![p] = {}] /\ At(p, "open")

WriteFails(p) ==
    /\ proc[p] = "saving" /\ StoreFault /\ RolledBack(p)
    /\ UNCHANGED <<version, pid, file, lasting, promised, mingled, kills>>

Chmod(p) ==
    /\ proc[p] = "renamed" /\ At(p, "moded")
    /\ UNCHANGED <<version, pid, kv, prev, file, lasting, promised, mingled, kills, storeFaults>>

\* ... and its failure after the rename is an error like another.
ChmodFails(p) ==
    /\ proc[p] = "renamed" /\ StoreFault /\ RolledBack(p)
    /\ UNCHANGED <<version, pid, file, lasting, promised, mingled, kills>>

\* Mutant of Synced: no fsync of the directory.
SyncedLater == lasting

\* What can be left once the directory is synced.
Synced == {file}

\* The fsync of the directory, and the write is acknowledged.
Acknowledge(p) ==
    /\ proc[p] = "moded" /\ At(p, "open")
    /\ lasting' = Synced /\ promised' = kv[p]
    /\ prev' = [prev EXCEPT ![p] = {}]
    /\ UNCHANGED <<version, pid, kv, file, mingled, kills, storeFaults>>

-----------------------------------------------------------------------------
Killed == kills < MaxKills /\ kills' = kills + 1 /\ UNCHANGED <<version, pid, promised, storeFaults>>

\* A process dies; its PID file stays.
StoreHolderDies(p) ==
    /\ Alive(p) /\ Killed /\ At(p, "off")
    /\ prev' = [prev EXCEPT ![p] = {}]
    /\ UNCHANGED <<kv, file, lasting, mingled>>

\* Every process dies, and of the file what was lasting is there.
PowerFails ==
    /\ Killed
    /\ proc' = [p \in Starters |-> "off"] /\ prev' = [p \in Starters |-> {}]
    /\ file' \in lasting /\ lasting' = {file'}
    /\ UNCHANGED <<kv, mingled>>

StoreNext ==
    \/ \E p \in Starters :
         \/ ReadPid(p) \/ RemoveStale(p) \/ WritePid(p) \/ OpenState(p) \/ CloseState(p)
         \/ SetAlone(p) \/ Commit(p) \/ GiveUp(p)
         \/ RenameTemp(p) \/ WriteFails(p) \/ Chmod(p) \/ ChmodFails(p) \/ Acknowledge(p)
         \/ StoreHolderDies(p)
    \/ PowerFails

-----------------------------------------------------------------------------
\* Unless two processes were inside AcquirePID at once, one process at most
\* holds the directory (RULE-STATE-06), through deaths and stale PID files.
OneOwner ==
    ~mingled => Cardinality({p \in Starters : Holds(p)}) <= 1

\* What a call reported as written is there after any death of the process
\* or of the machine (RULE-STATE-01), while OneOwner holds.
AckedLasts ==
    ~mingled => \A d \in lasting \cup {file} :
        d # TornFile /\ d.a >= promised.a /\ d.alone >= promised.alone

\* No reader, and no later process, sees half of a transaction
\* (RULE-STATE-07).
PairIsWhole ==
    \A d \in lasting \cup {file} \cup {kv[p] : p \in Starters} : d # TornFile => d.a = d.b

StoreIsSound == OneOwner /\ AckedLasts /\ PairIsWhole
=============================================================================
