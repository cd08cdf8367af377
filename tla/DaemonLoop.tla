----------------------------- MODULE DaemonLoop -----------------------------
(***************************************************************************)
(* The main loop of runDaemonInternal: one select over signals, controller *)
(* errors and reload requests, beside the web handlers that replace the    *)
(* live configuration on goroutines of their own, the controllers it       *)
(* spawns as one cohort, the kernel renumbering hwmon directories, and the *)
(* two detectors of a renumber (the uevent watcher and the swap monitor).  *)
(*                                                                         *)
(* A fan is named by its chip; a path is a hwmonN directory.  A config     *)
(* maps the fans it has to their entries.                                  *)
(***************************************************************************)
EXTENDS Integers, Sequences, SequencesExt, FiniteSets

CONSTANTS
    Fan,          \* the fans of the machine, one per chip
    Path,         \* the hwmonN directories
    Home,         \* Home[f]: where f is when the daemon starts
    Anchored,     \* fans whose entry has hwmon_device
    Named,        \* fans whose entry in the first config file has chip_name
    Startup,      \* fans with a control in the first file; {}: first boot
    Bindings,     \* the sets of fans an edit can leave controlled
    Handlers,     \* how an edit reaches the daemon, see Handler
    Fragile,      \* controllers, and Web, that can fail
    Suppress,     \* a hwmon "added" event can be dropped (rate limit, flap)
    Web, Gone, NoChip,
    MaxEdits, MaxMoves, MaxStack

\* What a writer of the config file does next: a hand edit does nothing, the
\* setup handlers request a reload, PUT stores the config, PATCH does both.
Handler == {"hand", "setup", "put", "patch"}
Stores == {"put", "patch"}
Signals == {"setup", "patch"}

ASSUME LoopAssumption ==
    /\ IsFiniteSet(Fan)
    /\ Home \in [Fan -> Path]
    /\ \A f, g \in Fan : Home[f] = Home[g] => f = g
    /\ Anchored \subseteq Fan /\ Named \subseteq Fan /\ Startup \subseteq Fan
    /\ Bindings \subseteq SUBSET Fan
    /\ Handlers \subseteq Handler
    /\ Fragile \subseteq Fan \cup {Web}
    /\ Suppress \in BOOLEAN
    /\ Gone \notin Path /\ NoChip \notin Fan /\ Web \notin Fan
    /\ MaxEdits \in Nat /\ MaxMoves \in Nat /\ MaxStack \in Nat \ {0}

VARIABLES
    sys,          \* sys[f]: the directory of f's chip, Gone without driver
    added,        \* chips whose "added" event the watcher is debouncing
    disk,         \* the config file
    live,         \* liveCfg
    edit,         \* the handler between its Save and what it does next
    main,         \* where the main loop stands
    loaded,       \* newCfg and moves of the reload in progress
    restart,      \* the token in restartCh
    sig,          \* the signal in sigCh, which holds one
    ctl,          \* the cohort, in spawn order
    web,          \* the goroutine of the web server
    errq,         \* errors in errCh
    entries,      \* entries[p]: watchdog registrations of path p
    edits, moved  \* counters under MaxEdits and MaxMoves

machine == <<sys, added, moved>>
config == <<disk, live, edit, edits>>
loop == <<main, loaded, restart>>
cohort == <<ctl, web, errq>>
loopVars == <<machine, config, loop, cohort, sig, entries>>

Entry == [path : Path, chip : Fan \cup {NoChip}, bound : BOOLEAN]
Config == UNION {[S -> Entry] : S \in SUBSET Fan}
Move == [fan : Fan, old : Path, new : Path]
Controller == [fan : Fan, path : Path, st : {"running", "sending", "left"}]
Load == [conf : Config, moves : SUBSET Move, hup : BOOLEAN]
NoLoad == [conf |-> << >>, moves |-> {}, hup |-> FALSE]

LoopTypeOK ==
    /\ sys \in [Fan -> Path \cup {Gone}]
    /\ added \subseteq Fan
    /\ disk \in Config /\ live \in Config
    /\ edit \in Handler \cup {"none"}
    /\ main \in {"serving", "loaded", "rebinding", "stopping", "returned"}
    /\ loaded \in Load
    /\ restart \in BOOLEAN
    /\ sig \in {"none", "hup", "term"}
    /\ ctl \in Seq(Controller)
    /\ web \in {"up", "sending", "down"}
    /\ errq \in 0 .. Cardinality(Startup) + 1
    /\ entries \in [Path -> 0 .. MaxStack]
    /\ edits \in 0 .. MaxEdits /\ moved \in 0 .. MaxMoves

Bound(conf) == {f \in DOMAIN conf : conf[f].bound}

\* The cohort reconcile spawns for conf: one controller per control.
Controllers(conf) ==
    SetToSeq({[fan |-> f, path |-> conf[f].path, st |-> "running"] : f \in Bound(conf)})

-----------------------------------------------------------------------------
(* Loading a config.                                                       *)

Occupied(p) == \E f \in Fan : sys[f] = p
Occupant(p) == IF Occupied(p) THEN CHOOSE f \in Fan : sys[f] = p ELSE NoChip

\* EnrichChipName: an entry without chip_name takes the name found at its path.
Enriched(conf) ==
    [f \in DOMAIN conf |-> IF conf[f].chip # NoChip THEN conf[f]
                           ELSE [conf[f] EXCEPT !.chip = Occupant(conf[f].path)]]

\* config.Load fails when a named chip is absent, or is not the chip that
\* hwmon_device points at.
LoadFails(conf) ==
    \E f \in DOMAIN conf :
        LET chip == Enriched(conf)[f].chip
        IN  chip # NoChip /\ (sys[chip] = Gone \/ (f \in Anchored /\ chip # f))

\* Otherwise every named entry moves to where its chip is.
Anchor(conf) ==
    [f \in DOMAIN conf |->
        IF Enriched(conf)[f].chip = NoChip THEN conf[f]
        ELSE [Enriched(conf)[f] EXCEPT !.path = sys[Enriched(conf)[f].chip]]]

\* resolveHwmonPaths rebases an anchored entry whose path no longer exists.
Moves(conf) ==
    {[fan |-> f, old |-> conf[f].path, new |-> sys[f]] :
        f \in {g \in DOMAIN conf \cap Anchored :
                 ~Occupied(conf[g].path) /\ sys[g] # Gone}}

Rebased(conf) ==
    [f \in DOMAIN conf |->
        IF \E m \in Moves(conf) : m.fan = f
          THEN [conf[f] EXCEPT !.path = sys[f]] ELSE conf[f]]

-----------------------------------------------------------------------------
FirstFile == [f \in IF Startup = {} THEN {} ELSE Fan |->
                [path |-> Home[f], bound |-> f \in Startup,
                 chip |-> IF f \in Named THEN f ELSE NoChip]]

\* The daemon has started with a file: config loaded, fans registered, cohort
\* spawned.
StartedWith(file) ==
    /\ sys = Home /\ added = {} /\ moved = 0
    /\ disk = file
    /\ live = Enriched(file)
    /\ edit = "none" /\ edits = 0
    /\ main = "serving" /\ loaded = NoLoad /\ restart = FALSE
    /\ ctl = Controllers(live) /\ web = "up" /\ errq = 0
    /\ sig = "none"
    /\ entries = [p \in Path |-> IF \E f \in DOMAIN live : live[f].path = p
                                   THEN 1 ELSE 0]

LoopInit == StartedWith(FirstFile)

\* Mutant of Cap: a slot for the web server only.
CapWeb == 1

\* One slot per controller of the first config, and one for the web server.
Cap == Cardinality(Startup) + 1

-----------------------------------------------------------------------------
(* Reloading.                                                              *)

\* A reload, by restartCh or by SIGHUP, has read the file.  A failed load
\* keeps the current config.
Reads(hup) ==
    /\ main = "serving"
    /\ IF LoadFails(disk) THEN UNCHANGED <<main, loaded>>
       ELSE /\ main' = "loaded"
            /\ loaded' = IF hup THEN [conf |-> Anchor(disk), moves |-> {}, hup |-> TRUE]
                         ELSE [conf |-> Rebased(Anchor(disk)),
                               moves |-> Moves(Anchor(disk)), hup |-> FALSE]
    /\ UNCHANGED <<machine, config, cohort, entries>>

Reload == restart /\ restart' = FALSE /\ Reads(FALSE) /\ UNCHANGED sig
Hangup == sig = "hup" /\ sig' = "none" /\ Reads(TRUE) /\ UNCHANGED restart

\* Mutant of FirstControls: every reload takes the first-boot branch.
FirstControlsAlways == Bound(loaded.conf) # {}

FirstControls == Bound(live) = {} /\ Bound(loaded.conf) # {}
ControlledFanMoved == \E m \in loaded.moves : m.fan \in Bound(loaded.conf)

Push(regs, paths) ==
    [p \in Path |-> IF p \in paths /\ regs[p] < MaxStack THEN regs[p] + 1 ELSE regs[p]]

Pop(regs, paths) ==
    [p \in Path |-> IF p \in paths /\ regs[p] > 0 THEN regs[p] - 1 ELSE regs[p]]

Settle == main' = "serving" /\ loaded' = NoLoad

\* The loaded config is live.  SIGHUP stops here; so does a reload that
\* neither is the first with controls nor moved a controlled fan.
LoadStores ==
    /\ main = "loaded"
    /\ live' = loaded.conf
    /\ IF loaded.hup
         THEN Settle /\ UNCHANGED <<ctl, entries>>
       ELSE IF FirstControls
         THEN /\ Settle
              /\ ctl' = ctl \o Controllers(loaded.conf)
              /\ entries' = Push(entries, {loaded.conf[f].path : f \in DOMAIN loaded.conf})
       ELSE IF ControlledFanMoved
         THEN main' = "rebinding" /\ UNCHANGED <<loaded, ctl, entries>>
       ELSE Settle /\ UNCHANGED <<ctl, entries>>
    /\ UNCHANGED <<machine, disk, edit, edits, restart, web, errq, sig>>

AllLeft == \A i \in DOMAIN ctl : ctl[i].st = "left"

\* drainCohort has returned: the moved fans change their registrations and a
\* new cohort is spawned for the config that was loaded before the drain.
Rebound ==
    /\ main = "rebinding"
    /\ AllLeft
    /\ Settle
    /\ entries' = Push(Pop(entries, {m.old : m \in loaded.moves}),
                       {m.new : m \in loaded.moves})
    /\ ctl' = Controllers(loaded.conf)
    /\ UNCHANGED <<machine, config, restart, web, errq, sig>>

-----------------------------------------------------------------------------
(* Stopping.                                                               *)

Shut == main' = "stopping" /\ web' = IF web = "up" THEN "down" ELSE web

Terminate ==
    /\ main = "serving" /\ sig = "term"
    /\ Shut
    /\ sig' = "none"
    /\ UNCHANGED <<machine, config, loaded, restart, ctl, errq, entries>>

ReadError ==
    /\ main = "serving" /\ errq > 0
    /\ Shut
    /\ errq' = errq - 1
    /\ UNCHANGED <<machine, config, loaded, restart, ctl, sig, entries>>

\* drainCohort, then wg.Wait for the web server.
Return ==
    /\ main = "stopping" /\ AllLeft /\ web = "down"
    /\ main' = "returned"
    /\ UNCHANGED <<machine, config, loaded, restart, cohort, sig, entries>>

-----------------------------------------------------------------------------
(* The controllers and the web server.                                     *)

\* The cohort's context is cancelled.
Leave(i) ==
    /\ main \in {"rebinding", "stopping"}
    /\ ctl[i].st = "running"
    /\ ctl' = [ctl EXCEPT ![i].st = "left"]
    /\ UNCHANGED <<machine, config, loop, web, errq, sig, entries>>

\* Run returned an error (a panic, manual mode denied): it is sent on errCh.
Fail(i) ==
    /\ ctl[i].fan \in Fragile
    /\ ctl[i].st = "running"
    /\ ctl' = [ctl EXCEPT ![i].st = "sending"]
    /\ UNCHANGED <<machine, config, loop, web, errq, sig, entries>>

Send(i) ==
    /\ ctl[i].st = "sending"
    /\ errq < Cap
    /\ errq' = errq + 1
    /\ ctl' = [ctl EXCEPT ![i].st = "left"]
    /\ UNCHANGED <<machine, config, loop, web, sig, entries>>

\* ListenAndServe returned an error.
WebFails ==
    /\ Web \in Fragile
    /\ web = "up"
    /\ web' = "sending"
    /\ UNCHANGED <<machine, config, loop, ctl, errq, sig, entries>>

WebSends ==
    /\ web = "sending"
    /\ errq < Cap
    /\ errq' = errq + 1
    /\ web' = "down"
    /\ UNCHANGED <<machine, config, loop, ctl, sig, entries>>

-----------------------------------------------------------------------------
(* Edits of the configuration.                                             *)

\* The controls become those of B; a fan that was not configured is written
\* where it is.
Rewritten(base, B) ==
    [f \in {g \in Fan : g \in DOMAIN base \/ sys[g] # Gone} |->
        IF f \in DOMAIN base THEN [base[f] EXCEPT !.bound = f \in B]
        ELSE [path |-> sys[f], chip |-> NoChip, bound |-> f \in B]]

\* The file an edit leaves.  A PUT starts from the live config; a PATCH can
\* only change its curves; the setup writes a config of its own, empty in
\* monitor-only mode; config.Save fills the chip names in.
Edited(h, B) ==
    CASE h = "hand"  -> Rewritten(disk, B)
      [] h = "put"   -> Enriched(Rewritten(live, B))
      [] h = "patch" -> Enriched(live)
      [] h = "setup" -> IF B = {} THEN << >> ELSE Enriched(Rewritten(<< >>, B))

EditSaves(h, B) ==
    /\ edit = "none" /\ edits < MaxEdits
    /\ web = "up" \/ h = "hand"
    /\ h = "setup" => \A f \in B : sys[f] # Gone
    /\ disk' = Edited(h, B)
    /\ edit' = h
    /\ edits' = edits + 1
    /\ UNCHANGED <<machine, live, loop, cohort, sig, entries>>

\* The handler stores what it saved, and requests a reload, if it does so.
EditEnds ==
    /\ edit # "none"
    /\ edit' = "none"
    /\ live' = IF edit \in Stores THEN disk ELSE live
    /\ restart' = (restart \/ edit \in Signals)
    /\ UNCHANGED <<machine, disk, edits, main, loaded, cohort, sig, entries>>

\* The operator signals the process; os/signal drops what sigCh cannot hold.
SendHangup ==
    /\ main # "returned"
    /\ sig' = IF sig = "none" THEN "hup" ELSE sig
    /\ UNCHANGED <<machine, config, loop, cohort, entries>>

SendTerm ==
    /\ main # "returned"
    /\ sig' = IF sig = "none" THEN "term" ELSE sig
    /\ UNCHANGED <<machine, config, loop, cohort, entries>>

-----------------------------------------------------------------------------
(* The machine and the detectors.                                          *)

Unplug(f) ==
    /\ sys[f] # Gone /\ moved < MaxMoves
    /\ sys' = [sys EXCEPT ![f] = Gone]
    /\ added' = added \ {f}
    /\ moved' = moved + 1
    /\ UNCHANGED <<config, loop, cohort, sig, entries>>

Plug(f, p) ==
    /\ sys[f] = Gone /\ ~Occupied(p)
    /\ sys' = [sys EXCEPT ![f] = p]
    /\ added' = added \cup {f}
    /\ UNCHANGED <<moved, config, loop, cohort, sig, entries>>

\* The watcher's trigger, for a chip the live config binds.
Trigger(f) ==
    /\ f \in added
    /\ added' = added \ {f}
    /\ restart' = (restart \/ f \in DOMAIN live \cap Anchored)
    /\ UNCHANGED <<sys, moved, config, main, loaded, cohort, sig, entries>>

\* The event is rate-limited, or the chip was away for less than the debounce.
TriggerDropped(f) ==
    /\ Suppress
    /\ f \in added
    /\ added' = added \ {f}
    /\ UNCHANGED <<sys, moved, config, loop, cohort, sig, entries>>

\* Mutant of MonitorTick: the monitor only logs what it detects.
MonitorLogs == FALSE /\ UNCHANGED loopVars

\* MonitorSwap compares with the paths the daemon started with.
MonitorTick ==
    /\ \E f \in Fan : ~Occupied(Home[f]) /\ sys[f] # Gone
    /\ main \notin {"stopping", "returned"}
    /\ restart' = TRUE
    /\ UNCHANGED <<machine, config, main, loaded, cohort, sig, entries>>

-----------------------------------------------------------------------------
LoopNext ==
    \/ Reload \/ Hangup \/ LoadStores \/ Rebound
    \/ Terminate \/ ReadError \/ Return
    \/ \E i \in DOMAIN ctl : Leave(i) \/ Fail(i) \/ Send(i)
    \/ WebFails \/ WebSends
    \/ \E h \in Handlers, B \in Bindings : EditSaves(h, B)
    \/ EditEnds
    \/ SendHangup \/ SendTerm
    \/ \E f \in Fan : Unplug(f) \/ Trigger(f) \/ TriggerDropped(f)
    \/ \E f \in Fan, p \in Path : Plug(f, p)
    \/ MonitorTick

LoopSpec == LoopInit /\ [][LoopNext]_loopVars

\* The goroutines run; select takes every ready case again and again; the
\* monitor's ticker ticks; an event that is not dropped fires.
LoopFairness ==
    /\ WF_loopVars(LoadStores \/ Rebound \/ Return)
    /\ SF_loopVars(Reload) /\ SF_loopVars(Hangup)
    /\ SF_loopVars(Terminate) /\ SF_loopVars(ReadError)
    /\ WF_loopVars(\E i \in DOMAIN ctl : Leave(i) \/ Send(i))
    /\ WF_loopVars(WebSends) /\ WF_loopVars(EditEnds) /\ WF_loopVars(MonitorTick)
    /\ \A f \in Fan : WF_loopVars(Trigger(f))

LiveLoop == LoopSpec /\ LoopFairness

-----------------------------------------------------------------------------
(* Properties.                                                             *)

\* A controller writes while the live config has a fan at its path; without
\* one it has handed its fan back and skips its ticks.
Writes(i) ==
    ctl[i].st = "running" /\ \E f \in DOMAIN live : live[f].path = ctl[i].path

Driven(f) == \E i \in DOMAIN ctl : Writes(i) /\ ctl[i].path = sys[f]

\* No two controllers write one channel, across reloads, drains and respawns
\* ("in production each channel has exactly one controller goroutine").
OneWriterPerPath ==
    \A i, j \in DOMAIN ctl :
        Writes(i) /\ Writes(j) /\ ctl[i].path = ctl[j].path => i = j

\* No path has a second registration stacked on its own: "Unmoved fans keep
\* their startup entry untouched".
NoStackedEntry == \A p \in Path : entries[p] <= 1

\* A controller failure ends the daemon, so that systemd can restart it,
\* however many other controllers fail at the same time.
FailureEnds ==
    (\E i \in DOMAIN ctl : ctl[i].st = "sending") ~> (main = "returned")

\* Every fan with a control that is on the bus ends up with a live writer at
\* its path, wherever the kernel has moved it, and whoever edited the config.
BoundFansAreDriven ==
    []<>(main = "returned" \/ \A f \in Bound(live) : sys[f] # Gone => Driven(f))
=============================================================================
