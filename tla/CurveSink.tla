----------------------------- MODULE CurveSink -----------------------------
(***************************************************************************)
(* internal/controller/curvesink.go: the controller of a channel whose     *)
(* firmware follows a curve by itself (an RDNA3 GPU, an ASUS EC).  It      *)
(* programs the curve, anchor after anchor and then a command that makes   *)
(* them effective, when control is applied and whenever the curve that the *)
(* configuration binds to the fan has changed; each command can fail.      *)
(* Reloads replace the configuration between any two steps.                *)
(***************************************************************************)
EXTENDS Naturals

CONSTANTS
    Curves,       \* what a configuration makes of the fan: the sampled points
    NoCurve,      \* the fan or its curve is gone from the configuration
    Factory,      \* the firmware's own curve
    Theirs,       \* what the fan followed before the daemon came
    Anchors,      \* 8 (asuswmi), 5 (amdgpu)
    MaxReloads, MaxRefusals, MaxSpawns

ASSUME CurveAssumption ==
    /\ {NoCurve, Factory, Theirs} \cap Curves = {} /\ Factory # Theirs
    /\ Anchors \in Nat \ {0}

VARIABLES
    bound,        \* the curve of the live configuration
    shadow,       \* its apply.shadow
    session,      \* the process was started in shadow mode
    sink,         \* runCurveSink: "running", "drained" or "dead" with its process
    programmed,   \* hasProgrammedCurve
    lastPoints,   \* lastCurvePoints
    writing, at,  \* WriteCurve: its points, and the next command; 0: none
    staged,       \* the device's anchors
    obeys,        \* what the firmware follows
    masked,       \* history: lastPoints was recorded and not programmed
    reloads, refusals, spawns

device == <<staged, obeys>>
memory == <<programmed, lastPoints, masked>>
live == <<bound, shadow>>
bounds == <<reloads, refusals, spawns>>
cVars == <<live, session, sink, memory, writing, at, device, bounds>>

Whole(c) == [i \in 1 .. Anchors |-> c]
AnchorSets == [1 .. Anchors -> Curves \cup {Factory, Theirs}]

CurveTypeOK ==
    /\ bound \in Curves \cup {NoCurve} /\ shadow \in BOOLEAN /\ session \in BOOLEAN
    /\ sink \in {"running", "drained", "dead"} /\ programmed \in BOOLEAN /\ masked \in BOOLEAN
    /\ lastPoints \in Curves \cup {NoCurve} /\ writing \in Curves \cup {NoCurve}
    /\ at \in 0 .. Anchors + 1 /\ staged \in AnchorSets
    /\ obeys \in AnchorSets

CurveInit ==
    /\ bound \in Curves \cup {NoCurve} /\ session \in BOOLEAN /\ shadow = session
    /\ sink = "running" /\ programmed = FALSE /\ lastPoints = NoCurve /\ masked = FALSE
    /\ writing = NoCurve /\ at = 0
    /\ staged = Whole(Theirs) /\ obeys \in {Whole(Factory), Whole(Theirs)}
    /\ reloads = 0 /\ refusals = 0 /\ spawns = 0

-----------------------------------------------------------------------------
\* The points differ from those last programmed, or recorded in shadow mode.
Due == sink = "running" /\ at = 0 /\ bound # NoCurve /\ ~(programmed /\ lastPoints = bound)

\* Shadow mode records the points as if they were programmed.
SinkShadows ==
    /\ Due /\ shadow
    /\ lastPoints' = bound /\ programmed' = TRUE /\ masked' = TRUE
    /\ UNCHANGED <<live, session, sink, writing, at, device, bounds>>

SinkStarts ==
    /\ Due /\ ~shadow
    /\ writing' = bound /\ at' = 1
    /\ UNCHANGED <<live, session, sink, memory, device, bounds>>

WriteAnchor ==
    /\ at \in 1 .. Anchors
    /\ staged' = [staged EXCEPT ![at] = writing] /\ at' = at + 1
    /\ UNCHANGED <<live, session, sink, memory, writing, obeys, bounds>>

Commit ==
    /\ at = Anchors + 1
    /\ obeys' = staged
    /\ lastPoints' = writing /\ programmed' = TRUE /\ masked' = FALSE
    /\ at' = 0 /\ writing' = NoCurve
    /\ UNCHANGED <<live, session, sink, staged, bounds>>

\* Mutant of Refused: the points count as programmed.
RefusedAsProgrammed ==
    /\ programmed' = TRUE /\ lastPoints' = writing /\ at' = 0 /\ writing' = NoCurve

\* Mutant of Refused: the anchors after the one that failed are written.
RefusedGoesOn ==
    /\ at' = IF at <= Anchors THEN at + 1 ELSE 0
    /\ UNCHANGED <<programmed, lastPoints, writing>>

\* WriteCurve returns the error, and the next tick tries again.
Refused ==
    /\ programmed' = FALSE /\ at' = 0 /\ writing' = NoCurve
    /\ UNCHANGED lastPoints

CommandFails ==
    /\ at # 0 /\ refusals < MaxRefusals /\ refusals' = refusals + 1
    /\ Refused
    /\ UNCHANGED <<live, session, sink, masked, device, reloads, spawns>>

-----------------------------------------------------------------------------
\* A reload reads the file, whose apply.shadow is not the command line's.
ReloadFile(c, s) ==
    /\ sink = "running" /\ reloads < MaxReloads /\ reloads' = reloads + 1
    /\ bound' = c /\ shadow' = s
    /\ UNCHANGED <<session, sink, memory, writing, at, device, refusals, spawns>>

\* A handler of the web server replaces the curve in a copy of the live one.
EditCurve(c) ==
    /\ sink = "running" /\ reloads < MaxReloads /\ reloads' = reloads + 1
    /\ bound' = c
    /\ UNCHANGED <<shadow, session, sink, memory, writing, at, device, refusals, spawns>>

\* The context is cancelled, by a drain or the end of the process: the
\* controller returns between two ticks, and the
\* watchdog restores its entries, shadow mode or not.
SinkStops ==
    /\ sink = "running" /\ at = 0 /\ spawns < MaxSpawns
    /\ sink' \in {"drained", "dead"}
    /\ \/ obeys' = Whole(Factory) /\ UNCHANGED refusals
       \/ refusals < MaxRefusals /\ refusals' = refusals + 1 /\ UNCHANGED obeys
    /\ UNCHANGED <<live, session, memory, writing, at, staged, reloads, spawns>>

\* The process is killed in any step.
SinkDies ==
    /\ sink = "running" /\ spawns < MaxSpawns
    /\ sink' = "dead" /\ at' = 0 /\ writing' = NoCurve
    /\ UNCHANGED <<live, session, memory, device, bounds>>

\* A new controller: the cohort is spawned again, or another process started.
SinkSpawns ==
    /\ sink # "running" /\ spawns' = spawns + 1
    /\ sink' = "running" /\ programmed' = FALSE /\ lastPoints' = NoCurve /\ masked' = FALSE
    /\ IF sink = "drained" THEN UNCHANGED <<session, shadow>>
                           ELSE session' \in BOOLEAN /\ shadow' = session'
    /\ UNCHANGED <<bound, writing, at, device, reloads, refusals>>

SinkStep == SinkShadows \/ SinkStarts \/ WriteAnchor \/ Commit

CurveNext ==
    \/ SinkStep \/ CommandFails \/ SinkStops \/ SinkDies \/ SinkSpawns
    \/ \E c \in Curves \cup {NoCurve} : EditCurve(c) \/ \E s \in BOOLEAN : ReloadFile(c, s)

CurveSpec == CurveInit /\ [][CurveNext]_cVars

-----------------------------------------------------------------------------
(* Properties.                                                             *)

\* The firmware never follows a mixture of two curves, whichever anchor of
\* whichever programming failed and wherever the process was killed.
ObeysOneCurve ==
    \E c \in Curves \cup {Factory, Theirs} : obeys = Whole(c)

\* When the configuration has settled on a curve, the firmware follows it in
\* the end, whatever failed before, unless shadow mode has recorded that very
\* curve as programmed.
SinkConverges ==
    \A c \in Curves :
        <>[](sink = "running" /\ bound = c /\ ~shadow /\ ~masked) => <>[](obeys = Whole(c))

\* "The full pipeline runs ... while issuing NO hardware writes", and "shadow
\* mode is a startup-time decision and never toggles mid-session": what a
\* process that was started in shadow mode leaves alone.
ShadowLeavesFanAlone == [][session => UNCHANGED <<device>>]_cVars
=============================================================================
