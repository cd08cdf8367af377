--------------------------- MODULE ObservationLog ---------------------------
(***************************************************************************)
(* internal/state/log.go under internal/observation: the append-only log   *)
(* of observation records, its rotation and background compression, and a  *)
(* reader (the idle detector, or "ventd diag export" in another process).  *)
(*                                                                         *)
(* The Writer's mutex and the log handle's mutex are held over a whole     *)
(* Append, rotation included, so there is one writer; what interleaves     *)
(* with its file operations is a compressor, a reader that takes no lock,  *)
(* and a crash.  A record is its number, a file the sequence of what was   *)
(* appended to it.                                                         *)
(***************************************************************************)
EXTENDS Integers, Sequences, FiniteSets, SequencesExt

CONSTANTS
    Keep,        \* RotationPolicy.KeepCount
    Full,        \* maxActiveSize, in records
    Big,         \* logCompressThresholdMB, in records
    MaxRecords, MaxDays, MaxCrashes, MaxLogFaults, MaxReads   \* bounds

ASSUME LogAssumption ==
    {Keep, Full, Big, MaxDays} \subseteq Nat \ {0} /\ MaxRecords \in Nat

VARIABLES
    plain,       \* plain[0] is the active file, plain[i] is <name>.log.<i>
    gz,          \* gz[i] is <name>.log.<i>.gz: what it holds, who wrote it
    cached,      \* LogDB.files holds the log's handle
    handle,      \* logHandle.f is open
    wpc,         \* the writer: "down", "idle", "shift", "rename", "open", "reopen", "header", "day", "record"
    at,          \* the next file the shift looks at
    activeDay, headerWritten, bytes,   \* Writer's fields
    day,         \* today
    kvDay,       \* kvActiveDayKey, on disk
    jobs,        \* compressFile goroutines: "new", or "copy" and what was read from <name>.log.1
    rd,          \* the reader: the paths left to read, what it got from each it has read
    next,        \* the number of the next record
    acked,       \* records whose Append returned nil
    aged,        \* records dropped with the oldest file
    scars,       \* what went wrong so far: see Scars
    crashes, logFaults, reads

lVars == <<plain, gz, cached, handle, wpc, at, activeDay, headerWritten, bytes, day, kvDay, jobs,
           rd, next, acked, aged, scars, crashes, logFaults, reads>>

Absent == <<-2>>     \* no such file
Header == 0
Torn == -1
NoDay == 0
Slots == 0..Keep
NoGz == [done |-> FALSE, data |-> Absent]
NewJob == [st |-> "new", data |-> Absent]

Scars == {"torn",      \* a partial record is in a file
          "gap",       \* a rotation stopped between its renames
          "overlap",   \* a rotation ran while a compressor did
          "headless"}  \* a header was not appended, or a crash met no header

Content(file) == IF file = Absent THEN <<>> ELSE file

\* readRecords: the places of a file before the first torn item.  What follows
\* it is read out of step: its bytes complete the torn record's length.
Readable(items) == {k \in DOMAIN items : \A m \in 1..k : items[m] # Torn}

Records(items) == {items[k] : k \in Readable(items)} \ {Header}

\* Iterate's collection: .1, .2, ... up to the first number with no file.
Listed(p, z) == {i \in 1..Keep : \A k \in 1..i : p[k] # Absent \/ z[k] # NoGz}

\* The path Iterate reads for a number: the plain file when there is one.
PathFor(i) == IF plain[i] # Absent THEN <<i, "plain">> ELSE <<i, "gz">>

OldestFirst(n) == [k \in 1..n |-> PathFor(n + 1 - k)]

\* iteratePath: what may be read.  A file that has gone reads as empty, and an
\* unfinished gzip up to where it has been written.
Delivered(path) ==
    LET z == gz[path[1]]
    IN  IF path[2] = "plain" THEN {Content(plain[path[1]])}
        ELSE IF z.done THEN {Content(z.data)}
        ELSE {SubSeq(Content(z.data), 1, n) : n \in 0..Len(Content(z.data))}

LogInit ==
    /\ plain = [i \in Slots |-> Absent] /\ gz = [i \in 1..Keep |-> NoGz]
    /\ cached = FALSE /\ handle = FALSE /\ wpc = "idle" /\ at = 0
    /\ activeDay = NoDay /\ headerWritten = FALSE /\ bytes = 0
    /\ day = 1 /\ kvDay = NoDay /\ jobs = <<>>
    /\ rd = [left |-> <<>>, got |-> <<>>]
    /\ next = 1 /\ acked = {} /\ aged = {} /\ scars = {}
    /\ crashes = 0 /\ logFaults = 0 /\ reads = 0

files == <<plain, gz>>
writer == <<activeDay, headerWritten, bytes>>
bounds == <<crashes, logFaults, reads>>

-----------------------------------------------------------------------------
(* The writer. *)

\* Writer.Append: rotate first when the day or the size asks for it.
\* LogDB.handle opens the file, creating it, on first use; rotateLocked only
\* opens a file when there is none to rotate.
Due == ~headerWritten \/ activeDay # day \/ bytes >= Full

AppendRecord ==
    /\ wpc = "idle" /\ next <= MaxRecords
    /\ IF ~Due
       THEN wpc' = "record" /\ UNCHANGED <<plain, handle, scars>>
       ELSE /\ wpc' = IF cached /\ plain[0] = Absent THEN "reopen" ELSE "shift"
            /\ handle' = FALSE
            /\ plain' = [plain EXCEPT ![0] = IF cached THEN @ ELSE Content(@)]
            /\ scars' = IF jobs = <<>> THEN scars ELSE scars \cup {"overlap"}
    /\ cached' = (cached \/ Due) /\ at' = Keep
    /\ UNCHANGED <<gz, writer, day, kvDay, jobs, rd, next, acked, aged, bounds>>

\* One turn of rotateLocked's loop: drop the oldest, then move i to i + 1.
ShiftOne ==
    /\ wpc = "shift"
    /\ IF at = Keep
       THEN /\ plain' = [plain EXCEPT ![Keep] = Absent] /\ gz' = [gz EXCEPT ![Keep] = NoGz]
            /\ aged' = aged \cup Range(Content(plain[Keep])) \cup Range(Content(gz[Keep].data))
       ELSE /\ plain' = IF plain[at] = Absent THEN plain
                        ELSE [plain EXCEPT ![at + 1] = plain[at], ![at] = Absent]
            /\ gz' = IF gz[at] = NoGz THEN gz
                     ELSE [gz EXCEPT ![at + 1] = gz[at], ![at] = NoGz]
            /\ UNCHANGED aged
    /\ at' = at - 1
    /\ wpc' = IF at = 1 THEN "rename" ELSE "shift"
    /\ UNCHANGED <<cached, handle, writer, day, kvDay, jobs, rd, next, acked, scars, bounds>>

\* os.Rename(current, .1).
RenameActive ==
    /\ wpc = "rename" /\ wpc' = "open"
    /\ plain' = [plain EXCEPT ![1] = plain[0], ![0] = Absent]
    /\ UNCHANGED <<cached, gz, handle, at, writer, day, kvDay, jobs, rd, next, acked, aged, scars, bounds>>

RenameFailsTo(then) ==
    /\ wpc = "rename" /\ logFaults < MaxLogFaults
    /\ wpc' = then /\ handle' = TRUE /\ logFaults' = logFaults + 1
    /\ scars' = scars \cup {"gap"}
    /\ UNCHANGED <<cached, files, at, writer, day, kvDay, jobs, rd, next, acked, aged, crashes, reads>>

\* Mutant of RenameFails: the Writer goes on as after a rotation.
RenameIgnored == RenameFailsTo("header")

\* The rename fails: the active file is opened again and Append returns.
RenameFails == RenameFailsTo("idle")

\* openFileLocked, and the compressor of the file just rotated, if it is big.
OpenActiveAs(open) ==
    /\ wpc \in {"open", "reopen"} /\ wpc' = "header"
    /\ plain' = [plain EXCEPT ![0] = <<>>] /\ handle' = open
    /\ jobs' = IF wpc = "open" /\ Len(Content(plain[1])) >= Big THEN Append(jobs, NewJob) ELSE jobs
    /\ activeDay' = day /\ bytes' = 0
    /\ UNCHANGED <<cached, gz, at, headerWritten, day, kvDay, rd, next, acked, aged, scars, bounds>>

\* Mutant of OpenActive: the new file is not kept as the handle's.
OpenActiveUnkept == OpenActiveAs(FALSE)

OpenActive == OpenActiveAs(TRUE)

\* It fails: the handle stays closed, Rotate and Append return the error.
OpenFails ==
    /\ wpc \in {"open", "reopen"} /\ logFaults < MaxLogFaults
    /\ wpc' = "idle" /\ logFaults' = logFaults + 1
    /\ UNCHANGED <<cached, files, handle, at, writer, day, kvDay, jobs, rd, next, acked, aged, scars,
                   crashes, reads>>

AppendHeader ==
    /\ wpc = "header" /\ handle /\ wpc' = "day"
    /\ plain' = [plain EXCEPT ![0] = Append(@, Header)]
    /\ headerWritten' = TRUE
    /\ UNCHANGED <<cached, gz, handle, at, activeDay, bytes, day, kvDay, jobs, rd, next, acked, aged,
                   scars, bounds>>

\* kv.Set(kvActiveDayKey), whose error is only logged.
PersistDay ==
    /\ wpc = "day" /\ wpc' = "record"
    /\ \/ kvDay' = activeDay /\ UNCHANGED logFaults
       \/ logFaults < MaxLogFaults /\ logFaults' = logFaults + 1 /\ UNCHANGED kvDay
    /\ UNCHANGED <<cached, files, handle, at, writer, day, jobs, rd, next, acked, aged, scars,
                   crashes, reads>>

\* appendRecord: the whole record is on disk before the Write returns.  The
\* handle is opened on first use after a start.
WriteRecord ==
    /\ wpc = "record" /\ (handle \/ ~cached)
    /\ wpc' = "idle" /\ handle' = TRUE /\ cached' = TRUE
    /\ plain' = [plain EXCEPT ![0] = Append(Content(@), next)]
    /\ acked' = acked \cup {next} /\ next' = next + 1 /\ bytes' = bytes + 1
    /\ UNCHANGED <<gz, at, activeDay, headerWritten, day, kvDay, jobs, rd, aged, scars, bounds>>

\* An append (of a record or a header) fails: nothing, or part of it, is
\* written.  Append returns an error and the record is lost to the caller.
AppendFails ==
    /\ wpc \in {"record", "header"} /\ logFaults < MaxLogFaults
    /\ wpc' = "idle" /\ handle' = (handle \/ ~cached) /\ cached' = TRUE
    /\ logFaults' = logFaults + 1
    /\ \E torn \in BOOLEAN :
          /\ plain' = [plain EXCEPT ![0] = IF torn THEN Append(Content(@), Torn) ELSE Content(@)]
          /\ scars' = scars \cup (IF torn THEN {"torn"} ELSE {})
                            \cup (IF wpc = "header" THEN {"headless"} ELSE {})
    /\ next' = IF wpc = "record" THEN next + 1 ELSE next
    /\ UNCHANGED <<gz, at, writer, day, kvDay, jobs, rd, acked, aged, crashes, reads>>

WriterStep ==
    \/ AppendRecord \/ ShiftOne \/ RenameActive \/ RenameFails \/ OpenActive \/ OpenFails
    \/ AppendHeader \/ PersistDay \/ WriteRecord \/ AppendFails

Midnight ==
    /\ day < MaxDays /\ day' = day + 1
    /\ UNCHANGED <<cached, files, handle, wpc, at, writer, kvDay, jobs, rd, next, acked, aged, scars, bounds>>

\* Power loss: an append in progress may leave part of its record.
LogCrash ==
    /\ wpc # "down" /\ crashes < MaxCrashes
    /\ wpc' = "down" /\ crashes' = crashes + 1
    /\ cached' = FALSE /\ handle' = FALSE /\ jobs' = <<>> /\ rd' = [left |-> <<>>, got |-> <<>>]
    /\ \E torn \in {FALSE} \cup (IF wpc \in {"record", "header"} THEN {TRUE} ELSE {}) :
          /\ plain' = IF torn THEN [plain EXCEPT ![0] = Append(Content(@), Torn)] ELSE plain
          /\ scars' = scars \cup (IF torn THEN {"torn"} ELSE {})
                            \cup (IF wpc \in {"shift", "rename"} THEN {"gap"} ELSE {})
                            \cup (IF Header \in Range(plain[0]) THEN {} ELSE {"headless"})
    /\ UNCHANGED <<gz, at, writer, day, kvDay, next, acked, aged, logFaults, reads>>

\* newWithClock: today's file goes on, with its header, when the store says so.
LogStart ==
    /\ wpc = "down" /\ wpc' = "idle"
    /\ activeDay' = kvDay /\ headerWritten' = (kvDay = day) /\ bytes' = 0
    /\ UNCHANGED <<cached, files, handle, at, day, kvDay, jobs, rd, next, acked, aged, scars, bounds>>

-----------------------------------------------------------------------------
(* compressFile, on the path .1, after the writer's locks are released. *)

\* Open the source; create .1.gz, which must not exist.
CompressOpen(j) ==
    /\ jobs[j] = NewJob /\ wpc # "down"
    /\ IF plain[1] # Absent /\ gz[1] = NoGz
       THEN /\ gz' = [gz EXCEPT ![1].data = plain[1]]
            /\ jobs' = [jobs EXCEPT ![j] = [st |-> "copy", data |-> plain[1]]]
       ELSE jobs' = RemoveAt(jobs, j) /\ UNCHANGED gz
    /\ UNCHANGED <<cached, plain, handle, wpc, at, writer, day, kvDay, rd, next, acked, aged, scars, bounds>>

\* The copy ends, wherever its file is now, and os.Remove(path) removes what
\* is called .1 now.
CompressDone(j) ==
    /\ jobs[j].st = "copy"
    /\ gz' = [i \in 1..Keep |-> [gz[i] EXCEPT !.done = @ \/ gz[i].data = jobs[j].data]]
    /\ plain' = [plain EXCEPT ![1] = Absent]
    /\ jobs' = RemoveAt(jobs, j)
    /\ UNCHANGED <<cached, handle, wpc, at, writer, day, kvDay, rd, next, acked, aged, scars, bounds>>

-----------------------------------------------------------------------------
(* Iterate. *)

\* The paths, oldest first, the active file last.
ReadList ==
    /\ rd.left = <<>> /\ reads < MaxReads /\ reads' = reads + 1
    /\ rd' = [left |-> Append(OldestFirst(Cardinality(Listed(plain, gz))), <<0, "plain">>),
              got |-> <<>>]
    /\ UNCHANGED <<cached, files, handle, wpc, at, writer, day, kvDay, jobs, next, acked, aged, scars,
                   crashes, logFaults>>

ReadFile ==
    /\ rd.left # <<>>
    /\ \E items \in Delivered(Head(rd.left)) :
          rd' = [left |-> Tail(rd.left), got |-> Append(rd.got, items)]
    /\ UNCHANGED <<cached, files, handle, wpc, at, writer, day, kvDay, jobs, next, acked, aged, scars, bounds>>

LogNext ==
    \/ WriterStep \/ Midnight \/ LogCrash \/ LogStart \/ ReadList \/ ReadFile
    \/ \E j \in DOMAIN jobs : CompressOpen(j) \/ CompressDone(j)

-----------------------------------------------------------------------------
File == Seq(Torn..MaxRecords) \cup {Absent}

LogTypeOK ==
    /\ plain \in [Slots -> File] /\ gz \in [1..Keep -> [done : BOOLEAN, data : File]]
    /\ wpc \in {"down", "idle", "shift", "rename", "open", "reopen", "header", "day", "record"}
    /\ activeDay \in 0..MaxDays /\ kvDay \in 0..MaxDays /\ headerWritten \in BOOLEAN
    /\ scars \subseteq Scars
    /\ wpc \in {"header", "day"} => handle

\* Every record of fs[a] before every one of a later file, and before every
\* later one of its own.
InOrder(fs) ==
    \A a, b \in DOMAIN fs : \A k \in Readable(fs[a]), m \in Readable(fs[b]) :
        (a < b \/ (a = b /\ k < m)) /\ fs[a][k] # Header /\ fs[b][m] # Header
            => fs[a][k] < fs[b][m]

\* What an Iterate that met no rotation would deliver.
Visible == {r \in acked : \E path \in {PathFor(i) : i \in Listed(plain, gz)} \cup {<<0, "plain">>} :
                             \A items \in Delivered(path) : r \in Records(items)}

\* A reader delivers records in append order and none twice, whatever
\* rotation, compression, crash or restart runs beside it: Iterate reads the
\* files from the oldest to the newest and rotation only moves them towards
\* the oldest (RULE-OBS-READ-01).
ReadsInOrder == InOrder(rd.got)

\* A record whose Append returned nil is delivered to every later reader until
\* its file is the oldest and dropped (log.go:27 "Rotation preserves all
\* in-flight records", RULE-STATE-08).  It is not so after a partial record,
\* an interrupted rotation, or a rotation beside a running compressor.
RecordsSurvive ==
    wpc \in {"idle", "down"} /\ scars \cap {"torn", "gap", "overlap"} = {}
        => acked \ aged \subseteq Visible

\* Exactly one header precedes the records of each file (RULE-OBS-SCHEMA-02),
\* unless an append of a header, or a start after a crash, left a file
\* without one.
HeaderLeads ==
    "headless" \notin scars =>
        \A i \in Slots : LET items == Content(plain[i])
                         IN  /\ Records(items) # {} => items[1] = Header
                             /\ \A k \in Readable(items) \ {1} : items[k] # Header

\* What a reader of the log relies on: the records in the order they were
\* written, all of them, each file with its header first.
LogIsFaithful == ReadsInOrder /\ RecordsSurvive /\ HeaderLeads
=============================================================================
