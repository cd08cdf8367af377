------------------------------ MODULE LoopProofs ------------------------------
(***************************************************************************)
(* What holds of the main loop, its reloads and the cohorts it spawns, for *)
(* any fans and hwmon directories, and any number of edits and renumberings. *)
(***************************************************************************)
EXTENDS MCDaemonLoop, FiniteSetTheorems, FunctionTheorems, TLAPS

-----------------------------------------------------------------------------
(* Configurations.                                                         *)

\* An entry of a configuration is an entry, and a set of fans with an entry
\* each is a configuration.
LEMMA ConfigEntries ==
    /\ \A conf \in Config : DOMAIN conf \subseteq Fan /\ \A f \in DOMAIN conf : conf[f] \in Entry
    /\ \A S \in SUBSET Fan : [S -> Entry] \subseteq Config
BY DEF Config

\* A function on fans whose values are entries is a configuration.
LEMMA MadeOfEntries ==
    ASSUME NEW S \in SUBSET Fan, NEW conf, conf = [f \in S |-> conf[f]],
           \A f \in S : conf[f] \in Entry
    PROVE  conf \in Config
<1>1. conf \in [S -> Entry]
  OBVIOUS
<1> QED BY <1>1, ConfigEntries

\* Who is at a path, is a fan or nobody.
LEMMA Occupants ==
    ASSUME NEW p
    PROVE  /\ Occupant(p) \in Fan \cup {NoChip}
           /\ Occupied(p) => Occupant(p) \in Fan /\ sys[Occupant(p)] = p
           /\ (Occupant(p) = NoChip) <=> ~Occupied(p)
BY LoopAssumption DEF Occupant, Occupied

LEMMA EnrichedConfig ==
    ASSUME NEW conf \in Config
    PROVE  /\ Enriched(conf) \in Config /\ DOMAIN Enriched(conf) = DOMAIN conf
           /\ \A f \in DOMAIN conf :
                /\ Enriched(conf)[f].path = conf[f].path /\ Enriched(conf)[f].bound = conf[f].bound
                /\ Enriched(conf)[f].chip = IF conf[f].chip # NoChip THEN conf[f].chip
                                            ELSE Occupant(conf[f].path)
<1> DEFINE e == Enriched(conf)
<1>1. /\ DOMAIN e = DOMAIN conf /\ e = [f \in DOMAIN conf |-> e[f]]
      /\ \A f \in DOMAIN conf : e[f] = IF conf[f].chip # NoChip THEN conf[f]
                                       ELSE [conf[f] EXCEPT !.chip = Occupant(conf[f].path)]
  BY DEF Enriched
<1>2. ASSUME NEW f \in DOMAIN conf
      PROVE  /\ e[f] \in Entry /\ e[f].path = conf[f].path /\ e[f].bound = conf[f].bound
             /\ e[f].chip = IF conf[f].chip # NoChip THEN conf[f].chip ELSE Occupant(conf[f].path)
  <2>1. conf[f] \in Entry
    BY ConfigEntries
  <2>2. Occupant(conf[f].path) \in Fan \cup {NoChip}
    BY Occupants
  <2> HIDE DEF e
  <2> QED BY <1>1, <2>1, <2>2 DEF Entry
<1>3. e \in Config
  <2>1. DOMAIN conf \in SUBSET Fan
    BY ConfigEntries
  <2> HIDE DEF e
  <2> QED BY <1>1, <1>2, <2>1, MadeOfEntries
<1> QED BY <1>1, <1>2, <1>3

LEMMA AnchoredConfig ==
    ASSUME NEW conf \in Config, ~LoadFails(conf), sys \in [Fan -> Path \cup {Gone}]
    PROVE  /\ Anchor(conf) \in Config /\ DOMAIN Anchor(conf) = DOMAIN conf
           /\ \A f \in DOMAIN conf :
                /\ Anchor(conf)[f].bound = conf[f].bound
                /\ Anchor(conf)[f].chip = Enriched(conf)[f].chip
                /\ Anchor(conf)[f].path = IF Enriched(conf)[f].chip = NoChip THEN conf[f].path
                                          ELSE sys[Enriched(conf)[f].chip]
<1> DEFINE e == Enriched(conf)
           a == Anchor(conf)
<1>1. /\ DOMAIN a = DOMAIN conf /\ a = [f \in DOMAIN conf |-> a[f]]
      /\ \A f \in DOMAIN conf : a[f] = IF e[f].chip = NoChip THEN conf[f]
                                       ELSE [e[f] EXCEPT !.path = sys[e[f].chip]]
  BY DEF Anchor
<1>2. \A f \in DOMAIN conf : e[f].chip # NoChip => e[f].chip \in Fan /\ sys[e[f].chip] \in Path
  <2>1. \A f \in DOMAIN conf : e[f] \in Entry
    BY EnrichedConfig, ConfigEntries
  <2>2. \A f \in DOMAIN conf : e[f].chip \in Fan \cup {NoChip}
    BY <2>1 DEF Entry
  <2>3. \A f \in DOMAIN conf : e[f].chip # NoChip => sys[e[f].chip] # Gone
    BY DEF LoadFails
  <2> HIDE DEF e
  <2> QED BY <2>2, <2>3
<1>3. ASSUME NEW f \in DOMAIN conf
      PROVE  /\ a[f] \in Entry /\ a[f].bound = conf[f].bound /\ a[f].chip = e[f].chip
             /\ a[f].path = IF e[f].chip = NoChip THEN conf[f].path ELSE sys[e[f].chip]
  <2>1. conf[f] \in Entry
    BY ConfigEntries
  <2>2. e[f] \in Entry
    BY EnrichedConfig, ConfigEntries
  <2>3. e[f].bound = conf[f].bound
    BY EnrichedConfig
  <2>4. e[f].chip = NoChip => conf[f].chip = NoChip
    BY EnrichedConfig
  <2> HIDE DEF e, a
  <2> QED BY <1>1, <1>2, <2>1, <2>2, <2>3, <2>4 DEF Entry
<1>4. a \in Config
  <2>1. DOMAIN conf \in SUBSET Fan
    BY ConfigEntries
  <2> HIDE DEF a
  <2> QED BY <1>1, <1>3, <2>1, MadeOfEntries
<1> QED BY <1>1, <1>3, <1>4

LEMMA MovesTypes ==
    ASSUME NEW conf \in Config, sys \in [Fan -> Path \cup {Gone}]
    PROVE  Moves(conf) \subseteq Move
<1>1. ASSUME NEW f \in DOMAIN conf, sys[f] # Gone
      PROVE  [fan |-> f, old |-> conf[f].path, new |-> sys[f]] \in Move
  <2>1. f \in Fan /\ conf[f] \in Entry
    BY ConfigEntries
  <2> QED BY <1>1, <2>1 DEF Entry, Move
<1> QED BY <1>1 DEF Moves

LEMMA RebasedConfig ==
    ASSUME NEW conf \in Config, sys \in [Fan -> Path \cup {Gone}]
    PROVE  /\ Rebased(conf) \in Config /\ DOMAIN Rebased(conf) = DOMAIN conf
           /\ \A f \in DOMAIN conf :
                /\ Rebased(conf)[f].bound = conf[f].bound /\ Rebased(conf)[f].chip = conf[f].chip
                /\ Rebased(conf)[f].path = IF /\ f \in Anchored /\ sys[f] # Gone
                                              /\ ~Occupied(conf[f].path)
                                           THEN sys[f] ELSE conf[f].path
<1> DEFINE r == Rebased(conf)
           moved_(f) == f \in Anchored /\ sys[f] # Gone /\ ~Occupied(conf[f].path)
<1>1. ASSUME NEW f \in DOMAIN conf
      PROVE  (\E m \in Moves(conf) : m.fan = f) <=> moved_(f)
  <2> DEFINE move(g) == [fan |-> g, old |-> conf[g].path, new |-> sys[g]]
  <2>1. Moves(conf) = {move(g) : g \in {g \in DOMAIN conf : moved_(g)}}
    BY DEF Moves
  <2>2. \A g \in DOMAIN conf : move(g).fan = g
    OBVIOUS
  <2>3. ASSUME moved_(f) PROVE \E m \in Moves(conf) : m.fan = f
    <3>1. move(f) \in Moves(conf)
      <4> HIDE DEF move, moved_
      <4> QED BY <2>1, <2>3
    <3> HIDE DEF move
    <3> QED BY <3>1, <2>2
  <2>4. ASSUME NEW m \in Moves(conf), m.fan = f PROVE moved_(f)
    <3>1. PICK g \in DOMAIN conf : m = move(g) /\ moved_(g)
      <4> HIDE DEF move, moved_
      <4> QED BY <2>1
    <3> HIDE DEF move, moved_
    <3> QED BY <3>1, <2>2, <2>4
  <2> QED BY <2>3, <2>4
<1>2. /\ DOMAIN r = DOMAIN conf /\ r = [f \in DOMAIN conf |-> r[f]]
      /\ \A f \in DOMAIN conf : r[f] = IF \E m \in Moves(conf) : m.fan = f
                                       THEN [conf[f] EXCEPT !.path = sys[f]] ELSE conf[f]
  BY DEF Rebased
<1>3. \A f \in DOMAIN conf : r[f] = IF moved_(f) THEN [conf[f] EXCEPT !.path = sys[f]] ELSE conf[f]
  <2> HIDE DEF r, moved_
  <2> QED BY <1>1, <1>2
<1>4. ASSUME NEW f \in DOMAIN conf
      PROVE  /\ r[f] \in Entry /\ r[f].bound = conf[f].bound /\ r[f].chip = conf[f].chip
             /\ r[f].path = IF moved_(f) THEN sys[f] ELSE conf[f].path
  <2>1. conf[f] \in Entry /\ f \in Fan
    BY ConfigEntries
  <2>2. moved_(f) => sys[f] \in Path
    BY <2>1
  <2> HIDE DEF r, moved_
  <2> QED BY <1>3, <2>1, <2>2 DEF Entry
<1>5. r \in Config
  <2>1. DOMAIN conf \in SUBSET Fan
    BY ConfigEntries
  <2> HIDE DEF r
  <2> QED BY <1>2, <1>4, <2>1, MadeOfEntries
<1> QED BY <1>2, <1>4, <1>5

Rewrites(base, B) ==
    \A f \in DOMAIN Rewritten(base, B) :
        /\ Rewritten(base, B)[f].path = IF f \in DOMAIN base THEN base[f].path ELSE sys[f]
        /\ Rewritten(base, B)[f].chip = IF f \in DOMAIN base THEN base[f].chip ELSE NoChip

LEMMA RewrittenConfig ==
    ASSUME NEW base \in Config, NEW B \in SUBSET Fan, sys \in [Fan -> Path \cup {Gone}]
    PROVE  /\ Rewritten(base, B) \in Config
           /\ DOMAIN Rewritten(base, B) = {g \in Fan : g \in DOMAIN base \/ sys[g] # Gone}
           /\ Rewrites(base, B)
<1> DEFINE r == Rewritten(base, B)
           S == {g \in Fan : g \in DOMAIN base \/ sys[g] # Gone}
<1>1. /\ DOMAIN r = S /\ r = [f \in S |-> r[f]]
      /\ \A f \in S : r[f] = IF f \in DOMAIN base THEN [base[f] EXCEPT !.bound = f \in B]
                             ELSE [path |-> sys[f], chip |-> NoChip, bound |-> f \in B]
  BY DEF Rewritten
<1>2. ASSUME NEW f \in S
      PROVE  /\ r[f] \in Entry
             /\ r[f].path = IF f \in DOMAIN base THEN base[f].path ELSE sys[f]
             /\ r[f].chip = IF f \in DOMAIN base THEN base[f].chip ELSE NoChip
  <2>1. f \in DOMAIN base => base[f] \in Entry
    BY ConfigEntries
  <2>2. f \notin DOMAIN base => sys[f] \in Path
    OBVIOUS
  <2>3. (f \in B) \in BOOLEAN
    OBVIOUS
  <2>4. CASE f \in DOMAIN base
    <3>1. r[f] = [base[f] EXCEPT !.bound = f \in B]
      BY <1>1, <2>4
    <3> HIDE DEF r
    <3> QED BY <2>1, <2>3, <2>4, <3>1 DEF Entry
  <2>5. CASE f \notin DOMAIN base
    <3>1. r[f] = [path |-> sys[f], chip |-> NoChip, bound |-> f \in B]
      BY <1>1, <2>5
    <3> HIDE DEF r
    <3> QED BY <2>2, <2>3, <2>5, <3>1 DEF Entry
  <2> QED BY <2>4, <2>5
<1>3. r \in Config
  <2>1. S \in SUBSET Fan
    OBVIOUS
  <2> HIDE DEF r, S
  <2> QED BY <1>1, <1>2, <2>1, MadeOfEntries
<1>4. Rewrites(base, B)
  BY <1>1, <1>2 DEF Rewrites
<1> QED BY <1>1, <1>3, <1>4

\* What an edit leaves in the file is a configuration.
LEMMA EditedConfig ==
    ASSUME disk \in Config, live \in Config, sys \in [Fan -> Path \cup {Gone}],
           NEW h \in Handler, NEW B \in SUBSET Fan
    PROVE  Edited(h, B) \in Config
<1>1. << >> \in Config
  <2>1. << >> \in [{} -> Entry]
    OBVIOUS
  <2> QED BY <2>1, ConfigEntries
<1>2. CASE h = "hand"
  BY <1>2, RewrittenConfig DEF Edited
<1>3. CASE h = "put"
  <2>1. Rewritten(live, B) \in Config
    BY RewrittenConfig
  <2> QED BY <1>3, <2>1, EnrichedConfig DEF Edited
<1>4. CASE h = "patch"
  BY <1>4, EnrichedConfig DEF Edited
<1>5. CASE h = "setup"
  <2>1. Rewritten(<< >>, B) \in Config
    BY <1>1, RewrittenConfig
  <2>2. Enriched(Rewritten(<< >>, B)) \in Config
    BY <2>1, EnrichedConfig
  <2> QED BY <1>1, <1>5, <2>2 DEF Edited
<1> QED BY <1>2, <1>3, <1>4, <1>5 DEF Handler

-----------------------------------------------------------------------------
(* Cohorts.                                                                *)

\* A finite set is enumerated by some injection, which is what SetToSeq takes.
LEMMA Enumeration ==
    ASSUME NEW S, IsFiniteSet(S)
    PROVE  /\ SetToSeq(S) \in [1 .. Cardinality(S) -> S]
           /\ SetToSeq(S) \in Seq(S)
           /\ \A i, j \in DOMAIN SetToSeq(S) : SetToSeq(S)[i] = SetToSeq(S)[j] => i = j
           /\ S # {} => SetToSeq(S) # << >>
<1>1. Cardinality(S) \in Nat
  BY FS_CardinalityType
<1>2. PICK e \in Bijection(1 .. Cardinality(S), S) : TRUE
  BY FS_CardinalityType DEF ExistsBijection
<1>3. e \in [1 .. Cardinality(S) -> S] /\ IsInjective(e)
  BY <1>2 DEF Bijection, Injection
<1>4. SetToSeq(S) \in [1 .. Cardinality(S) -> S] /\ IsInjective(SetToSeq(S))
  BY <1>3 DEF SetToSeq
<1>5. S # {} => Cardinality(S) # 0
  BY <1>2 DEF Bijection, Surjection
<1>6. SetToSeq(S) \in Seq(S)
  BY <1>1, <1>4
<1>7. S # {} => SetToSeq(S) # << >>
  BY <1>1, <1>4, <1>5
<1> QED BY <1>4, <1>6, <1>7 DEF IsInjective

\* The cohort of a configuration has one controller for each fan with a
\* control, at the fan's path.
LEMMA Cohort ==
    ASSUME NEW conf \in Config
    PROVE  /\ Controllers(conf) \in Seq(Controller)
           /\ \A i \in DOMAIN Controllers(conf) :
                /\ Controllers(conf)[i].fan \in Bound(conf)
                /\ Controllers(conf)[i].path = conf[Controllers(conf)[i].fan].path
           /\ \A i, j \in DOMAIN Controllers(conf) :
                Controllers(conf)[i].fan = Controllers(conf)[j].fan => i = j
           /\ Bound(conf) # {} => Controllers(conf) # << >>
<1> DEFINE one(f) == [fan |-> f, path |-> conf[f].path, st |-> "running"]
           S == {one(f) : f \in Bound(conf)}
           c == Controllers(conf)
<1>1. Bound(conf) \subseteq Fan /\ \A f \in Bound(conf) : conf[f] \in Entry
  BY ConfigEntries DEF Bound
<1>2. \A f \in Bound(conf) : one(f) \in Controller /\ one(f).fan = f /\ one(f).path = conf[f].path
  BY <1>1 DEF Controller, Entry
<1>3. IsFiniteSet(S)
  <2> DEFINE m == [f \in Bound(conf) |-> one(f)]
  <2>1. m \in Surjection(Bound(conf), S)
    BY DEF Surjection
  <2>2. IsFiniteSet(Bound(conf))
    BY <1>1, FS_Subset, LoopAssumption
  <2> HIDE DEF m, S
  <2> QED BY <2>1, <2>2, FS_Surjection
<1>4. c = SetToSeq(S)
  BY DEF Controllers
<1>5. /\ c \in [1 .. Cardinality(S) -> S] /\ c \in Seq(S)
      /\ \A i, j \in DOMAIN c : c[i] = c[j] => i = j
      /\ S # {} => c # << >>
  <2> HIDE DEF S, c
  <2> QED BY <1>3, <1>4, Enumeration
<1>6. S \subseteq Controller
  BY <1>2
<1>7. \A i \in DOMAIN c : c[i] \in S
  <2> HIDE DEF S, c
  <2> QED BY <1>5
<1>8. \A i \in DOMAIN c : c[i].fan \in Bound(conf) /\ c[i] = one(c[i].fan)
  <2> HIDE DEF c
  <2> QED BY <1>7
<1>9. c \in Seq(Controller)
  <2> HIDE DEF S, c
  <2> QED BY <1>5, <1>6
<1>10. Bound(conf) # {} => S # {}
  OBVIOUS
<1>11. \A i, j \in DOMAIN c : c[i].fan = c[j].fan => i = j
  <2> HIDE DEF S, c, one
  <2> QED BY <1>5, <1>8
<1> HIDE DEF S, c, one
<1>12. \A i \in DOMAIN c : c[i].path = conf[c[i].fan].path
  BY <1>2, <1>8
<1> QED BY <1>5, <1>8, <1>9, <1>10, <1>11, <1>12 DEF c

-----------------------------------------------------------------------------
(* Types.                                                                  *)

\* One slot of errCh per controller of the first file, and one for the web.
LEMMA Capacity == Cardinality(Startup) \in Nat /\ Cap \in Nat
<1>1. IsFiniteSet(Startup)
  BY LoopAssumption, FS_Subset
<1>2. Cardinality(Startup) \in Nat
  BY <1>1, FS_CardinalityType
<1> QED BY <1>2 DEF Cap

\* Registrations stay within their bound.
LEMMA Registered ==
    ASSUME NEW regs \in [Path -> 0 .. MaxStack], NEW P, NEW Q
    PROVE  /\ Push(regs, P) \in [Path -> 0 .. MaxStack]
           /\ Push(Pop(regs, Q), P) \in [Path -> 0 .. MaxStack]
<1>1. MaxStack \in Nat
  BY LoopAssumption
<1>2. ASSUME NEW r \in [Path -> 0 .. MaxStack]
      PROVE  Push(r, P) \in [Path -> 0 .. MaxStack]
  BY <1>1 DEF Push
<1>3. Pop(regs, Q) \in [Path -> 0 .. MaxStack]
  BY <1>1 DEF Pop
<1> QED BY <1>2, <1>3

\* A daemon that starts with a file has the types.
LEMMA StartedTyped ==
    ASSUME NEW file \in Config, StartedWith(file)
    PROVE  LoopTypeOK
<1>1. sys \in [Fan -> Path \cup {Gone}] /\ added \subseteq Fan
  BY LoopAssumption DEF StartedWith
<1>2. disk \in Config /\ live \in Config
  BY EnrichedConfig DEF StartedWith
<1>3. ctl \in Seq(Controller)
  BY <1>2, Cohort DEF StartedWith
<1>4. loaded \in Load
  <2>1. << >> \in [{} -> Entry]
    OBVIOUS
  <2>2. << >> \in Config
    BY <2>1, ConfigEntries
  <2> QED BY <2>2 DEF StartedWith, NoLoad, Load
<1>5. errq \in 0 .. Cardinality(Startup) + 1 /\ edits \in 0 .. MaxEdits /\ moved \in 0 .. MaxMoves
  BY Capacity, LoopAssumption DEF StartedWith
<1>6. entries \in [Path -> 0 .. MaxStack]
  BY LoopAssumption DEF StartedWith
<1>7. /\ edit = "none" /\ main = "serving" /\ restart = FALSE /\ sig = "none" /\ web = "up"
  BY DEF StartedWith
<1> QED BY <1>1, <1>2, <1>3, <1>4, <1>5, <1>6, <1>7 DEF LoopTypeOK

\* The two files the daemon starts with are configurations.
LEMMA FirstFiles == FirstFile \in Config /\ BothBound \in Config
<1>1. \A f \in Fan : Home[f] \in Path
  BY LoopAssumption
<1>2. FirstFile \in [IF Startup = {} THEN {} ELSE Fan -> Entry]
  BY <1>1 DEF FirstFile, Entry
<1>3. BothBound \in [Fan -> Entry]
  BY <1>1 DEF BothBound, Entry
<1> QED BY <1>2, <1>3, ConfigEntries

\* A controller that moves on is a controller, of the same fan at the same
\* path.
LEMMA MovedOn ==
    ASSUME NEW c \in Seq(Controller), NEW i \in DOMAIN c,
           NEW st \in {"running", "sending", "left"}
    PROVE  /\ [c EXCEPT ![i].st = st] \in Seq(Controller)
           /\ DOMAIN [c EXCEPT ![i].st = st] = DOMAIN c
           /\ \A j \in DOMAIN c : [c EXCEPT ![i].st = st][j].path = c[j].path
<1> DEFINE next == [c[i] EXCEPT !.st = st]
           d == [c EXCEPT ![i] = next]
<1>1. [c EXCEPT ![i].st = st] = d
  OBVIOUS
<1>2. c[i] \in Controller
  OBVIOUS
<1>3. \A k \in Controller : [k EXCEPT !.st = st] \in Controller /\ [k EXCEPT !.st = st].path = k.path
  BY DEF Controller
<1>4. next \in Controller /\ next.path = c[i].path
  BY <1>2, <1>3
<1> HIDE DEF next
<1>5. d \in Seq(Controller) /\ DOMAIN d = DOMAIN c
  BY <1>4
<1>6. \A j \in DOMAIN c : d[j].path = c[j].path
  BY <1>4
<1> QED BY <1>1, <1>5, <1>6

\* Every step keeps the types.
LEMMA LoopTypeStep ==
    ASSUME LoopTypeOK, [LoopNext]_loopVars
    PROVE  LoopTypeOK'
<1> USE DEF LoopTypeOK
<1>1. CASE Reload \/ Hangup
  <2>1. PICK hup \in BOOLEAN : Reads(hup)
    BY <1>1 DEF Reload, Hangup
  <2>2. loaded' \in Load /\ main' \in {"serving", "loaded", "rebinding", "stopping", "returned"}
    <3>1. CASE LoadFails(disk)
      BY <2>1, <3>1 DEF Reads
    <3>2. CASE ~LoadFails(disk)
      <4>1. Anchor(disk) \in Config
        BY <3>2, AnchoredConfig
      <4>2. Rebased(Anchor(disk)) \in Config /\ Moves(Anchor(disk)) \subseteq Move
        BY <4>1, RebasedConfig, MovesTypes
      <4>3. loaded' = IF hup THEN [conf |-> Anchor(disk), moves |-> {}, hup |-> TRUE]
                      ELSE [conf |-> Rebased(Anchor(disk)),
                            moves |-> Moves(Anchor(disk)), hup |-> FALSE]
        BY <2>1, <3>2 DEF Reads
      <4>4. main' = "loaded"
        BY <2>1, <3>2 DEF Reads
      <4> QED BY <4>1, <4>2, <4>3, <4>4 DEF Load
    <3> QED BY <3>1, <3>2
  <2>3. restart' \in BOOLEAN /\ sig' \in {"none", "hup", "term"}
    BY <1>1 DEF Reload, Hangup
  <2>4. UNCHANGED <<machine, config, cohort, entries>>
    BY <2>1 DEF Reads
  <2> QED BY <2>2, <2>3, <2>4 DEF machine, config, cohort
<1>2. CASE LoadStores
  <2>1. live' \in Config
    BY <1>2 DEF LoadStores, Load
  <2>2. loaded' \in Load
    <3>1. << >> \in [{} -> Entry]
      OBVIOUS
    <3>2. << >> \in Config
      BY <3>1, ConfigEntries
    <3>3. NoLoad \in Load
      BY <3>2 DEF NoLoad, Load
    <3> QED BY <1>2, <3>3 DEF LoadStores, Settle
  <2>3. ctl' \in Seq(Controller)
    <3>1. loaded.conf \in Config
      BY DEF Load
    <3>2. Controllers(loaded.conf) \in Seq(Controller)
      BY <3>1, Cohort
    <3>3. ctl \o Controllers(loaded.conf) \in Seq(Controller)
      BY <3>2
    <3>4. ctl' = ctl \/ ctl' = ctl \o Controllers(loaded.conf)
      BY <1>2 DEF LoadStores
    <3> QED BY <3>3, <3>4
  <2>4. entries' \in [Path -> 0 .. MaxStack]
    <3>1. entries' = entries \/ entries' = Push(entries, {loaded.conf[f].path : f \in DOMAIN loaded.conf})
      BY <1>2 DEF LoadStores
    <3>2. entries \in [Path -> 0 .. MaxStack]
      OBVIOUS
    <3>3. Push(entries, {loaded.conf[f].path : f \in DOMAIN loaded.conf}) \in [Path -> 0 .. MaxStack]
      BY <3>2, Registered
    <3> QED BY <3>1, <3>2, <3>3
  <2>5. main' \in {"serving", "rebinding"}
    BY <1>2 DEF LoadStores, Settle
  <2>6. UNCHANGED <<machine, disk, edit, edits, restart, web, errq, sig>>
    BY <1>2 DEF LoadStores
  <2> QED BY <2>1, <2>2, <2>3, <2>4, <2>5, <2>6 DEF machine
<1>3. CASE Rebound
  <2>1. ctl' \in Seq(Controller)
    BY <1>3, Cohort DEF Rebound, Load
  <2>2. entries' \in [Path -> 0 .. MaxStack]
    BY <1>3, Registered DEF Rebound
  <2>3. loaded' \in Load /\ main' = "serving"
    <3>1. << >> \in [{} -> Entry]
      OBVIOUS
    <3>2. << >> \in Config
      BY <3>1, ConfigEntries
    <3>3. NoLoad \in Load
      BY <3>2 DEF NoLoad, Load
    <3> QED BY <1>3, <3>3 DEF Rebound, Settle
  <2>4. UNCHANGED <<machine, config, restart, web, errq, sig>>
    BY <1>3 DEF Rebound
  <2> QED BY <2>1, <2>2, <2>3, <2>4 DEF machine, config
<1>4. CASE Terminate
  BY <1>4 DEF Terminate, Shut, machine, config
<1>5. CASE ReadError
  <2>1. errq' \in 0 .. Cardinality(Startup) + 1
    BY <1>5, Capacity DEF ReadError
  <2>2. main' = "stopping" /\ web' \in {"up", "sending", "down"}
    BY <1>5 DEF ReadError, Shut
  <2>3. UNCHANGED <<machine, config, loaded, restart, ctl, sig, entries>>
    BY <1>5 DEF ReadError
  <2> QED BY <2>1, <2>2, <2>3 DEF machine, config
<1>6. CASE Return
  BY <1>6 DEF Return, machine, config, cohort
<1>7. ASSUME NEW i \in DOMAIN ctl, Leave(i) \/ Fail(i) \/ Send(i) PROVE LoopTypeOK'
  <2>1. \A st \in {"running", "sending", "left"} : [ctl EXCEPT ![i].st = st] \in Seq(Controller)
    BY MovedOn
  <2>2. ctl' \in Seq(Controller)
    BY <1>7, <2>1 DEF Leave, Fail, Send
  <2>3. errq' \in 0 .. Cardinality(Startup) + 1
    BY <1>7, Capacity DEF Leave, Fail, Send, Cap
  <2>4. UNCHANGED <<machine, config, loop, web, sig, entries>>
    BY <1>7 DEF Leave, Fail, Send
  <2> QED BY <2>2, <2>3, <2>4 DEF machine, config, loop
<1>8. CASE WebFails \/ WebSends
  <2>1. errq' \in 0 .. Cardinality(Startup) + 1
    BY <1>8, Capacity DEF WebFails, WebSends, Cap
  <2>2. web' \in {"sending", "down"} /\ UNCHANGED <<machine, config, loop, ctl, sig, entries>>
    BY <1>8 DEF WebFails, WebSends
  <2> QED BY <2>1, <2>2 DEF machine, config, loop
<1>9. ASSUME NEW h \in Handlers, NEW B \in Bindings, EditSaves(h, B) PROVE LoopTypeOK'
  <2>1. h \in Handler /\ B \in SUBSET Fan
    BY LoopAssumption
  <2>2. disk' \in Config
    BY <1>9, <2>1, EditedConfig DEF EditSaves
  <2>3. edits' \in 0 .. MaxEdits
    BY <1>9, LoopAssumption DEF EditSaves
  <2>4. edit' = h /\ UNCHANGED <<machine, live, loop, cohort, sig, entries>>
    BY <1>9 DEF EditSaves
  <2> QED BY <2>1, <2>2, <2>3, <2>4 DEF machine, loop, cohort
<1>10. CASE EditEnds
  BY <1>10 DEF EditEnds, machine, cohort
<1>11. CASE SendHangup \/ SendTerm
  BY <1>11 DEF SendHangup, SendTerm, machine, config, loop, cohort
<1>12. ASSUME NEW f \in Fan, Unplug(f) \/ Trigger(f) \/ TriggerDropped(f) PROVE LoopTypeOK'
  <2>1. CASE Unplug(f)
    <3>1. moved' \in 0 .. MaxMoves
      BY <2>1, LoopAssumption DEF Unplug
    <3>2. sys' \in [Fan -> Path \cup {Gone}] /\ added' \subseteq Fan
      BY <2>1 DEF Unplug
    <3>3. UNCHANGED <<config, loop, cohort, sig, entries>>
      BY <2>1 DEF Unplug
    <3> QED BY <3>1, <3>2, <3>3 DEF config, loop, cohort
  <2>2. CASE Trigger(f)
    BY <2>2 DEF Trigger, config, cohort
  <2>3. CASE TriggerDropped(f)
    BY <2>3 DEF TriggerDropped, config, loop, cohort
  <2> QED BY <1>12, <2>1, <2>2, <2>3
<1>13. ASSUME NEW f \in Fan, NEW p \in Path, Plug(f, p) PROVE LoopTypeOK'
  BY <1>13 DEF Plug, config, loop, cohort
<1>14. CASE MonitorTick
  BY <1>14 DEF MonitorTick, machine, config, cohort
<1>15. CASE UNCHANGED loopVars
  BY <1>15 DEF loopVars, machine, config, loop, cohort
<1> QED
  BY <1>1, <1>2, <1>3, <1>4, <1>5, <1>6, <1>7, <1>8, <1>9, <1>10, <1>11, <1>12, <1>13, <1>14,
     <1>15 DEF LoopNext

\* LoopTypeOK: every variable of the main loop keeps its range; no more errors
\* wait in errCh than it has slots (cmd/ventd/main.go).  For any fans, paths,
\* files and handlers.
THEOREM LoopTyped == LiveLoopParts => []LoopTypeOK
<1>1. PartsInit => LoopTypeOK
  BY StartedTyped, FirstFiles DEF PartsInit, LoopInit
<1>2. LoopTypeOK /\ [PartsNext]_<<part, loopVars>> => LoopTypeOK'
  BY LoopTypeStep DEF PartsNext
<1> QED BY <1>1, <1>2, PTL DEF LiveLoopParts

-----------------------------------------------------------------------------
(* One writer of each path.                                                *)

\* No two entries of a configuration are at one path; no two of those that
\* have no chip_name; all have one.
PathsApart(conf) ==
    \A f, g \in DOMAIN conf : conf[f].path = conf[g].path => f = g
NamelessApart(conf) ==
    \A f, g \in DOMAIN conf :
        conf[f].chip = NoChip /\ conf[g].chip = NoChip /\ conf[f].path = conf[g].path => f = g
AllNamed(conf) == \A f \in DOMAIN conf : conf[f].chip # NoChip

\* A hwmon directory has one chip.
DirectoriesApart == \A f, g \in Fan : sys[f] = sys[g] /\ sys[f] # Gone => f = g

\* What is read keeps the bound fans of the file.
LEMMA LoadKeepsBound ==
    ASSUME NEW conf \in Config, ~LoadFails(conf), sys \in [Fan -> Path \cup {Gone}]
    PROVE  /\ Bound(Anchor(conf)) = Bound(conf)
           /\ Bound(Rebased(Anchor(conf))) = Bound(conf)
<1>1. Anchor(conf) \in Config
  BY AnchoredConfig
<1>2. Bound(Anchor(conf)) = Bound(conf)
  BY AnchoredConfig DEF Bound
<1>3. Bound(Rebased(Anchor(conf))) = Bound(Anchor(conf))
  BY <1>1, RebasedConfig DEF Bound
<1> QED BY <1>2, <1>3

\* A file whose nameless entries are apart loads with all entries apart, when
\* every entry says which device it is: those with a name are where their chips
\* are, those without at paths where no chip is.
LEMMA LoadsApart ==
    ASSUME NEW conf \in Config, ~LoadFails(conf), NamelessApart(conf), Anchored = Fan,
           DirectoriesApart, sys \in [Fan -> Path \cup {Gone}]
    PROVE  PathsApart(Anchor(conf)) /\ PathsApart(Rebased(Anchor(conf)))
<1> DEFINE e == Enriched(conf)
           a == Anchor(conf)
           r == Rebased(a)
<1>1. /\ DOMAIN e = DOMAIN conf /\ DOMAIN a = DOMAIN conf /\ DOMAIN r = DOMAIN conf
      /\ DOMAIN conf \subseteq Fan
  <2>1. a \in Config
    BY AnchoredConfig
  <2> QED BY <2>1, EnrichedConfig, AnchoredConfig, RebasedConfig, ConfigEntries
<1>2. ASSUME NEW f \in DOMAIN conf
      PROVE  \/ e[f].chip = f /\ sys[f] # Gone /\ a[f].path = sys[f]
             \/ /\ conf[f].chip = NoChip /\ ~Occupied(conf[f].path) /\ a[f].path = conf[f].path
  <2>1. e[f].chip # NoChip => sys[e[f].chip] # Gone /\ e[f].chip = f
    BY <1>1 DEF LoadFails
  <2>2. a[f].path = IF e[f].chip = NoChip THEN conf[f].path ELSE sys[e[f].chip]
    BY AnchoredConfig
  <2>3. e[f].chip = IF conf[f].chip # NoChip THEN conf[f].chip ELSE Occupant(conf[f].path)
    BY EnrichedConfig
  <2>4. (Occupant(conf[f].path) = NoChip) <=> ~Occupied(conf[f].path)
    BY Occupants
  <2> HIDE DEF e, a
  <2> QED BY <2>1, <2>2, <2>3, <2>4
<1>3. ASSUME NEW f \in DOMAIN conf
      PROVE  \/ sys[f] # Gone /\ r[f].path = sys[f]
             \/ conf[f].chip = NoChip /\ ~Occupied(conf[f].path) /\ r[f].path = conf[f].path
  <2>1. a \in Config
    BY AnchoredConfig
  <2>2. r[f].path = IF f \in Anchored /\ sys[f] # Gone /\ ~Occupied(a[f].path) THEN sys[f] ELSE a[f].path
    BY <1>1, <2>1, RebasedConfig
  <2> HIDE DEF e, a, r
  <2> QED BY <1>2, <2>2
<1>4. \A f, g \in DOMAIN conf :
        /\ sys[f] # Gone /\ sys[f] = sys[g] => f = g
        /\ sys[f] # Gone => Occupied(sys[f])
  BY <1>1 DEF DirectoriesApart, Occupied
<1>5. \A f, g \in DOMAIN conf :
        conf[f].chip = NoChip /\ conf[g].chip = NoChip /\ conf[f].path = conf[g].path => f = g
  BY DEF NamelessApart
<1> HIDE DEF e, a, r
<1>6. PathsApart(a)
  BY <1>1, <1>2, <1>4, <1>5 DEF PathsApart
<1>7. PathsApart(r)
  BY <1>1, <1>3, <1>4, <1>5 DEF PathsApart
<1> QED BY <1>6, <1>7 DEF a, r

\* What config.Save leaves without a name had none before, and its path is kept:
\* an entry that is added is at a path where there is a chip.
LEMMA SavedEntries ==
    ASSUME sys \in [Fan -> Path \cup {Gone}], NEW base \in Config, NEW B \in SUBSET Fan,
           NEW f \in DOMAIN Enriched(Rewritten(base, B)),
           Enriched(Rewritten(base, B))[f].chip = NoChip
    PROVE  /\ f \in DOMAIN base /\ base[f].chip = NoChip
           /\ Enriched(Rewritten(base, B))[f].path = base[f].path
<1> DEFINE w == Rewritten(base, B)
           e == Enriched(w)
<1>1. w \in Config
  BY RewrittenConfig, Zenon
<1>2. DOMAIN e = DOMAIN w /\ DOMAIN w \subseteq Fan
  BY <1>1, EnrichedConfig, ConfigEntries
<1>3. /\ e[f].path = w[f].path
      /\ e[f].chip = IF w[f].chip # NoChip THEN w[f].chip ELSE Occupant(w[f].path)
  BY <1>1, <1>2, EnrichedConfig
<1>4. DOMAIN w = {g \in Fan : g \in DOMAIN base \/ sys[g] # Gone}
  BY RewrittenConfig
<1>5. \A g \in DOMAIN w :
        /\ w[g].path = IF g \in DOMAIN base THEN base[g].path ELSE sys[g]
        /\ w[g].chip = IF g \in DOMAIN base THEN base[g].chip ELSE NoChip
  <2>1. Rewrites(base, B)
    BY RewrittenConfig
  <2> QED BY <2>1, Zenon DEF Rewrites
<1>6. sys[f] # Gone => Occupant(sys[f]) # NoChip
  BY <1>2, Occupants DEF Occupied
<1> HIDE DEF w, e
<1> QED BY <1>2, <1>3, <1>4, <1>5, <1>6 DEF w, e

\* What an edit by a handler of the web server leaves has its nameless entries
\* apart, if the live configuration has: it names every entry it can.
LEMMA EditsApart ==
    ASSUME disk \in Config, live \in Config, sys \in [Fan -> Path \cup {Gone}],
           NamelessApart(live), NEW h \in Handler \ {"hand"}, NEW B \in SUBSET Fan
    PROVE  NamelessApart(Edited(h, B))
<1>1. ASSUME NEW base \in Config, NamelessApart(base)
      PROVE  NamelessApart(Enriched(Rewritten(base, B)))
  <2> DEFINE e == Enriched(Rewritten(base, B))
  <2>1. \A f \in DOMAIN e : e[f].chip = NoChip =>
            f \in DOMAIN base /\ base[f].chip = NoChip /\ e[f].path = base[f].path
    BY SavedEntries
  <2> HIDE DEF e
  <2>2. \A f, g \in DOMAIN e : e[f].chip = NoChip /\ e[g].chip = NoChip /\ e[f].path = e[g].path => f = g
    BY <1>1, <2>1 DEF NamelessApart
  <2> QED BY <2>2 DEF NamelessApart, e
<1>2. << >> \in Config /\ NamelessApart(<< >>)
  <2>1. << >> \in [{} -> Entry]
    OBVIOUS
  <2> QED BY <2>1, ConfigEntries DEF NamelessApart
<1>3. CASE h = "put"
  BY <1>1, <1>3 DEF Edited
<1>4. CASE h = "patch"
  <2>1. Edited(h, B) = Enriched(live)
    BY <1>4 DEF Edited
  <2>2. /\ DOMAIN Enriched(live) = DOMAIN live
        /\ \A f \in DOMAIN live :
             /\ Enriched(live)[f].path = live[f].path
             /\ Enriched(live)[f].chip = NoChip => live[f].chip = NoChip
    BY EnrichedConfig
  <2>3. NamelessApart(Enriched(live))
    BY <2>2 DEF NamelessApart
  <2> QED BY <2>1, <2>3
<1>5. CASE h = "setup"
  <2>1. Edited(h, B) = << >> \/ Edited(h, B) = Enriched(Rewritten(<< >>, B))
    BY <1>5 DEF Edited
  <2> QED BY <1>1, <1>2, <2>1
<1> QED BY <1>3, <1>4, <1>5 DEF Handler

\* An edit leaves a control where there was one, and an operator who edits the
\* file by hand leaves no two nameless entries at one path.
CarefulEdits ==
    /\ Bound(disk) # {} => Bound(disk') # {}
    /\ edit' = "hand" => NamelessApart(disk')

\* No two controllers of the cohort are at one path, in any state.
CohortApart == \A i, j \in DOMAIN ctl : ctl[i].path = ctl[j].path => i = j

\* The inductive invariant.  Once there is a cohort, the file, what is read of
\* it and the live configuration have a control, so that no reload takes the
\* branch of the first controls, which does not drain.
SoleWriterInv ==
    /\ DirectoriesApart
    /\ NamelessApart(disk) /\ NamelessApart(live)
    /\ main \in {"loaded", "rebinding"} => PathsApart(loaded.conf)
    /\ main \in {"loaded", "rebinding"} /\ Bound(loaded.conf) # {} => Bound(disk) # {}
    /\ Bound(live) # {} => Bound(disk) # {}
    /\ ctl # << >> \/ main = "rebinding" => Bound(live) # {}
    /\ ctl # << >> /\ main = "loaded" => Bound(loaded.conf) # {}
    /\ CohortApart

\* The cohort of a configuration whose entries are apart is apart.
LEMMA CohortsApart ==
    ASSUME NEW conf \in Config, PathsApart(conf)
    PROVE  \A i, j \in DOMAIN Controllers(conf) :
               Controllers(conf)[i].path = Controllers(conf)[j].path => i = j
<1> DEFINE c == Controllers(conf)
<1>1. /\ \A i \in DOMAIN c : c[i].fan \in Bound(conf) /\ c[i].path = conf[c[i].fan].path
      /\ \A i, j \in DOMAIN c : c[i].fan = c[j].fan => i = j
  BY Cohort
<1>2. Bound(conf) \subseteq DOMAIN conf
  BY DEF Bound
<1> HIDE DEF c
<1>3. \A i, j \in DOMAIN c : c[i].path = c[j].path => i = j
  BY <1>1, <1>2 DEF PathsApart
<1> QED BY <1>3 DEF c

\* It holds when the daemon starts with either file.
LEMMA SoleWriterInit == PartsInit => LoopTypeOK /\ SoleWriterInv
<1> SUFFICES ASSUME NEW file \in {FirstFile, BothBound}, StartedWith(file)
             PROVE  LoopTypeOK /\ SoleWriterInv
  BY DEF PartsInit, LoopInit
<1>1. file \in Config
  BY FirstFiles
<1>2. LoopTypeOK
  BY <1>1, StartedTyped
<1>3. DirectoriesApart
  BY LoopAssumption DEF StartedWith, DirectoriesApart
<1>4. \A f \in DOMAIN file : f \in Fan /\ file[f].path = Home[f]
  BY DEF FirstFile, BothBound
<1>5. PathsApart(file)
  BY <1>4, LoopAssumption DEF PathsApart
<1>6. disk = file /\ live = Enriched(file) /\ live \in Config /\ main = "serving" /\ ctl = Controllers(live)
  BY <1>1, EnrichedConfig DEF StartedWith
<1>7. DOMAIN live = DOMAIN file /\ \A f \in DOMAIN file : live[f].path = file[f].path /\ live[f].bound = file[f].bound
  BY <1>1, <1>6, EnrichedConfig
<1>8. PathsApart(live)
  BY <1>5, <1>7 DEF PathsApart
<1>9. Bound(live) = Bound(disk)
  BY <1>6, <1>7 DEF Bound
<1>10. CohortApart
  BY <1>6, <1>8, CohortsApart DEF CohortApart
<1>11. ctl # << >> => Bound(live) # {}
  <2>1. ctl # << >> /\ ctl \in Seq(Controller) => \E i \in DOMAIN ctl : TRUE
    OBVIOUS
  <2>2. \A i \in DOMAIN ctl : ctl[i].fan \in Bound(live)
    BY <1>6, Cohort
  <2> QED BY <1>2, <2>1, <2>2 DEF LoopTypeOK
<1>12. NamelessApart(disk) /\ NamelessApart(live)
  BY <1>5, <1>6, <1>8 DEF PathsApart, NamelessApart
<1> QED BY <1>2, <1>3, <1>6, <1>9, <1>10, <1>11, <1>12 DEF SoleWriterInv

\* Every step whose edits are careful keeps it.
LEMMA SoleWriterStep ==
    ASSUME LoopTypeOK, SoleWriterInv, Anchored = Fan, [LoopNext]_loopVars, CarefulEdits \/ UNCHANGED loopVars
    PROVE  SoleWriterInv'
<1>1. /\ sys \in [Fan -> Path \cup {Gone}] /\ disk \in Config /\ live \in Config
      /\ loaded.conf \in Config /\ ctl \in Seq(Controller)
  BY DEF LoopTypeOK, Load
<1>2. CASE Reload \/ Hangup
  <2>1. PICK hup \in BOOLEAN : Reads(hup)
    BY <1>2 DEF Reload, Hangup
  <2>2. UNCHANGED <<sys, disk, live, ctl>> /\ main = "serving"
    BY <2>1 DEF Reads, machine, config, cohort
  <2>3. CASE LoadFails(disk)
    <3>1. main' = "serving"
      BY <2>1, <2>2, <2>3 DEF Reads
    <3> QED BY <2>2, <3>1 DEF SoleWriterInv, DirectoriesApart, NamelessApart, Bound, CohortApart
  <2>4. CASE ~LoadFails(disk)
    <3>1. main' = "loaded" /\ (loaded'.conf = Anchor(disk) \/ loaded'.conf = Rebased(Anchor(disk)))
      BY <2>1, <2>4 DEF Reads
    <3>2. PathsApart(Anchor(disk)) /\ PathsApart(Rebased(Anchor(disk)))
      BY <1>1, <2>4, LoadsApart DEF SoleWriterInv
    <3>3. Bound(Anchor(disk)) = Bound(disk) /\ Bound(Rebased(Anchor(disk))) = Bound(disk)
      BY <1>1, <2>4, LoadKeepsBound
    <3>4. PathsApart(loaded'.conf) /\ Bound(loaded'.conf) = Bound(disk)
      BY <3>1, <3>2, <3>3
    <3>5. SoleWriterInv' <=>
            /\ DirectoriesApart /\ NamelessApart(disk) /\ NamelessApart(live)
            /\ main' \in {"loaded", "rebinding"} => PathsApart(loaded'.conf)
            /\ main' \in {"loaded", "rebinding"} /\ Bound(loaded'.conf) # {} => Bound(disk) # {}
            /\ Bound(live) # {} => Bound(disk) # {}
            /\ ctl # << >> \/ main' = "rebinding" => Bound(live) # {}
            /\ ctl # << >> /\ main' = "loaded" => Bound(loaded'.conf) # {}
            /\ CohortApart
      BY <2>2 DEF SoleWriterInv, DirectoriesApart, CohortApart
    <3> QED BY <3>1, <3>4, <3>5 DEF SoleWriterInv
  <2> QED BY <2>3, <2>4
<1>3. CASE LoadStores
  <2>1. /\ main = "loaded" /\ live' = loaded.conf /\ UNCHANGED <<sys, disk>>
        /\ main' \in {"serving", "rebinding"} /\ (main' = "rebinding" => loaded' = loaded)
        /\ main' = "rebinding" => Bound(live') # {}
        /\ ctl' = ctl \/ (Bound(live) = {} /\ Bound(loaded.conf) # {} /\ ctl' = ctl \o Controllers(loaded.conf))
    BY <1>3 DEF LoadStores, Settle, FirstControls, ControlledFanMoved, machine
  <2>2. PathsApart(live') /\ NamelessApart(live')
    BY <2>1 DEF SoleWriterInv, PathsApart, NamelessApart
  <2>3. CohortApart' /\ (ctl' # << >> => Bound(live') # {})
    <3>1. CASE ctl' = ctl
      BY <2>1, <3>1 DEF SoleWriterInv, CohortApart
    <3>2. CASE Bound(live) = {} /\ Bound(loaded.conf) # {} /\ ctl' = ctl \o Controllers(loaded.conf)
      <4>1. ctl = << >>
        BY <3>2 DEF SoleWriterInv
      <4>2. Controllers(loaded.conf) \in Seq(Controller)
        BY <1>1, Cohort
      <4>3. ctl' = Controllers(loaded.conf)
        BY <3>2, <4>1, <4>2
      <4> QED BY <1>1, <2>1, <2>2, <3>2, <4>3, CohortsApart DEF CohortApart
    <3> QED BY <2>1, <3>1, <3>2
  <2> QED BY <2>1, <2>2, <2>3 DEF SoleWriterInv, DirectoriesApart
<1>4. CASE Rebound
  <2>1. main = "rebinding" /\ main' = "serving" /\ UNCHANGED <<sys, disk, live>> /\ ctl' = Controllers(loaded.conf)
    BY <1>4 DEF Rebound, Settle, machine, config
  <2>2. CohortApart'
    BY <1>1, <2>1, CohortsApart DEF SoleWriterInv, CohortApart
  <2> QED BY <2>1, <2>2 DEF SoleWriterInv, DirectoriesApart
<1>5. CASE Terminate \/ ReadError \/ Return
  <2>1. UNCHANGED <<sys, disk, live, ctl, loaded>> /\ main' \in {"stopping", "returned"}
    BY <1>5 DEF Terminate, ReadError, Return, Shut, machine, config, cohort
  <2> QED BY <2>1 DEF SoleWriterInv, DirectoriesApart, CohortApart
<1>6. ASSUME NEW i \in DOMAIN ctl, Leave(i) \/ Fail(i) \/ Send(i) PROVE SoleWriterInv'
  <2>1. UNCHANGED <<sys, disk, live, main, loaded>>
    BY <1>6 DEF Leave, Fail, Send, machine, config, loop
  <2>2. \E st \in {"running", "sending", "left"} : ctl' = [ctl EXCEPT ![i].st = st]
    BY <1>6 DEF Leave, Fail, Send
  <2>3. DOMAIN ctl' = DOMAIN ctl /\ \A j \in DOMAIN ctl : ctl'[j].path = ctl[j].path
    BY <1>1, <2>2, MovedOn
  <2>4. CohortApart'
    BY <2>3 DEF SoleWriterInv, CohortApart
  <2>5. ctl # << >>
    BY <1>1
  <2> QED BY <2>1, <2>4, <2>5 DEF SoleWriterInv, DirectoriesApart
<1>7. CASE WebFails \/ WebSends \/ SendHangup \/ SendTerm \/ MonitorTick \/ UNCHANGED loopVars
  <2>1. UNCHANGED <<sys, disk, live, ctl, main, loaded>>
    BY <1>7 DEF WebFails, WebSends, SendHangup, SendTerm, MonitorTick, loopVars, machine, config,
                loop, cohort
  <2> QED BY <2>1 DEF SoleWriterInv, DirectoriesApart, CohortApart
<1>8. ASSUME NEW h \in Handlers, NEW B \in Bindings, EditSaves(h, B) PROVE SoleWriterInv'
  <2>1. h \in Handler /\ B \in SUBSET Fan
    BY LoopAssumption
  <2>2. UNCHANGED <<sys, live, ctl, main, loaded>> /\ edit' = h /\ disk' = Edited(h, B)
    BY <1>8 DEF EditSaves, machine, loop, cohort
  <2>3. edit' # edit
    BY <1>8, <2>1 DEF EditSaves, Handler
  <2>4. CarefulEdits
    BY <2>3 DEF loopVars, config
  <2>5. NamelessApart(disk')
    BY <1>1, <2>1, <2>2, <2>4, EditsApart DEF SoleWriterInv, CarefulEdits
  <2>6. Bound(disk) # {} => Bound(disk') # {}
    BY <2>4 DEF CarefulEdits
  <2> QED BY <2>2, <2>5, <2>6 DEF SoleWriterInv, DirectoriesApart, CohortApart
<1>9. CASE EditEnds
  <2>1. UNCHANGED <<sys, disk, ctl, main, loaded>> /\ (live' = disk \/ live' = live)
    BY <1>9 DEF EditEnds, machine, cohort
  <2> QED BY <2>1 DEF SoleWriterInv, DirectoriesApart, CohortApart
<1>10. ASSUME NEW f \in Fan, Unplug(f) \/ Trigger(f) \/ TriggerDropped(f) PROVE SoleWriterInv'
  <2>1. UNCHANGED <<disk, live, ctl, main, loaded>>
    BY <1>10 DEF Unplug, Trigger, TriggerDropped, config, loop, cohort
  <2>2. sys' = sys \/ sys' = [sys EXCEPT ![f] = Gone]
    BY <1>10 DEF Unplug, Trigger, TriggerDropped
  <2>3. DirectoriesApart'
    BY <1>1, <2>2 DEF SoleWriterInv, DirectoriesApart
  <2> QED BY <2>1, <2>3 DEF SoleWriterInv, CohortApart
<1>11. ASSUME NEW f \in Fan, NEW p \in Path, Plug(f, p) PROVE SoleWriterInv'
  <2>1. UNCHANGED <<disk, live, ctl, main, loaded>> /\ sys' = [sys EXCEPT ![f] = p] /\ ~Occupied(p)
    BY <1>11 DEF Plug, config, loop, cohort
  <2>2. DirectoriesApart'
    BY <1>1, <2>1 DEF SoleWriterInv, DirectoriesApart, Occupied
  <2> QED BY <2>1, <2>2 DEF SoleWriterInv, CohortApart
<1> QED
  BY <1>2, <1>3, <1>4, <1>5, <1>6, <1>7, <1>8, <1>9, <1>10, <1>11 DEF LoopNext

\* OneWriterPerPath: no two controllers write one channel, across any number of
\* reloads, drains, respawns, renumberings and failures, in whatever order the
\* handlers' saves, stores and requests fall among them (runDaemonInternal of
\* cmd/ventd/main.go: "in production each channel has exactly one controller
\* goroutine").  Two things the code leaves to the operator are supposed: the
\* entries say which device they are, and the edits are careful.
THEOREM WritersAreAlone ==
    Anchored = Fan /\ LiveLoopParts /\ [][CarefulEdits]_loopVars => []OneWriterPerPath
<1> SUFFICES ASSUME Anchored = Fan
             PROVE  LiveLoopParts /\ [][CarefulEdits]_loopVars => []OneWriterPerPath
  OBVIOUS
<1>1. PartsInit => LoopTypeOK /\ SoleWriterInv
  BY SoleWriterInit
<1>2. LoopTypeOK /\ SoleWriterInv /\ [PartsNext]_<<part, loopVars>> /\ [CarefulEdits]_loopVars
        => (LoopTypeOK /\ SoleWriterInv)'
  <2> SUFFICES ASSUME LoopTypeOK, SoleWriterInv, [PartsNext]_<<part, loopVars>>, [CarefulEdits]_loopVars
               PROVE  (LoopTypeOK /\ SoleWriterInv)'
    OBVIOUS
  <2>1. [LoopNext]_loopVars
    BY DEF PartsNext
  <2> QED BY <2>1, LoopTypeStep, SoleWriterStep
<1>3. SoleWriterInv => OneWriterPerPath
  BY DEF SoleWriterInv, CohortApart, OneWriterPerPath
<1> QED BY <1>1, <1>2, <1>3, PTL DEF LiveLoopParts

-----------------------------------------------------------------------------
(* One registration of each path.                                          *)

\* As careful, and what an operator writes by hand has its chip_name, as what
\* config.Save writes has.
NamingEdits ==
    /\ Bound(disk) # {} => Bound(disk') # {}
    /\ edit' = "hand" => AllNamed(disk')

\* Enriching names an entry at a path where there is a chip.
LEMMA EditsNamed ==
    ASSUME disk \in Config, live \in Config, sys \in [Fan -> Path \cup {Gone}], AllNamed(live),
           NEW h \in Handler \ {"hand"}, NEW B \in SUBSET Fan
    PROVE  AllNamed(Edited(h, B))
<1>1. ASSUME NEW base \in Config, AllNamed(base)
      PROVE  AllNamed(Enriched(Rewritten(base, B)))
  <2> DEFINE e == Enriched(Rewritten(base, B))
  <2>1. \A f \in DOMAIN e : e[f].chip = NoChip => f \in DOMAIN base /\ base[f].chip = NoChip
    BY SavedEntries
  <2> HIDE DEF e
  <2>2. \A f \in DOMAIN e : e[f].chip # NoChip
    BY <1>1, <2>1 DEF AllNamed
  <2> QED BY <2>2 DEF AllNamed, e
<1>2. << >> \in Config /\ AllNamed(<< >>)
  <2>1. << >> \in [{} -> Entry]
    OBVIOUS
  <2> QED BY <2>1, ConfigEntries DEF AllNamed
<1>3. CASE h = "put"
  BY <1>1, <1>3 DEF Edited
<1>4. CASE h = "patch"
  <2>1. Edited(h, B) = Enriched(live)
    BY <1>4 DEF Edited
  <2>2. AllNamed(Enriched(live))
    BY EnrichedConfig DEF AllNamed
  <2> QED BY <2>1, <2>2
<1>5. CASE h = "setup"
  <2>1. Edited(h, B) = << >> \/ Edited(h, B) = Enriched(Rewritten(<< >>, B))
    BY <1>5 DEF Edited
  <2> QED BY <1>1, <1>2, <2>1
<1> QED BY <1>3, <1>4, <1>5 DEF Handler

\* A file whose entries are all named loads with all of them named, each where
\* its chip is: nothing is left to rebase.
LEMMA NamedLoads ==
    ASSUME NEW conf \in Config, ~LoadFails(conf), AllNamed(conf), sys \in [Fan -> Path \cup {Gone}]
    PROVE  /\ AllNamed(Anchor(conf)) /\ AllNamed(Rebased(Anchor(conf)))
           /\ Moves(Anchor(conf)) = {}
<1> DEFINE a == Anchor(conf)
           e == Enriched(conf)
<1>1. /\ DOMAIN e = DOMAIN conf
      /\ \A f \in DOMAIN conf : e[f].chip = conf[f].chip /\ e[f].chip \in Fan
  <2>1. \A f \in DOMAIN conf : conf[f].chip \in Fan
    BY ConfigEntries DEF Entry, AllNamed
  <2>2. DOMAIN e = DOMAIN conf /\ \A f \in DOMAIN conf : conf[f].chip # NoChip => e[f].chip = conf[f].chip
    BY EnrichedConfig
  <2> HIDE DEF e
  <2> QED BY <2>1, <2>2, LoopAssumption
<1>2. \A f \in DOMAIN conf : sys[e[f].chip] # Gone
  BY <1>1, LoopAssumption DEF LoadFails
<1>3. /\ a \in Config /\ DOMAIN a = DOMAIN conf
      /\ \A f \in DOMAIN conf : a[f].chip = e[f].chip /\ a[f].path = sys[e[f].chip]
  <2>1. /\ a \in Config /\ DOMAIN a = DOMAIN conf
        /\ \A f \in DOMAIN conf : /\ a[f].chip = e[f].chip
                                  /\ a[f].path = IF e[f].chip = NoChip THEN conf[f].path ELSE sys[e[f].chip]
    BY AnchoredConfig
  <2> HIDE DEF a, e
  <2> QED BY <1>1, <2>1, LoopAssumption
<1>4. AllNamed(a)
  <2> HIDE DEF a, e
  <2> QED BY <1>1, <1>3, LoopAssumption DEF AllNamed
<1>5. AllNamed(Rebased(a))
  <2>1. DOMAIN Rebased(a) = DOMAIN a /\ \A f \in DOMAIN a : Rebased(a)[f].chip = a[f].chip
    BY <1>3, RebasedConfig
  <2> HIDE DEF a, e
  <2> QED BY <1>4, <2>1 DEF AllNamed
<1>6. \A f \in DOMAIN a : Occupied(a[f].path)
  <2> HIDE DEF a, e
  <2> QED BY <1>1, <1>3 DEF Occupied
<1>7. Moves(a) = {}
  <2> HIDE DEF a, e
  <2> QED BY <1>6 DEF Moves
<1> QED BY <1>4, <1>5, <1>7

\* The inductive invariant of registrations: with every entry named no fan is
\* ever moved by a reload, and the first cohort comes with the first
\* registrations.
OneEntryInv ==
    /\ AllNamed(disk) /\ AllNamed(live)
    /\ main = "loaded" => AllNamed(loaded.conf) /\ loaded.moves = {}
    /\ main # "rebinding"
    /\ ctl = << >> => \A p \in Path : entries[p] = 0
    /\ NoStackedEntry

\* It holds at first.
LEMMA OneEntryInit == AllNamed(FirstFile) /\ LoopInit => OneEntryInv
<1> SUFFICES ASSUME AllNamed(FirstFile), LoopInit PROVE OneEntryInv
  OBVIOUS
<1>1. /\ disk = FirstFile /\ live = Enriched(FirstFile) /\ main = "serving" /\ ctl = Controllers(live)
      /\ entries = [p \in Path |-> IF \E f \in DOMAIN live : live[f].path = p THEN 1 ELSE 0]
  BY DEF LoopInit, StartedWith
<1>2. FirstFile \in Config
  BY FirstFiles
<1>3. /\ live \in Config /\ DOMAIN live = DOMAIN FirstFile
      /\ \A f \in DOMAIN live : /\ live[f].bound = FirstFile[f].bound
                                /\ FirstFile[f].chip # NoChip => live[f].chip = FirstFile[f].chip
  BY <1>1, <1>2, EnrichedConfig
<1>4. AllNamed(live)
  BY <1>3 DEF AllNamed
<1>5. NoStackedEntry
  BY <1>1 DEF NoStackedEntry
<1>6. ASSUME ctl = << >> PROVE \A p \in Path : entries[p] = 0
  <2>1. Bound(live) = {}
    BY <1>1, <1>3, <1>6, Cohort
  <2>2. DOMAIN live = {}
    <3>1. ASSUME NEW f \in Startup PROVE f \in Bound(live)
      <4>1. f \in DOMAIN FirstFile /\ FirstFile[f].bound
        BY LoopAssumption DEF FirstFile
      <4> QED BY <1>3, <4>1 DEF Bound
    <3>2. Startup = {}
      BY <2>1, <3>1
    <3> QED BY <1>3, <3>2 DEF FirstFile
  <2> QED BY <1>1, <2>2
<1> QED BY <1>1, <1>4, <1>5, <1>6 DEF OneEntryInv

\* Every step whose edits name their entries keeps it.
LEMMA OneEntryStep ==
    ASSUME LoopTypeOK, SoleWriterInv, OneEntryInv, [LoopNext]_loopVars,
           NamingEdits \/ UNCHANGED loopVars
    PROVE  OneEntryInv'
<1>1. /\ sys \in [Fan -> Path \cup {Gone}] /\ disk \in Config /\ live \in Config
      /\ loaded.conf \in Config /\ ctl \in Seq(Controller)
      /\ entries \in [Path -> 0 .. MaxStack] /\ MaxStack \in Nat
  BY LoopAssumption DEF LoopTypeOK, Load
<1>2. CASE Reload \/ Hangup
  <2>1. PICK hup \in BOOLEAN : Reads(hup)
    BY <1>2 DEF Reload, Hangup
  <2>2. UNCHANGED <<disk, live, ctl, entries>> /\ main = "serving"
    BY <2>1 DEF Reads, config, cohort
  <2>3. main' # "rebinding" /\ (main' = "loaded" => AllNamed(loaded'.conf) /\ loaded'.moves = {})
    <3>1. CASE LoadFails(disk)
      BY <2>1, <2>2, <3>1 DEF Reads
    <3>2. CASE ~LoadFails(disk)
      <4>1. /\ AllNamed(Anchor(disk)) /\ AllNamed(Rebased(Anchor(disk)))
            /\ Moves(Anchor(disk)) = {}
        BY <1>1, <3>2, NamedLoads DEF OneEntryInv
      <4>2. /\ main' = "loaded"
            /\ loaded'.conf = Anchor(disk) \/ loaded'.conf = Rebased(Anchor(disk))
            /\ loaded'.moves = {} \/ loaded'.moves = Moves(Anchor(disk))
        BY <2>1, <3>2 DEF Reads
      <4> QED BY <4>1, <4>2
    <3> QED BY <3>1, <3>2
  <2> QED BY <2>2, <2>3 DEF OneEntryInv, NoStackedEntry
<1>3. CASE LoadStores
  <2>1. /\ main = "loaded" /\ live' = loaded.conf /\ UNCHANGED disk
        /\ \/ main' = "serving" /\ UNCHANGED <<ctl, entries>>
           \/ /\ main' = "serving" /\ Bound(live) = {} /\ Bound(loaded.conf) # {}
              /\ ctl' = ctl \o Controllers(loaded.conf)
              /\ entries' = Push(entries, {loaded.conf[f].path : f \in DOMAIN loaded.conf})
    <3>1. ~ControlledFanMoved
      BY <1>3 DEF LoadStores, OneEntryInv, ControlledFanMoved
    <3> QED BY <1>3, <3>1 DEF LoadStores, Settle, FirstControls
  <2>2. CASE UNCHANGED <<ctl, entries>>
    BY <2>1, <2>2 DEF OneEntryInv, NoStackedEntry
  <2>3. CASE /\ Bound(live) = {} /\ Bound(loaded.conf) # {}
             /\ ctl' = ctl \o Controllers(loaded.conf)
             /\ entries' = Push(entries, {loaded.conf[f].path : f \in DOMAIN loaded.conf})
    <3>1. ctl = << >>
      BY <2>3 DEF SoleWriterInv
    <3>2. Controllers(loaded.conf) \in Seq(Controller) /\ Controllers(loaded.conf) # << >>
      BY <1>1, <2>3, Cohort
    <3>3. ctl' # << >>
      BY <2>3, <3>1, <3>2
    <3>4. \A p \in Path : entries[p] = 0
      BY <3>1 DEF OneEntryInv
    <3>5. \A p \in Path : entries'[p] <= 1
      BY <2>3, <3>4 DEF Push
    <3> QED BY <2>1, <3>3, <3>5 DEF OneEntryInv, NoStackedEntry
  <2> QED BY <2>1, <2>2, <2>3
<1>4. CASE Rebound
  BY <1>4 DEF Rebound, OneEntryInv
<1>5. CASE Terminate \/ ReadError \/ Return
  <2>1. UNCHANGED <<disk, live, ctl, entries, loaded>> /\ main' \in {"stopping", "returned"}
    BY <1>5 DEF Terminate, ReadError, Return, Shut, config, cohort
  <2> QED BY <2>1 DEF OneEntryInv, NoStackedEntry
<1>6. ASSUME NEW i \in DOMAIN ctl, Leave(i) \/ Fail(i) \/ Send(i) PROVE OneEntryInv'
  <2>1. UNCHANGED <<disk, live, main, loaded, entries>>
    BY <1>6 DEF Leave, Fail, Send, config, loop
  <2>2. ctl # << >>
    BY <1>1
  <2>3. \E st \in {"running", "sending", "left"} : ctl' = [ctl EXCEPT ![i].st = st]
    BY <1>6 DEF Leave, Fail, Send
  <2>4. DOMAIN ctl' = DOMAIN ctl
    BY <1>1, <2>3, MovedOn
  <2>5. ctl' # << >>
    BY <2>4
  <2> QED BY <2>1, <2>5 DEF OneEntryInv, NoStackedEntry
<1>7. CASE WebFails \/ WebSends \/ SendHangup \/ SendTerm \/ MonitorTick \/ UNCHANGED loopVars
  <2>1. UNCHANGED <<disk, live, ctl, main, loaded, entries>>
    BY <1>7 DEF WebFails, WebSends, SendHangup, SendTerm, MonitorTick, loopVars, config, loop, cohort
  <2> QED BY <2>1 DEF OneEntryInv, NoStackedEntry
<1>8. ASSUME NEW h \in Handlers, NEW B \in Bindings, EditSaves(h, B) PROVE OneEntryInv'
  <2>1. h \in Handler /\ B \in SUBSET Fan
    BY LoopAssumption
  <2>2. UNCHANGED <<live, ctl, main, loaded, entries>> /\ edit' = h /\ disk' = Edited(h, B)
    BY <1>8 DEF EditSaves, loop, cohort
  <2>3. NamingEdits
    BY <1>8, <2>1 DEF EditSaves, Handler, loopVars, config
  <2>4. AllNamed(disk')
    BY <1>1, <2>1, <2>2, <2>3, EditsNamed DEF OneEntryInv, NamingEdits
  <2> QED BY <2>2, <2>4 DEF OneEntryInv, NoStackedEntry
<1>9. CASE EditEnds
  <2>1. UNCHANGED <<disk, ctl, main, loaded, entries>> /\ (live' = disk \/ live' = live)
    BY <1>9 DEF EditEnds, cohort
  <2> QED BY <2>1 DEF OneEntryInv, NoStackedEntry
<1>10. ASSUME NEW f \in Fan, Unplug(f) \/ Trigger(f) \/ TriggerDropped(f) PROVE OneEntryInv'
  <2>1. UNCHANGED <<disk, live, ctl, main, loaded, entries>>
    BY <1>10 DEF Unplug, Trigger, TriggerDropped, config, loop, cohort
  <2> QED BY <2>1 DEF OneEntryInv, NoStackedEntry
<1>11. ASSUME NEW f \in Fan, NEW p \in Path, Plug(f, p) PROVE OneEntryInv'
  <2>1. UNCHANGED <<disk, live, ctl, main, loaded, entries>>
    BY <1>11 DEF Plug, config, loop, cohort
  <2> QED BY <2>1 DEF OneEntryInv, NoStackedEntry
<1> QED
  BY <1>2, <1>3, <1>4, <1>5, <1>6, <1>7, <1>8, <1>9, <1>10, <1>11 DEF LoopNext

\* PathsAreExclusive: a path has one writer and one registration ("Unmoved fans
\* keep their startup entry untouched", cmd/ventd/main.go), whatever is edited,
\* renumbered, reloaded and fails, if every entry of the file has its chip_name,
\* which config.Save sees to and a hand edit may not.
THEOREM NamedPathsAreExclusive ==
    Anchored = Fan /\ AllNamed(FirstFile) /\ LiveLoopParts /\ [][NamingEdits]_loopVars
        => []PathsAreExclusive
<1> SUFFICES ASSUME Anchored = Fan, AllNamed(FirstFile)
             PROVE  LiveLoopParts /\ [][NamingEdits]_loopVars => []PathsAreExclusive
  OBVIOUS
<1> DEFINE Inv == LoopTypeOK /\ SoleWriterInv /\ (part = "edits" => OneEntryInv)
<1>1. PartsInit => Inv
  BY SoleWriterInit, OneEntryInit DEF PartsInit
<1>2. Inv /\ [PartsNext]_<<part, loopVars>> /\ [NamingEdits]_loopVars => Inv'
  <2> SUFFICES ASSUME Inv, [PartsNext]_<<part, loopVars>>, [NamingEdits]_loopVars
               PROVE  Inv'
    OBVIOUS
  <2>1. [LoopNext]_loopVars /\ part' = part
    BY DEF PartsNext
  <2>2. CarefulEdits \/ UNCHANGED loopVars
    BY DEF NamingEdits, CarefulEdits, AllNamed, NamelessApart
  <2> QED BY <2>1, <2>2, LoopTypeStep, SoleWriterStep, OneEntryStep
<1>3. Inv => PathsAreExclusive
  BY DEF SoleWriterInv, CohortApart, OneWriterPerPath, OneEntryInv, PathsAreExclusive
<1> QED BY <1>1, <1>2, <1>3, PTL DEF LiveLoopParts

-----------------------------------------------------------------------------
(* Failures are heard: what can be said of FailureEnds without fairness.   *)

\* A controller or the web server has failed: its error is being sent, waits in
\* errCh, or has been read.
Failing ==
    \/ \E i \in DOMAIN ctl : ctl[i].st = "sending"
    \/ web = "sending" \/ errq > 0 \/ main \in {"stopping", "returned"}

FailuresStay == [][Failing => Failing']_loopVars

\* Who may still send an error, and the errors that then want a slot of errCh.
Unreported == {i \in DOMAIN ctl : ctl[i].st # "left"}
Wanted == errq + Cardinality(Unreported) + IF web = "down" THEN 0 ELSE 1

\* errCh has a slot for each of them.
ErrorsFit == Wanted <= Cap

\* What reloads do not look at: a cohort is spawned only when its errors fit
\* beside those that wait.
SpawnsFit == LoadStores \/ Rebound => ErrorsFit'

\* No goroutine blocks on errCh, so that a drain, which reads nothing, ends.
SendersGoOn ==
    web = "sending" \/ (\E i \in DOMAIN ctl : ctl[i].st = "sending") => errq < Cap

\* A controller's state, after it has changed.
LEMMA MovedTo ==
    ASSUME NEW c \in Seq(Controller), NEW i \in DOMAIN c,
           NEW st \in {"running", "sending", "left"}, NEW x, x = [c EXCEPT ![i].st = st]
    PROVE  /\ DOMAIN x = DOMAIN c /\ x[i].st = st
           /\ \A j \in DOMAIN c : j # i => x[j] = c[j]
<1> DEFINE next == [c[i] EXCEPT !.st = st]
           d == [c EXCEPT ![i] = next]
<1>1. x = d
  OBVIOUS
<1>2. next.st = st
  BY DEF Controller
<1> HIDE DEF next
<1>3. DOMAIN d = DOMAIN c /\ d[i] = next /\ \A j \in DOMAIN c : j # i => d[j] = c[j]
  OBVIOUS
<1> QED BY <1>1, <1>2, <1>3

\* Controllers that are added to a cohort leave the others in their places.
LEMMA Added ==
    ASSUME NEW c \in Seq(Controller), NEW d \in Seq(Controller), NEW i \in DOMAIN c
    PROVE  i \in DOMAIN (c \o d) /\ (c \o d)[i] = c[i]
OBVIOUS

\* A failure stays one.
LEMMA FailureStep == LoopTypeOK /\ [LoopNext]_loopVars => (Failing => Failing')
<1> SUFFICES ASSUME LoopTypeOK, [LoopNext]_loopVars, Failing PROVE Failing'
  OBVIOUS
<1>0. ctl \in Seq(Controller) /\ errq \in Nat /\ loaded.conf \in Config
  BY Capacity DEF LoopTypeOK, Load
<1>1. ASSUME main \in {"stopping", "returned"} => main' \in {"stopping", "returned"},
             UNCHANGED <<ctl, web, errq>>
      PROVE  Failing'
  BY <1>1 DEF Failing
<1>2. CASE Reload \/ Hangup
  BY <1>1, <1>2 DEF Reload, Hangup, Reads, cohort
<1>3. CASE LoadStores
  <2>1. main = "loaded" /\ UNCHANGED <<web, errq>>
        /\ (ctl' = ctl \/ ctl' = ctl \o Controllers(loaded.conf))
    BY <1>3 DEF LoadStores
  <2>2. ASSUME NEW i \in DOMAIN ctl, ctl[i].st = "sending", ctl' = ctl \o Controllers(loaded.conf)
        PROVE  \E j \in DOMAIN ctl' : ctl'[j].st = "sending"
    <3>1. Controllers(loaded.conf) \in Seq(Controller)
      BY <1>0, Cohort
    <3> QED BY <1>0, <2>2, <3>1, Added
  <2> QED BY <2>1, <2>2 DEF Failing
<1>4. CASE Rebound
  <2>1. main = "rebinding" /\ UNCHANGED <<web, errq>> /\ \A i \in DOMAIN ctl : ctl[i].st = "left"
    BY <1>4 DEF Rebound, AllLeft
  <2> QED BY <2>1 DEF Failing
<1>5. CASE Terminate \/ ReadError
  BY <1>5 DEF Terminate, ReadError, Shut, Failing
<1>6. CASE Return
  BY <1>6 DEF Return, Failing
<1>7. ASSUME NEW i \in DOMAIN ctl, Leave(i) \/ Fail(i) \/ Send(i) PROVE Failing'
  <2>1. CASE Leave(i)
    BY <2>1 DEF Leave, Failing, loop
  <2>2. CASE Fail(i)
    <3>1. ctl' = [ctl EXCEPT ![i].st = "sending"]
      BY <2>2 DEF Fail
    <3>2. DOMAIN ctl' = DOMAIN ctl /\ ctl'[i].st = "sending"
      BY <1>0, <3>1, MovedTo
    <3> QED BY <3>2 DEF Failing
  <2>3. CASE Send(i)
    BY <1>0, <2>3 DEF Send, Failing
  <2> QED BY <1>7, <2>1, <2>2, <2>3
<1>8. CASE WebFails
  BY <1>8 DEF WebFails, Failing
<1>9. CASE WebSends
  BY <1>0, <1>9 DEF WebSends, Failing
<1>10. CASE EditEnds \/ SendHangup \/ SendTerm \/ MonitorTick \/ UNCHANGED loopVars
  BY <1>1, <1>10 DEF EditEnds, SendHangup, SendTerm, MonitorTick, loopVars, loop, cohort
<1>11. ASSUME NEW h, NEW B, EditSaves(h, B) PROVE Failing'
  BY <1>1, <1>11 DEF EditSaves, loop, cohort
<1>12. ASSUME NEW f \in Fan, Unplug(f) \/ Trigger(f) \/ TriggerDropped(f) PROVE Failing'
  BY <1>1, <1>12 DEF Unplug, Trigger, TriggerDropped, loop, cohort
<1>13. ASSUME NEW f \in Fan, NEW q, Plug(f, q) PROVE Failing'
  BY <1>1, <1>13 DEF Plug, loop, cohort
<1> QED
  BY <1>2, <1>3, <1>4, <1>5, <1>6, <1>7, <1>8, <1>9, <1>10, <1>11, <1>12, <1>13 DEF LoopNext

\* Once a controller or the web server has failed, its error is on its way to the
\* main loop until the daemon ends: no reload, drain or respawn of the cohort
\* loses it.
THEOREM FailuresAreKept == LoopSpec => FailuresStay
<1>1. LoopInit => LoopTypeOK
  BY FirstFiles, StartedTyped DEF LoopInit
<1>2. LoopTypeOK /\ [LoopNext]_loopVars => LoopTypeOK'
  BY LoopTypeStep
<1>3. LoopTypeOK /\ [LoopNext]_loopVars => [Failing => Failing']_loopVars
  BY FailureStep
<1> QED BY <1>1, <1>2, <1>3, PTL DEF LoopSpec, FailuresStay

\* The controllers that have not left are finitely many, and one that leaves is
\* one less.
LEMMA CountUnreported ==
    ASSUME ctl \in Seq(Controller)
    PROVE  /\ IsFiniteSet(Unreported) /\ Cardinality(Unreported) \in Nat
           /\ Unreported \subseteq DOMAIN ctl
<1>1. IsFiniteSet(DOMAIN ctl)
  BY FS_Interval
<1>2. Unreported \in SUBSET DOMAIN ctl
  BY DEF Unreported
<1> QED BY <1>1, <1>2, FS_Subset, FS_CardinalityType

\* One controller has left.
LEMMA OneLeaves ==
    ASSUME ctl \in Seq(Controller), NEW i \in DOMAIN ctl, ctl[i].st # "left",
           ctl' = [ctl EXCEPT ![i].st = "left"]
    PROVE  Cardinality(Unreported') = Cardinality(Unreported) - 1
<1>1. DOMAIN ctl' = DOMAIN ctl /\ ctl'[i].st = "left" /\ \A j \in DOMAIN ctl : j # i => ctl'[j] = ctl[j]
  BY MovedTo
<1>2. Unreported' = Unreported \ {i} /\ i \in Unreported
  BY <1>1 DEF Unreported
<1> QED BY <1>2, CountUnreported, FS_RemoveElement

\* The errors of the first cohort fit.
LEMMA FirstFits == LoopInit => ErrorsFit
<1> SUFFICES ASSUME LoopInit PROVE ErrorsFit
  OBVIOUS
<1>1. /\ FirstFile \in Config /\ live = Enriched(FirstFile) /\ ctl = Controllers(live)
      /\ errq = 0 /\ web = "up"
  BY FirstFiles DEF LoopInit, StartedWith
<1>2. live \in Config /\ Bound(live) \subseteq Startup
  <2>1. Bound(live) \subseteq Bound(FirstFile)
    BY <1>1, EnrichedConfig DEF Bound
  <2>2. Bound(FirstFile) \subseteq Startup
    BY DEF Bound, FirstFile
  <2> QED BY <1>1, <2>1, <2>2, EnrichedConfig
<1>3. ctl \in Seq(Controller)
      /\ (\A i \in DOMAIN ctl : ctl[i].fan \in Startup)
      /\ \A i, j \in DOMAIN ctl : ctl[i].fan = ctl[j].fan => i = j
  BY <1>1, <1>2, Cohort
<1>4. IsFiniteSet(Startup) /\ Cardinality(Startup) \in Nat
  BY LoopAssumption, FS_Subset, Capacity
<1>5. Cardinality(DOMAIN ctl) <= Cardinality(Startup)
  <2> DEFINE m == [i \in DOMAIN ctl |-> ctl[i].fan]
  <2>1. m \in Injection(DOMAIN ctl, Startup)
    BY <1>3 DEF Injection, IsInjective
  <2> HIDE DEF m
  <2> QED BY <1>4, <2>1, FS_Injection
<1>6. Cardinality(Unreported) <= Cardinality(DOMAIN ctl) /\ Cardinality(DOMAIN ctl) \in Nat
  <2>1. IsFiniteSet(DOMAIN ctl)
    BY <1>3, FS_Interval
  <2>2. Unreported \in SUBSET DOMAIN ctl
    BY DEF Unreported
  <2> QED BY <2>1, <2>2, FS_Subset, FS_CardinalityType
<1>7. Cardinality(Unreported) \in Nat
  BY <1>3, CountUnreported
<1> QED BY <1>1, <1>4, <1>5, <1>6, <1>7 DEF ErrorsFit, Wanted, Cap

\* Every step keeps a slot for every error.
LEMMA FitStep == LoopTypeOK /\ ErrorsFit /\ [LoopNext]_loopVars /\ [SpawnsFit]_loopVars => ErrorsFit'
<1> SUFFICES ASSUME LoopTypeOK, ErrorsFit, [LoopNext]_loopVars, [SpawnsFit]_loopVars PROVE ErrorsFit'
  OBVIOUS
<1>0. ctl \in Seq(Controller) /\ errq \in Nat /\ Cap \in Nat /\ Cardinality(Unreported) \in Nat
  BY Capacity, CountUnreported DEF LoopTypeOK
<1>1. ASSUME UNCHANGED <<ctl, errq>>, web' = web \/ web' = "down" \/ (web = "up" /\ web' = "sending")
      PROVE  ErrorsFit'
  <2>1. Unreported' = Unreported
    BY <1>1 DEF Unreported
  <2> QED BY <1>0, <1>1, <2>1 DEF ErrorsFit, Wanted, Cap
<1>2. CASE Reload \/ Hangup
  BY <1>1, <1>2 DEF Reload, Hangup, Reads, cohort
<1>3. CASE LoadStores \/ Rebound
  <2>1. CASE UNCHANGED loopVars
    BY <1>1, <2>1 DEF loopVars, cohort
  <2>2. CASE SpawnsFit
    BY <1>3, <2>2 DEF SpawnsFit
  <2> QED BY <2>1, <2>2
<1>4. CASE Terminate
  BY <1>1, <1>4 DEF Terminate, Shut
<1>5. CASE ReadError
  <2>1. ctl' = ctl /\ errq' = errq - 1 /\ (web' = web \/ web' = "down") /\ errq > 0
    BY <1>5 DEF ReadError, Shut
  <2>2. Unreported' = Unreported
    BY <2>1 DEF Unreported
  <2> QED BY <1>0, <2>1, <2>2 DEF ErrorsFit, Wanted, Cap
<1>6. CASE Return
  BY <1>1, <1>6 DEF Return, cohort
<1>7. ASSUME NEW i \in DOMAIN ctl, Leave(i) \/ Send(i) PROVE ErrorsFit'
  <2>1. /\ ctl[i].st # "left" /\ ctl' = [ctl EXCEPT ![i].st = "left"] /\ web' = web
        /\ errq' \in {errq, errq + 1}
    BY <1>7 DEF Leave, Send, loop
  <2>2. Cardinality(Unreported') = Cardinality(Unreported) - 1
    BY <1>0, <2>1, OneLeaves
  <2>3. Cardinality(Unreported)' = Cardinality(Unreported) - 1
    BY <2>2
  <2> QED BY <1>0, <2>1, <2>3 DEF ErrorsFit, Wanted, Cap
<1>8. ASSUME NEW i \in DOMAIN ctl, Fail(i) PROVE ErrorsFit'
  <2>1. ctl[i].st = "running" /\ ctl' = [ctl EXCEPT ![i].st = "sending"] /\ UNCHANGED <<web, errq>>
    BY <1>8 DEF Fail
  <2>2. DOMAIN ctl' = DOMAIN ctl /\ ctl'[i].st = "sending" /\ \A j \in DOMAIN ctl : j # i => ctl'[j] = ctl[j]
    BY <1>0, <2>1, MovedTo
  <2>3. Unreported' = Unreported
    BY <2>1, <2>2 DEF Unreported
  <2> QED BY <1>0, <2>1, <2>3 DEF ErrorsFit, Wanted, Cap
<1>9. CASE WebFails
  BY <1>1, <1>9 DEF WebFails
<1>10. CASE WebSends
  <2>1. web = "sending" /\ web' = "down" /\ errq' = errq + 1 /\ ctl' = ctl
    BY <1>10 DEF WebSends
  <2>2. Unreported' = Unreported
    BY <2>1 DEF Unreported
  <2> QED BY <1>0, <2>1, <2>2 DEF ErrorsFit, Wanted, Cap
<1>11. CASE EditEnds \/ SendHangup \/ SendTerm \/ MonitorTick \/ UNCHANGED loopVars
  BY <1>1, <1>11 DEF EditEnds, SendHangup, SendTerm, MonitorTick, loopVars, cohort
<1>12. ASSUME NEW h, NEW B, EditSaves(h, B) PROVE ErrorsFit'
  BY <1>1, <1>12 DEF EditSaves, cohort
<1>13. ASSUME NEW f \in Fan, Unplug(f) \/ Trigger(f) \/ TriggerDropped(f) PROVE ErrorsFit'
  BY <1>1, <1>13 DEF Unplug, Trigger, TriggerDropped, cohort
<1>14. ASSUME NEW f \in Fan, NEW q, Plug(f, q) PROVE ErrorsFit'
  BY <1>1, <1>14 DEF Plug, cohort
<1> QED
  BY <1>2, <1>3, <1>4, <1>5, <1>6, <1>7, <1>8, <1>9, <1>10, <1>11, <1>12, <1>13, <1>14 DEF LoopNext

\* A slot for every error is one for whoever is sending.
LEMMA FitSends == LoopTypeOK /\ ErrorsFit => SendersGoOn
<1> SUFFICES ASSUME LoopTypeOK, ErrorsFit, web = "sending" \/ \E i \in DOMAIN ctl : ctl[i].st = "sending"
             PROVE  errq < Cap
  BY DEF SendersGoOn
<1>0. /\ errq \in Nat /\ Cap \in Nat
      /\ IsFiniteSet(Unreported) /\ Cardinality(Unreported) \in Nat
  BY Capacity, CountUnreported DEF LoopTypeOK
<1>1. CASE web = "sending"
  BY <1>0, <1>1 DEF ErrorsFit, Wanted
<1>2. CASE \E i \in DOMAIN ctl : ctl[i].st = "sending"
  <2>1. Unreported # {}
    BY <1>2 DEF Unreported
  <2>2. Cardinality(Unreported) # 0
    BY <1>0, <2>1, FS_EmptySet
  <2> QED BY <1>0, <2>2 DEF ErrorsFit, Wanted
<1> QED BY <1>1, <1>2

\* errCh, "buffered to one slot per controller plus one for the web server"
\* (cmd/ventd/main.go), takes the errors of the first cohort without blocking any
\* sender, however many fail, in whatever order, and whether or not anyone reads.
\* It does so for a later cohort as long as the errors that wait when it is
\* spawned leave it room, which nothing in the code sees to.
THEOREM SendersAreTaken == LoopSpec /\ [][SpawnsFit]_loopVars => []SendersGoOn
<1>1. LoopInit => LoopTypeOK /\ ErrorsFit
  BY FirstFiles, StartedTyped, FirstFits DEF LoopInit
<1>2. (LoopTypeOK /\ ErrorsFit) /\ [LoopNext]_loopVars /\ [SpawnsFit]_loopVars => (LoopTypeOK /\ ErrorsFit)'
  BY LoopTypeStep, FitStep
<1>3. LoopTypeOK /\ ErrorsFit => SendersGoOn
  BY FitSends
<1> QED BY <1>1, <1>2, <1>3, PTL DEF LoopSpec
=============================================================================
