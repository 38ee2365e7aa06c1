------------------------- MODULE SchemaUpgradeProofs -------------------------
(***************************************************************************)
(* Theorems about the upgrade of a database, for every number of services,  *)
(* operators, processes of the next build and starts, and every version a   *)
(* database may be at.                                                      *)
(***************************************************************************)
EXTENDS SchemaUpgradeProps, TLAPS

\* The steps that rename, release and guard add no column and convert no row.
LEMMA ColumnSteps ==
    \A c \in Columns : c[1] \in 2..70 /\ c[1] \notin {3, 9, 66}
<1>1. \A c \in Columns2to7 : c[1] \in 2..70 /\ c[1] \notin {3, 9, 66}
  BY DEF Columns2to7
<1>2. \A c \in Columns10to17 : c[1] \in 2..70 /\ c[1] \notin {3, 9, 66}
  BY DEF Columns10to17
<1>3. \A c \in Columns20to27 : c[1] \in 2..70 /\ c[1] \notin {3, 9, 66}
  BY DEF Columns20to27
<1>4. \A c \in Columns31to35 : c[1] \in 2..70 /\ c[1] \notin {3, 9, 66}
  BY DEF Columns31to35
<1>5. \A c \in Columns38to43 : c[1] \in 2..70 /\ c[1] \notin {3, 9, 66}
  BY DEF Columns38to43
<1>6. \A c \in Columns44to46 : c[1] \in 2..70 /\ c[1] \notin {3, 9, 66}
  BY DEF Columns44to46
<1>7. \A c \in Columns47to50 : c[1] \in 2..70 /\ c[1] \notin {3, 9, 66}
  BY DEF Columns47to50
<1>8. \A c \in Columns58to65 : c[1] \in 2..70 /\ c[1] \notin {3, 9, 66}
  BY DEF Columns58to65
<1>9. \A c \in Columns68to70 : c[1] \in 2..70 /\ c[1] \notin {3, 9, 66}
  BY DEF Columns68to70
<1> QED
  BY <1>1, <1>2, <1>3, <1>4, <1>5, <1>6, <1>7, <1>8, <1>9 DEF Columns

\* Step 71 converts rows and adds no column.
LEMMA ConvertingSteps ==
    /\ \A c \in Converting : c[1] \in 2..71 /\ c[1] \notin {3, 9, 66}
    /\ \A c \in WithTheTable : c[2] \notin {"case", "engagement_case"}
    /\ WithTheColumn \subseteq Columns
<1>1. \A c \in WithTheColumn : c[1] \in 2..71 /\ c[1] \notin {3, 9, 66}
  BY DEF WithTheColumn
<1>2. \A c \in WithTheTable : c[1] \in 2..71 /\ c[1] \notin {3, 9, 66}
  BY DEF WithTheTable
<1>3. \A c \in WithTheTable : c[2] \notin {"case", "engagement_case"}
  BY DEF WithTheTable
<1>4. <<6, "simulation_run">> \in Columns2to7 /\ <<61, "known_fact">> \in Columns58to65
  BY DEF Columns2to7, Columns58to65
<1>5. WithTheColumn \subseteq Columns
  BY <1>4 DEF WithTheColumn, Columns
<1> QED
  BY <1>1, <1>2, <1>3, <1>5 DEF Converting

\* There is a case table and a snapshot table among the tables, and none that has the
\* reserved name.
LEMMA TableNames ==
    /\ "case" \notin Tables
    /\ "engagement_case" \in Tables
    /\ "estimate_snapshot" \in Tables
    /\ \A b : FirstTables \subseteq TablesOf(b)
    /\ \A b : TablesOf(b) \subseteq Tables
<1>1. \A n \in NewTables : n[2] # "case"
  BY DEF NewTables, Tables12to19, Tables26to37, Tables51to68
<1>2. "case" \notin Tables
  BY <1>1 DEF Tables, FirstTables
<1>3. FirstTables \subseteq Tables
  BY DEF Tables
<1> QED
  BY <1>2, <1>3 DEF TablesOf, FirstTables

----------------------------------------------------------------------------
(* Types. *)

LEMMA LeftTyped ==
    ASSUME NEW b \in PastBuilds, NEW legacy \in BOOLEAN, NEW refused \in BOOLEAN,
           NEW ids \in {"unique", "request", "response"},
           NEW cases \in {"case", "engagement_case", "both"},
           db = Left(b, legacy, ids, refused, cases)
    PROVE  db \in Schemas
<1>1. db.stamp \in Nat \cup {None}
  BY UpgradeAssumption DEF Left
<1>2. db.tables \in SUBSET (Tables \cup {"case"})
  BY TableNames DEF Left
<1>3. db.missing \in SUBSET Columns
  BY DEF Left
<1>4. db.todo \in SUBSET {c[1] : c \in Converting}
  BY DEF Left
<1> QED
  BY <1>1, <1>2, <1>3, <1>4 DEF Left, Schemas

LEMMA TypeInit == Init => TypeOK
<1> SUFFICES ASSUME Init PROVE TypeOK
  OBVIOUS
<1>1. ref \in [RefRows -> {"absent", "old", "now", "hand", "presplit", "retired"}]
  BY DEF Init, RefLeft, RefRows, Wanted, Promoted
<1>2. h \in [Procs -> Locals] /\ starts \in Nat /\ behind \subseteq ThisBuild
  BY UpgradeAssumption DEF Init, Locals
<1>3. CASE db = Fresh
  BY <1>1, <1>2, <1>3 DEF TypeOK, Fresh, Schemas
<1>4. CASE db # Fresh
  BY <1>1, <1>2, <1>4, LeftTyped DEF TypeOK, Init
<1> QED
  BY <1>3, <1>4

LEMMA DetectedTyped ==
    ASSUME TypeOK, NEW n \in Nat
    PROVE  Detected(db, n) \in Nat
BY DEF TypeOK, Schemas, Detected

LEMMA OvertakenTyped ==
    \A n : Overtaken(n) \subseteq ThisBuild
BY DEF Overtaken

LEMMA StepIs ==
    ASSUME NEW s, NEW v
    PROVE  /\ v = 3 => Step(s, v) = Renamed(s)
           /\ v = 9 => Step(s, v) = Released(s)
           /\ v = 66 => Step(s, v) = Guarded(s)
           /\ v \notin {3, 9, 66} => Step(s, v) = Altered(s, v)
<1>1. v = 3 => Step(s, v) = Renamed(s)
  BY DEF Step
<1>2. v = 9 => Step(s, v) = Released(s)
  BY DEF Step
<1>3. v = 66 => Step(s, v) = Guarded(s)
  BY DEF Step
<1>4. v \notin {3, 9, 66} => Step(s, v) = Altered(s, v)
  BY DEF Step
<1> QED
  BY <1>1, <1>2, <1>3, <1>4

LEMMA RenamedIs ==
    ASSUME NEW s \in Schemas
    PROVE  /\ Renamed(s) \in Schemas
           /\ \A f \in {"stamp", "missing", "todo", "ids", "guard", "refused"} :
                 Renamed(s)[f] = s[f]
           /\ IF "case" \in s.tables /\ "engagement_case" \notin s.tables
              THEN /\ Renamed(s).tables = (s.tables \ {"case"}) \cup {"engagement_case"}
                   /\ Renamed(s).cases = "engagement_case"
              ELSE Renamed(s) = s
<1>1. CASE ~("case" \in s.tables /\ "engagement_case" \notin s.tables)
  BY <1>1 DEF Renamed
<1>2. CASE "case" \in s.tables /\ "engagement_case" \notin s.tables
  <2> DEFINE new == (s.tables \ {"case"}) \cup {"engagement_case"}
  <2>1. new \in SUBSET (Tables \cup {"case"})
    BY TableNames DEF Schemas
  <2>2. Renamed(s) = [[s EXCEPT !.tables = new] EXCEPT !.cases = "engagement_case"]
    BY <1>2 DEF Renamed
  <2> HIDE DEF new
  <2>3. /\ [s EXCEPT !.tables = new] \in Schemas
        /\ [s EXCEPT !.tables = new].tables = new
        /\ \A f \in {"stamp", "missing", "todo", "ids", "guard", "refused"} :
              [s EXCEPT !.tables = new][f] = s[f]
    BY <2>1 DEF Schemas
  <2> DEFINE t == [s EXCEPT !.tables = new]
  <2> HIDE DEF t
  <2>4. /\ [t EXCEPT !.cases = "engagement_case"] \in Schemas
        /\ [t EXCEPT !.cases = "engagement_case"].tables = new
        /\ [t EXCEPT !.cases = "engagement_case"].cases = "engagement_case"
        /\ \A f \in {"stamp", "missing", "todo", "ids", "guard", "refused"} :
              [t EXCEPT !.cases = "engagement_case"][f] = s[f]
    BY <2>3 DEF Schemas, t
  <2> QED
    BY <1>2, <2>2, <2>4 DEF t, new
<1> QED
  BY <1>1, <1>2

LEMMA AlteredIs ==
    ASSUME NEW s \in Schemas, NEW v
    PROVE  /\ Altered(s, v) \in Schemas
           /\ \A f \in {"stamp", "tables", "ids", "guard", "refused", "cases"} :
                 Altered(s, v)[f] = s[f]
           /\ \A c : c \in Altered(s, v).missing <=> c \in s.missing /\ c[1] # v
           /\ \A w : w \in Altered(s, v).todo <=> w \in s.todo /\ ~(Converted(s, v) /\ w = v)
<1> DEFINE left == {c \in s.missing : c[1] # v}
           rows == IF Converted(s, v) THEN s.todo \ {v} ELSE s.todo
           t == [s EXCEPT !.missing = left]
<1>1. /\ left \in SUBSET Columns
      /\ rows \in SUBSET {c[1] : c \in Converting}
  BY DEF Schemas
<1>2. Altered(s, v) = [t EXCEPT !.todo = rows]
  BY DEF Altered, Schemas
<1> HIDE DEF left, rows
<1>3. /\ t \in Schemas
      /\ t.missing = left
      /\ \A f \in {"stamp", "tables", "ids", "guard", "refused", "cases"} : t[f] = s[f]
  BY <1>1 DEF Schemas
<1> HIDE DEF t
<1>4. /\ [t EXCEPT !.todo = rows] \in Schemas
      /\ [t EXCEPT !.todo = rows].missing = left
      /\ [t EXCEPT !.todo = rows].todo = rows
      /\ \A f \in {"stamp", "tables", "ids", "guard", "refused", "cases"} :
            [t EXCEPT !.todo = rows][f] = s[f]
  BY <1>1, <1>3 DEF Schemas
<1>5. /\ \A c : c \in left <=> c \in s.missing /\ c[1] # v
      /\ \A w : w \in rows <=> w \in s.todo /\ ~(Converted(s, v) /\ w = v)
  BY DEF left, rows
<1> QED
  BY <1>2, <1>4, <1>5

LEMMA ReleasedIs ==
    ASSUME NEW s \in Schemas
    PROVE  /\ Released(s) \in Schemas
           /\ \A f \in {"stamp", "tables", "missing", "todo", "guard", "refused", "cases"} :
                 Released(s)[f] = s[f]
           /\ Released(s).ids = IF s.ids = "request" THEN "released" ELSE s.ids
<1>1. CASE s.ids = "request"
  BY <1>1 DEF Schemas, Released
<1>2. CASE s.ids # "request"
  BY <1>2 DEF Released
<1> QED
  BY <1>1, <1>2

LEMMA GuardedIs ==
    ASSUME NEW s \in Schemas
    PROVE  /\ Guarded(s) \in Schemas
           /\ \A f \in {"stamp", "tables", "missing", "todo", "ids", "refused", "cases"} :
                 Guarded(s)[f] = s[f]
           /\ Guarded(s).guard
                 <=> s.guard \/ ("estimate_snapshot" \in s.tables /\ ~s.refused)
<1>1. CASE "estimate_snapshot" \in s.tables /\ ~s.refused
  BY <1>1 DEF Schemas, Guarded
<1>2. CASE ~("estimate_snapshot" \in s.tables /\ ~s.refused)
  BY <1>2 DEF Guarded, Schemas
<1> QED
  BY <1>1, <1>2

LEMMA StepTyped ==
    ASSUME NEW s \in Schemas, NEW v \in Nat, NEW n \in Nat
    PROVE  /\ Step(s, v) \in Schemas
           /\ [Step(s, v) EXCEPT !.stamp = n] \in Schemas
           /\ [Step(s, v) EXCEPT !.stamp = n].stamp = n
           /\ \A f \in {"tables", "missing", "todo", "ids", "guard", "refused", "cases"} :
                 [Step(s, v) EXCEPT !.stamp = n][f] = Step(s, v)[f]
<1>1. /\ Renamed(s) \in Schemas
      /\ Released(s) \in Schemas
      /\ Guarded(s) \in Schemas
  BY RenamedIs, ReleasedIs, GuardedIs
<1>2. Altered(s, v) \in Schemas
  BY AlteredIs
<1>3. Step(s, v) \in {Renamed(s), Released(s), Guarded(s), Altered(s, v)}
  BY StepIs
<1>4. Step(s, v) \in Schemas
  BY <1>1, <1>2, <1>3
<1> DEFINE t == Step(s, v)
<1> HIDE DEF t
<1>5. t \in Schemas =>
        /\ [t EXCEPT !.stamp = n] \in Schemas
        /\ [t EXCEPT !.stamp = n].stamp = n
        /\ \A f \in {"tables", "missing", "todo", "ids", "guard", "refused", "cases"} :
              [t EXCEPT !.stamp = n][f] = t[f]
  BY DEF Schemas
<1> QED
  BY <1>4, <1>5 DEF t

LEMMA SeededTyped ==
    ASSUME TypeOK, NEW force \in BOOLEAN
    PROVE  Seeded(force) \in [RefRows -> {"absent", "old", "now", "hand", "presplit", "retired"}]
BY DEF TypeOK, Seeded

LEMMA TypeStep == TypeOK /\ [Next]_vars => TypeOK'
<1> SUFFICES ASSUME TypeOK, [Next]_vars PROVE TypeOK'
  OBVIOUS
<1> USE UpgradeAssumption DEF Set
<1>1. ASSUME NEW p \in Procs, Start(p) PROVE TypeOK'
  <2>1. Expects(p) \in {SCHEMA_VERSION, SCHEMA_VERSION + 1}
    BY DEF Expects
  <2>2. PICK found \in Nat : found = Detected(db, Expects(p))
    BY <2>1, DetectedTyped
  <2>3. h' \in [Procs -> Locals]
    BY <1>1, <2>1, <2>2 DEF TypeOK, Start, Locals, Refuses
  <2> QED
    BY <1>1, <2>3 DEF TypeOK, Start
<1>2. ASSUME NEW p \in Procs, Migrate(p) PROVE TypeOK'
  <2>1. h[p].done \in 0..SCHEMA_VERSION /\ h[p].done + 1 \in 0..(SCHEMA_VERSION + 1)
    BY <1>2 DEF TypeOK, Migrate, Expects, At, Locals, Off, Upgraded
  <2>2. CASE UNCHANGED <<db, ref, behind>> /\ h' = [h EXCEPT ![p] = Off]
    BY <1>2, <2>2 DEF TypeOK, Migrate, Locals
  <2>3. CASE /\ db' = [Step(db, h[p].done + 1) EXCEPT !.stamp = h[p].done + 1]
             /\ ref' = Retiring(h[p].done + 1)
             /\ behind' = Overtaken(h[p].done + 1)
             /\ h' = [h EXCEPT ![p] = [pc |-> "steps", done |-> h[p].done + 1]]
    <3>1. h' \in [Procs -> Locals]
      BY <2>1, <2>3 DEF TypeOK, Locals
    <3>2. ref' \in [RefRows -> {"absent", "old", "now", "hand", "presplit", "retired"}]
      BY <2>3 DEF TypeOK, Retiring
    <3>3. starts' \in Nat /\ behind' \subseteq ThisBuild
      BY <1>2, <2>3, OvertakenTyped DEF Migrate, TypeOK
    <3>4. db' \in Schemas
      <4>1. db \in Schemas /\ h[p].done + 1 \in Nat
        BY <2>1 DEF TypeOK
      <4> QED
        BY <2>3, <4>1, StepTyped
    <3> QED
      BY <3>1, <3>2, <3>3, <3>4 DEF TypeOK
  <2> QED
    BY <1>2, <2>2, <2>3 DEF Migrate
<1>3. ASSUME NEW p \in Procs, CreateAll(p) PROVE TypeOK'
  BY <1>3 DEF TypeOK, Schemas, CreateAll, Locals, Upgraded
<1>4. ASSUME NEW p \in Procs, RepairMissingColumns(p) PROVE TypeOK'
  BY <1>4 DEF TypeOK, Schemas, RepairMissingColumns, Locals, Upgraded
<1>5. ASSUME NEW p \in Procs, Stamp(p) PROVE TypeOK'
  <2>1. /\ h' \in {[h EXCEPT ![p] = [pc |-> "verify"]], [h EXCEPT ![p] = Off]}
        /\ UNCHANGED <<ref, starts>>
        /\ behind' \subseteq ThisBuild
        /\ Expects(p) \in Nat
        /\ db' \in {db, [db EXCEPT !.stamp = Expects(p)]}
    BY <1>5, OvertakenTyped DEF Stamp, Expects, TypeOK
  <2>2. h' \in [Procs -> Locals]
    BY <2>1 DEF TypeOK, Locals, Upgraded
  <2>3. db' \in Schemas
    BY <2>1 DEF TypeOK, Schemas
  <2> QED
    BY <2>1, <2>2, <2>3 DEF TypeOK
<1>6. ASSUME NEW p \in Procs, Dies(p) PROVE TypeOK'
  BY <1>6 DEF TypeOK, Dies, Locals
<1>7. ASSUME NEW p \in Services, VerifyModelMatchesDatabase(p) PROVE TypeOK'
  BY <1>7 DEF TypeOK, VerifyModelMatchesDatabase, Locals, Upgraded
<1>8. ASSUME NEW p \in Services, SeedAtStart(p) PROVE TypeOK'
  <2>1. ref' \in {ref, Seeded(FALSE)} /\ UNCHANGED <<db, behind, starts>>
    BY <1>8 DEF SeedAtStart
  <2>2. ref' \in [RefRows -> {"absent", "old", "now", "hand", "presplit", "retired"}]
    BY <2>1, SeededTyped DEF TypeOK
  <2>3. h' \in [Procs -> Locals]
    BY <1>8 DEF TypeOK, SeedAtStart, Locals, Upgraded
  <2> QED
    BY <2>1, <2>2, <2>3 DEF TypeOK
<1>9. ASSUME NEW p \in Operators, SeedByHand(p) PROVE TypeOK'
  <2>1. Seeded(TRUE) \in [RefRows -> {"absent", "old", "now", "hand", "presplit", "retired"}]
    BY SeededTyped
  <2>2. ref' = Seeded(TRUE) /\ starts' = starts - 1 /\ starts > 0 /\ UNCHANGED <<db, h, behind>>
    BY <1>9 DEF SeedByHand
  <2>3. starts' \in Nat
    BY <2>2 DEF TypeOK
  <2>4. ref' \in [RefRows -> {"absent", "old", "now", "hand", "presplit", "retired"}]
    BY <2>1, <2>2, Zenon
  <2> QED
    BY <2>2, <2>3, <2>4 DEF TypeOK
<1>10. ASSUME NEW r \in ByPeople, Edit(r) PROVE TypeOK'
  BY <1>10 DEF TypeOK, Edit
<1>11. CASE UNCHANGED vars
  BY <1>11 DEF TypeOK, vars
<1> QED
  BY <1>1, <1>2, <1>3, <1>4, <1>5, <1>6, <1>7, <1>8, <1>9, <1>10, <1>11
  DEF Next, Ensure

\* Whatever the version of the database and however often processes die, every part of
\* the state keeps its type; a process never goes beyond the version of its build.
THEOREM UpgradeTypeCorrect == Spec => []TypeOK
BY TypeInit, TypeStep, PTL DEF Spec

----------------------------------------------------------------------------
(* Nothing is undone. *)

Probes == {"llm_run", "engagement_case", "case", "threshold"}

\* What a step never takes back of what another one, of any process, has done.
Advances ==
    /\ db'.missing \subseteq db.missing
    /\ db'.todo \subseteq db.todo
    /\ db.cases # "case" => db'.cases # "case"
    /\ db.ids # "response" => db'.ids # "response"
    /\ db.guard => db'.guard
    /\ db'.refused = db.refused
    /\ db.tables \ {"case"} \subseteq db'.tables
    /\ "case" \in db.tables \ db'.tables =>
          "engagement_case" \in db'.tables /\ db'.cases = "engagement_case"
    /\ "estimate_snapshot" \in db'.tables \ db.tables => db'.guard

LEMMA Standing == ASSUME db' = db PROVE Advances
BY DEF Advances

LEMMA StepAdvances ==
    ASSUME TypeOK, NEW v \in Nat,
           db' = [Step(db, v) EXCEPT !.stamp = v]
    PROVE  Advances
<1>1. /\ db \in Schemas
      /\ \A f \in {"tables", "missing", "todo", "ids", "guard", "refused", "cases"} :
            db'[f] = Step(db, v)[f]
  BY StepTyped DEF TypeOK
<1>2. /\ db'.tables = Step(db, v).tables
      /\ db'.missing = Step(db, v).missing
      /\ db'.todo = Step(db, v).todo
      /\ db'.ids = Step(db, v).ids
      /\ db'.guard = Step(db, v).guard
      /\ db'.refused = Step(db, v).refused
      /\ db'.cases = Step(db, v).cases
  BY <1>1
<1>3. CASE v = 3
  <2>1. Step(db, v) = Renamed(db)
    BY <1>3, StepIs
  <2> QED
    BY <1>1, <1>2, <2>1, RenamedIs DEF Advances
<1>4. CASE v = 9
  <2>1. Step(db, v) = Released(db)
    BY <1>4, StepIs
  <2> QED
    BY <1>1, <1>2, <2>1, ReleasedIs DEF Advances
<1>5. CASE v = 66
  <2>1. Step(db, v) = Guarded(db)
    BY <1>5, StepIs
  <2> QED
    BY <1>1, <1>2, <2>1, GuardedIs DEF Advances
<1>6. CASE v \notin {3, 9, 66}
  <2>1. Step(db, v) = Altered(db, v)
    BY <1>6, StepIs
  <2>2. /\ \A f \in {"tables", "ids", "guard", "refused", "cases"} :
              Altered(db, v)[f] = db[f]
        /\ Altered(db, v).missing \subseteq db.missing
        /\ Altered(db, v).todo \subseteq db.todo
    BY <1>1, AlteredIs
  <2>3. /\ Altered(db, v).tables = db.tables
        /\ Altered(db, v).ids = db.ids
        /\ Altered(db, v).guard = db.guard
        /\ Altered(db, v).refused = db.refused
        /\ Altered(db, v).cases = db.cases
    BY <2>2
  <2> QED
    BY <1>2, <2>1, <2>2, <2>3 DEF Advances
<1> QED
  BY <1>3, <1>4, <1>5, <1>6

LEMMA CreatedIs ==
    ASSUME TypeOK, NEW p, CreateAll(p)
    PROVE  /\ db' \in Schemas
           /\ db'.tables = db.tables \cup Tables
           /\ db'.guard <=> db.guard \/ "estimate_snapshot" \notin db.tables
           /\ \A f \in {"stamp", "missing", "todo", "ids", "refused", "cases"} : db'[f] = db[f]
<1> DEFINE grown == db.tables \cup Tables
           put == db.guard \/ "estimate_snapshot" \notin db.tables
           t == [db EXCEPT !.tables = grown]
<1>1. /\ db \in Schemas
      /\ db' = [t EXCEPT !.guard = put]
      /\ put \in BOOLEAN
      /\ grown \in SUBSET (Tables \cup {"case"})
  <2>1. db \in Schemas
    BY DEF TypeOK
  <2>2. db' = [t EXCEPT !.guard = put]
    BY DEF CreateAll
  <2>3. grown \in SUBSET (Tables \cup {"case"})
    BY <2>1 DEF Schemas
  <2>4. put \in BOOLEAN
    BY <2>1, Zenon DEF Schemas
  <2> QED
    BY <2>1, <2>2, <2>3, <2>4
<1> HIDE DEF grown, put
<1>2. /\ t \in Schemas
      /\ t.tables = grown
      /\ \A f \in {"stamp", "missing", "todo", "ids", "refused", "cases"} : t[f] = db[f]
  BY <1>1 DEF Schemas
<1> HIDE DEF t
<1>3. /\ [t EXCEPT !.guard = put] \in Schemas
      /\ [t EXCEPT !.guard = put].tables = grown
      /\ [t EXCEPT !.guard = put].guard = put
      /\ \A f \in {"stamp", "missing", "todo", "ids", "refused", "cases"} :
            [t EXCEPT !.guard = put][f] = db[f]
  BY <1>1, <1>2 DEF Schemas
<1> QED
  BY <1>1, <1>3 DEF grown, put

LEMMA NextAdvances == TypeOK /\ [Next]_vars => Advances
<1> SUFFICES ASSUME TypeOK, [Next]_vars PROVE Advances
  OBVIOUS
<1>1. ASSUME NEW p \in Procs, Migrate(p) PROVE Advances
  <2>1. CASE db' = db
    BY <2>1, Standing
  <2>2. CASE db' # db
    <3>1. db' = [Step(db, h[p].done + 1) EXCEPT !.stamp = h[p].done + 1]
      BY <1>1, <2>2 DEF Migrate
    <3>2. h[p].done + 1 \in Nat
      BY <1>1 DEF TypeOK, Migrate, At, Locals, Off, Upgraded
    <3> QED
      BY <3>1, <3>2, StepAdvances
  <2> QED
    BY <2>1, <2>2
<1>2. ASSUME NEW p \in Procs, CreateAll(p) PROVE Advances
  <2>1. /\ db'.tables = db.tables \cup Tables
        /\ db'.guard <=> db.guard \/ "estimate_snapshot" \notin db.tables
        /\ \A f \in {"stamp", "missing", "todo", "ids", "refused", "cases"} : db'[f] = db[f]
    BY <1>2, CreatedIs
  <2>2. /\ db'.missing = db.missing
        /\ db'.todo = db.todo
        /\ db'.ids = db.ids
        /\ db'.refused = db.refused
        /\ db'.cases = db.cases
    BY <2>1
  <2> QED
    BY <2>1, <2>2 DEF Advances
<1>3. ASSUME NEW p \in Procs, RepairMissingColumns(p) PROVE Advances
  BY <1>3 DEF RepairMissingColumns, Advances, TypeOK, Schemas
<1>4. ASSUME NEW p \in Procs, Stamp(p) PROVE Advances
  BY <1>4 DEF Stamp, Advances, TypeOK, Schemas
<1>5. CASE db' = db
  BY <1>5, Standing
<1> QED
  BY <1>1, <1>2, <1>3, <1>4, <1>5
  DEF Next, Ensure, Start, Dies, VerifyModelMatchesDatabase, SeedAtStart,
      SeedByHand, Edit, vars

\* Two processes that upgrade at once never undo each other: no column goes missing again,
\* no converted row is left to be converted again, no table, guard, released identifier or
\* rename is lost, and a table of snapshots that an upgrade creates has its guard at once.
THEOREM NothingIsUndone == Spec => [][Advances]_vars
<1>1. TypeOK /\ [Next]_vars => [Advances]_vars
  BY NextAdvances
<1> QED
  BY <1>1, UpgradeTypeCorrect, PTL DEF Spec

\* So what was earned remains earned.
LEMMA EarnedKept ==
    ASSUME TypeOK, Advances, NEW n \in Nat, Earned(n)
    PROVE  Earned(n)'
BY DEF Advances, Earned, TypeOK, Schemas

----------------------------------------------------------------------------
(* A stamp is earned. *)

LEMMA DetectedIs ==
    ASSUME NEW s, NEW n
    PROVE  /\ s.stamp # None => Detected(s, n) = s.stamp
           /\ s.stamp = None /\ s.tables \cap Probes # {} => Detected(s, n) = 1
           /\ s.stamp = None /\ s.tables \cap Probes = {} => Detected(s, n) = n
<1>1. s.stamp # None => Detected(s, n) = s.stamp
  BY DEF Detected
<1>2. s.stamp = None /\ s.tables \cap Probes # {} => Detected(s, n) = 1
  BY DEF Detected, Probes
<1>3. s.stamp = None /\ s.tables \cap Probes = {} => Detected(s, n) = n
  BY DEF Detected, Probes
<1> QED
  BY <1>1, <1>2, <1>3

\* No column and no row is of a later step, so that to have come this far is to have
\* come as far as the next build.
LEMMA EarnedFrom71 ==
    ASSUME TypeOK, NEW n \in Nat, NEW m \in Nat, n >= 71, m >= 71, Earned(n)
    PROVE  Earned(m)
<1>1. \A c \in db.missing : c[1] \in 2..70
  BY ColumnSteps DEF TypeOK, Schemas
<1>2. \A v \in db.todo : v \in 2..71
  BY ConvertingSteps DEF TypeOK, Schemas
<1> QED
  BY <1>1, <1>2 DEF Earned

\* There is no first step.
LEMMA FirstEarned == TypeOK => Earned(1)
<1> SUFFICES ASSUME TypeOK PROVE Earned(1)
  OBVIOUS
<1>1. \A c \in db.missing : c[1] > 1
  BY ColumnSteps DEF TypeOK, Schemas
<1>2. \A v \in db.todo : v > 1
  BY ConvertingSteps DEF TypeOK, Schemas
<1> QED
  BY <1>1, <1>2 DEF Earned

LEMMA InvInit == Init => IndInv
<1> SUFFICES ASSUME Init PROVE IndInv
  OBVIOUS
<1>1. TypeOK
  BY TypeInit
<1>2. \A p \in DOMAIN h : At(p, "off")
  BY DEF Init, At, Off
<1>3. DoneEarned /\ AllEarned /\ Verified /\ NewerIsIdle
  <2>1. \A p \in ThisBuild : At(p, "off")
    BY <1>1, <1>2 DEF TypeOK, Procs
  <2> QED
    BY <1>2, <2>1 DEF DoneEarned, AllEarned, Verified, NewerIsIdle, At, Upgraded
<1>4. CASE db = Fresh
  <2>1. Detected(db, SCHEMA_VERSION) = SCHEMA_VERSION
    BY <1>4, DetectedIs DEF Fresh
  <2>2. Earned(SCHEMA_VERSION) /\ WithinReach
    BY <1>4, UpgradeAssumption DEF Fresh, Earned, WithinReach
  <2> QED
    BY <1>1, <1>3, <2>1, <2>2 DEF IndInv, DetectedEarned
<1>5. CASE db # Fresh
  <2>1. PICK b \in PastBuilds, legacy \in BOOLEAN, refused \in BOOLEAN,
             ids \in {"unique", "request", "response"},
             cases \in {"case", "engagement_case", "both"} :
          /\ cases # "engagement_case" <=> b < 3
          /\ db = Left(b, legacy, ids, refused, cases)
    BY <1>5 DEF Init
  <2>2. /\ b \in Nat
        /\ db.stamp = IF b = 1 THEN None ELSE b
        /\ \A c \in db.missing : c \in Columns /\ c[1] > b /\ c[2] \in TablesOf(b)
        /\ db.guard <=> b >= 66 /\ ~refused
        /\ db.refused = refused
        /\ db.cases = IF cases = "engagement_case" THEN cases ELSE "case"
        /\ db.ids = IF b < 9 THEN ids ELSE "unique"
    BY <2>1, UpgradeAssumption DEF Left
  <2>3. /\ TablesOf(b) \ {"engagement_case"} \subseteq db.tables
        /\ cases # "engagement_case" => "case" \in db.tables
    BY <2>1 DEF Left
  <2>4. \A v \in db.todo : \E c \in Converting : c[1] = v /\ v > b /\ c[2] \in TablesOf(b)
    BY <2>1 DEF Left
  <2>5. \A c \in Columns : c[1] > b /\ c[2] \in TablesOf(b) => c \in db.missing
    BY <2>1 DEF Left
  <2>6. Earned(b)
    BY <2>1, <2>2, <2>4 DEF Earned
  <2>7. WithinReach
    <3>1. ASSUME NEW v \in db.todo \ {71}
          PROVE  \/ \E c \in WithTheColumn : c[1] = v /\ c \in db.missing
                 \/ \E c \in WithTheTable : c[1] = v /\ c[2] \in db.tables
      <4>1. PICK c \in WithTheColumn \cup WithTheTable :
                c[1] = v /\ v > b /\ c[2] \in TablesOf(b)
        <5>1. PICK c \in Converting : c[1] = v /\ v > b /\ c[2] \in TablesOf(b)
          BY <2>4, <3>1
        <5> QED
          BY <3>1, <5>1 DEF Converting
      <4> QED
        BY <2>3, <2>5, <4>1, ConvertingSteps
    <3>2. db.cases = "case" => "case" \in db.tables
      BY <2>2, <2>3
    <3> QED
      BY <3>1, <3>2 DEF WithinReach
  <2>8. DetectedEarned
    <3>1. CASE b = 1
      <4>1. "llm_run" \in db.tables \cap Probes
        BY <2>3, TableNames DEF FirstTables, Probes
      <4>2. Detected(db, SCHEMA_VERSION) = 1
        BY <2>2, <3>1, <4>1, DetectedIs
      <4> QED
        BY <1>1, <4>2, FirstEarned DEF DetectedEarned
    <3>2. CASE b # 1
      BY <2>2, <2>6, <3>2, DetectedIs, UpgradeAssumption DEF DetectedEarned
    <3> QED
      BY <3>1, <3>2
  <2> QED
    BY <1>1, <1>3, <2>7, <2>8 DEF IndInv
<1> QED
  BY <1>4, <1>5

\* A step earns its own version: with what the earlier ones have done, nothing of it or
\* below it is left.
LEMMA StepEarns ==
    ASSUME TypeOK, WithinReach, NEW v \in Nat, v >= 1, Earned(v - 1),
           v \in Versions => ~StepRefused(db, v),
           v <= SCHEMA_VERSION + 1,
           db' = [Step(db, v) EXCEPT !.stamp = v]
    PROVE  Earned(v)'
<1>1. /\ db \in Schemas
      /\ \A f \in {"tables", "missing", "todo", "ids", "guard", "refused", "cases"} :
            db'[f] = Step(db, v)[f]
  BY StepTyped DEF TypeOK
<1>2. /\ db'.tables = Step(db, v).tables
      /\ db'.missing = Step(db, v).missing
      /\ db'.todo = Step(db, v).todo
      /\ db'.ids = Step(db, v).ids
      /\ db'.guard = Step(db, v).guard
      /\ db'.refused = Step(db, v).refused
      /\ db'.cases = Step(db, v).cases
  BY <1>1
<1>3. Advances
  BY StepAdvances
<1>4. /\ \A c \in db.missing : c[1] \in Nat /\ c[1] > v - 1 /\ c[1] \notin {3, 9, 66}
      /\ \A w \in db.todo : w \in Nat /\ w \notin {3, 9, 66} /\ (w # 71 => w > v - 1)
  BY ColumnSteps, ConvertingSteps DEF Earned, Schemas, TypeOK
<1>5. \A c \in db'.missing : c[1] > v
  <2>1. CASE v \in {3, 9, 66}
    BY <1>3, <1>4, <2>1 DEF Advances
  <2>2. CASE v \notin {3, 9, 66}
    <3>1. Step(db, v) = Altered(db, v)
      BY <2>2, StepIs
    <3>2. \A c \in db'.missing : c \in db.missing /\ c[1] # v
      BY <1>1, <1>2, <3>1, AlteredIs
    <3> QED
      BY <1>4, <3>2
  <2> QED
    BY <2>1, <2>2
<1>6. \A w \in db'.todo \ {71} : w > v
  <2>1. CASE v \in {3, 9, 66}
    BY <1>3, <1>4, <2>1 DEF Advances
  <2>2. CASE v \notin {3, 9, 66}
    <3>1. Step(db, v) = Altered(db, v)
      BY <2>2, StepIs
    <3>2. \A w \in db'.todo : w \in db.todo /\ ~(Converted(db, v) /\ w = v)
      BY <1>1, <1>2, <3>1, AlteredIs
    <3>3. v \in db.todo \ {71} => Converted(db, v)
      BY DEF WithinReach, Converted
    <3> QED
      BY <1>4, <3>2, <3>3
  <2> QED
    BY <2>1, <2>2
<1>7. v >= 3 => db'.cases # "case"
  <2>1. CASE v = 3
    <3>1. Step(db, v) = Renamed(db) /\ ~HalfRenamed(db)
      BY <2>1, StepIs, UpgradeAssumption DEF StepRefused, Versions
    <3>2. db.cases = "case" => "case" \in db.tables
      BY DEF WithinReach
    <3> QED
      BY <1>1, <1>2, <3>1, <3>2, RenamedIs DEF HalfRenamed
  <2>2. CASE v > 3
    BY <1>3, <2>2 DEF Earned, Advances
  <2> QED
    BY <2>1, <2>2
<1>8. v >= 9 => db'.ids # "response"
  <2>1. CASE v = 9
    <3>1. db.ids # "response"
      BY <2>1, UpgradeAssumption DEF StepRefused, Versions
    <3> QED
      BY <1>3, <3>1 DEF Advances
  <2>2. CASE v > 9
    BY <1>3, <2>2 DEF Earned, Advances
  <2> QED
    BY <2>1, <2>2
<1>9. v >= 66 => db'.guard \/ db'.refused \/ "estimate_snapshot" \notin db'.tables
  <2>1. CASE v = 66
    <3>1. Step(db, v) = Guarded(db)
      BY <2>1, StepIs
    <3>2. db'.tables = db.tables /\ db'.refused = db.refused
      BY <1>1, <1>2, <3>1, GuardedIs
    <3>3. "estimate_snapshot" \in db.tables /\ ~db.refused => db'.guard
      BY <1>1, <1>2, <3>1, GuardedIs
    <3> QED
      BY <3>2, <3>3
  <2>2. CASE v > 66
    BY <1>3, <2>2 DEF Earned, Advances
  <2> QED
    BY <2>1, <2>2
<1> QED
  BY <1>5, <1>6, <1>7, <1>8, <1>9 DEF Earned

\* What a process has to show for the place it is at.
Fine(p) ==
    /\ At(p, "steps") => Earned(h[p].done)
    /\ h[p].pc \in Upgraded => Earned(SCHEMA_VERSION) /\ Tables \subseteq db.tables
    /\ h[p].pc \in {"seed", "serving"} => db.missing = {}

\* Whoever does not move keeps what he has to show.
LEMMA FineKept ==
    ASSUME IndInv, TypeOK', Advances,
           \A p \in Procs : h'[p] = h[p] \/ Fine(p)'
    PROVE  DoneEarned' /\ AllEarned' /\ Verified'
<1>1. DOMAIN h = Procs /\ DOMAIN h' = Procs
  BY DEF IndInv, TypeOK
<1>2. \A p \in Procs : Fine(p)
  BY <1>1 DEF IndInv, DoneEarned, AllEarned, Verified, Fine
<1>3. ASSUME NEW p \in Procs, h'[p] = h[p] PROVE Fine(p)'
  <2>1. At(p, "steps") => h[p].done \in Nat
    BY UpgradeAssumption DEF IndInv, TypeOK, At, Locals, Off, Upgraded
  <2>2. At(p, "steps")' => Earned(h[p].done)' /\ h'[p].done = h[p].done
    BY <1>2, <1>3, <2>1, EarnedKept DEF Fine, At, IndInv
  <2>3. h'[p].pc \in Upgraded => Earned(SCHEMA_VERSION)' /\ Tables \subseteq db'.tables
    BY <1>2, <1>3, EarnedKept, TableNames, UpgradeAssumption DEF Fine, IndInv, Advances
  <2>4. h'[p].pc \in {"seed", "serving"} => db'.missing = {}
    BY <1>2, <1>3 DEF Fine, Advances
  <2> QED
    BY <1>3, <2>2, <2>3, <2>4 DEF Fine, At, Earned
<1>4. \A p \in Procs : Fine(p)'
  BY <1>3
<1> QED
  BY <1>1, <1>4 DEF Fine, DoneEarned, AllEarned, Verified

\* A column leaves the list of those that are missing with the rows of its step.
Together == \A c \in db.missing \ db'.missing : c[1] \notin db'.todo

LEMMA ReachKept ==
    ASSUME TypeOK, WithinReach, Advances, Together
    PROVE  WithinReach'
<1>1. ASSUME NEW v \in db'.todo \ {71}
      PROVE  \/ \E c \in WithTheColumn : c[1] = v /\ c \in db'.missing
             \/ \E c \in WithTheTable : c[1] = v /\ c[2] \in db'.tables
  <2>1. v \in db.todo \ {71}
    BY <1>1 DEF Advances
  <2>2. CASE \E c \in WithTheColumn : c[1] = v /\ c \in db.missing
    BY <1>1, <2>2 DEF Together
  <2>3. CASE \E c \in WithTheTable : c[1] = v /\ c[2] \in db.tables
    BY <2>3, ConvertingSteps DEF Advances
  <2> QED
    BY <2>1, <2>2, <2>3 DEF WithinReach
<1>2. db'.cases = "case" => "case" \in db'.tables
  BY DEF WithinReach, Advances
<1> QED
  BY <1>1, <1>2 DEF WithinReach

LEMMA StepTogether ==
    ASSUME TypeOK, WithinReach, NEW v \in Nat,
           db' = [Step(db, v) EXCEPT !.stamp = v]
    PROVE  Together
<1>1. /\ db \in Schemas
      /\ \A f \in {"tables", "missing", "todo", "ids", "guard", "refused", "cases"} :
            db'[f] = Step(db, v)[f]
  BY StepTyped DEF TypeOK
<1>2. db'.missing = Step(db, v).missing /\ db'.todo = Step(db, v).todo
  BY <1>1
<1>3. CASE v \in {3, 9, 66}
  <2>1. Step(db, v) \in {Renamed(db), Released(db), Guarded(db)}
    BY <1>3, StepIs
  <2>2. Step(db, v).missing = db.missing
    BY <1>1, <2>1, RenamedIs, ReleasedIs, GuardedIs
  <2> QED
    BY <1>2, <2>2 DEF Together
<1>4. CASE v \notin {3, 9, 66}
  <2>1. Step(db, v) = Altered(db, v)
    BY <1>4, StepIs
  <2>2. \A c \in db.missing \ db'.missing : c[1] = v /\ v # 71
    <3>1. \A c \in db.missing \ db'.missing : c[1] = v
      BY <1>1, <1>2, <2>1, AlteredIs
    <3> QED
      BY <1>1, <3>1, ColumnSteps DEF Schemas
  <2>3. v \in db.todo \ {71} => Converted(db, v)
    BY DEF WithinReach, Converted
  <2>4. v \in db'.todo => v \in db.todo /\ ~Converted(db, v)
    BY <1>1, <1>2, <2>1, AlteredIs
  <2> QED
    BY <2>2, <2>3, <2>4 DEF Together
<1> QED
  BY <1>3, <1>4

\* The version a database is taken for changes with its stamp only, and with the tables
\* that a process which found none creates.
LEMMA DetectedKept ==
    ASSUME TypeOK, TypeOK', DetectedEarned, Advances, db'.stamp = db.stamp
    PROVE  DetectedEarned'
<1>1. CASE db.stamp # None
  <2>1. Detected(db, SCHEMA_VERSION) = db.stamp /\ Detected(db', SCHEMA_VERSION) = db.stamp
    BY <1>1, DetectedIs
  <2>2. db.stamp \in Nat
    BY <1>1 DEF TypeOK, Schemas
  <2>3. Earned(db.stamp)'
    BY <2>1, <2>2, EarnedKept DEF DetectedEarned
  <2> QED
    BY <2>1, <2>3 DEF DetectedEarned
<1>2. CASE db.stamp = None /\ db'.tables \cap Probes # {}
  <2>1. Detected(db', SCHEMA_VERSION) = 1
    BY <1>2, DetectedIs
  <2>2. Earned(1)'
    <3>1. \A c \in db'.missing : c[1] > 1
      BY ColumnSteps DEF TypeOK, Schemas
    <3>2. \A v \in db'.todo : v > 1
      BY ConvertingSteps DEF TypeOK, Schemas
    <3> QED
      BY <3>1, <3>2 DEF Earned
  <2> QED
    BY <2>1, <2>2 DEF DetectedEarned
<1>3. CASE db.stamp = None /\ db'.tables \cap Probes = {}
  <2>1. db.tables \cap Probes = {}
    BY <1>3 DEF Advances, Probes
  <2>2. /\ Detected(db, SCHEMA_VERSION) = SCHEMA_VERSION
        /\ Detected(db', SCHEMA_VERSION) = SCHEMA_VERSION
    BY <1>3, <2>1, DetectedIs
  <2>3. Earned(SCHEMA_VERSION)'
    BY <2>2, EarnedKept, UpgradeAssumption DEF DetectedEarned
  <2> QED
    BY <2>2, <2>3 DEF DetectedEarned
<1> QED
  BY <1>1, <1>2, <1>3

LEMMA IdleKept ==
    ASSUME IndInv, TypeOK', NEW p \in Procs, ~At(p, "off"),
           \A q \in Procs \ {p} : h'[q] = h[q],
           \/ db'.stamp = db.stamp /\ behind' = behind
           \/ behind' = Overtaken(db'.stamp)
    PROVE  NewerIsIdle'
<1> SUFFICES ASSUME db'.stamp # None, db'.stamp > SCHEMA_VERSION,
                    NEW q \in ThisBuild, h'[q].pc # "off"
             PROVE  q \in behind'
  BY DEF NewerIsIdle, At
<1>1. q \in Procs /\ ~At(q, "off")
  BY DEF Procs, At
<1>2. CASE db'.stamp = db.stamp /\ behind' = behind
  BY <1>1, <1>2 DEF IndInv, NewerIsIdle
<1>3. CASE behind' = Overtaken(db'.stamp)
  BY <1>1, <1>3 DEF Overtaken
<1> QED
  BY <1>2, <1>3

LEMMA InvMigrate ==
    ASSUME IndInv, TypeOK', Advances, NEW p \in Procs, Migrate(p)
    PROVE  IndInv'
<1>0. PICK v \in Nat : v = h[p].done + 1
  BY UpgradeAssumption DEF IndInv, TypeOK, Migrate, Expects, Set, At, Locals, Off, Upgraded
<1>1. /\ TypeOK
      /\ At(p, "steps")
      /\ ~At(p, "off")
      /\ h[p].done \in Nat
      /\ v \in 1..(SCHEMA_VERSION + 1)
      /\ \A q \in Procs \ {p} : h'[q] = h[q]
      /\ v \in Nat
      /\ v - 1 = h[p].done
  BY <1>0, UpgradeAssumption DEF IndInv, TypeOK, Migrate, Expects, Set, At, Locals, Off, Upgraded
<1>2. CASE UNCHANGED <<db, ref, behind>> /\ h' = [h EXCEPT ![p] = Off]
  <2>1. Fine(p)'
    BY <1>1, <1>2 DEF Fine, At, Off, Upgraded, TypeOK
  <2>2. \A q \in Procs : h'[q] = h[q] \/ Fine(q)'
    BY <1>1, <1>2, <2>1 DEF TypeOK
  <2>3. DoneEarned' /\ AllEarned' /\ Verified'
    BY <2>2, FineKept
  <2>4. WithinReach' /\ DetectedEarned'
    BY <1>2 DEF IndInv, WithinReach, DetectedEarned, Detected, Earned
  <2>5. NewerIsIdle'
    BY <1>1, <1>2, IdleKept
  <2> QED
    BY <2>3, <2>4, <2>5 DEF IndInv
<1>3. CASE /\ ~(v \in Versions /\ StepRefused(db, v))
           /\ db' = [Step(db, v) EXCEPT !.stamp = v]
           /\ behind' = Overtaken(v)
           /\ h' = [h EXCEPT ![p] = [pc |-> "steps", done |-> v]]
  <2>1. Earned(v - 1)
    BY <1>1 DEF IndInv, DoneEarned, TypeOK
  <2>2. WithinReach
    BY DEF IndInv
  <2>3. Earned(v)'
    BY <1>1, <1>3, <2>1, <2>2, StepEarns, UpgradeAssumption
  <2>4. WithinReach'
    <3>1. Together
      BY <1>1, <1>3, <2>2, StepTogether
    <3> QED
      BY <1>1, <2>2, <3>1, ReachKept
  <2>5. db'.stamp = v
    BY <1>1, <1>3, StepTyped DEF TypeOK
  <2>6. Fine(p)'
    BY <1>1, <1>3, <2>3 DEF Fine, At, Upgraded, TypeOK
  <2>7. \A q \in Procs : h'[q] = h[q] \/ Fine(q)'
    BY <1>1, <1>3, <2>6 DEF TypeOK
  <2>8. DoneEarned' /\ AllEarned' /\ Verified'
    BY <2>7, FineKept
  <2>9. DetectedEarned'
    BY <1>1, <2>3, <2>5, DetectedIs, UpgradeAssumption DEF DetectedEarned
  <2>10. NewerIsIdle'
    BY <1>1, <1>3, <2>5, IdleKept
  <2> QED
    BY <2>4, <2>8, <2>9, <2>10 DEF IndInv
<1> QED
  BY <1>0, <1>2, <1>3 DEF Migrate, Set

LEMMA InvEnsure ==
    ASSUME IndInv, TypeOK', Advances, NEW p \in Procs,
           Start(p) \/ CreateAll(p) \/ RepairMissingColumns(p) \/ Stamp(p)
    PROVE  IndInv'
<1>1. /\ TypeOK
      /\ \A q \in Procs : q # p => h'[q] = h[q]
      /\ DOMAIN h = Procs
      /\ db.stamp # None => db.stamp \in Nat
      /\ Expects(p) \in {SCHEMA_VERSION, SCHEMA_VERSION + 1}
      /\ p \in ThisBuild => Expects(p) = SCHEMA_VERSION
  BY UpgradeAssumption
  DEF IndInv, TypeOK, Procs, ThisBuild, Schemas, Start, CreateAll, RepairMissingColumns,
      Stamp, Set, Expects
<1>2. CASE Start(p)
  <2>1. PICK found : found = Detected(db, Expects(p))
    OBVIOUS
  <2>2. /\ db' = db
        /\ behind' = behind \ {p}
        /\ h'[p] = IF found > Expects(p) THEN Off ELSE [pc |-> "steps", done |-> found]
    BY <1>1, <1>2, <2>1 DEF Start, Set, Refuses
  <2>3. Earned(found)
    <3>1. CASE found = Detected(db, SCHEMA_VERSION)
      BY <3>1 DEF IndInv, DetectedEarned
    <3>2. CASE found # Detected(db, SCHEMA_VERSION)
      <4>1. Detected(db, SCHEMA_VERSION) = SCHEMA_VERSION /\ found = Expects(p)
        BY <1>1, <2>1, <3>2, DetectedIs
      <4>2. Earned(SCHEMA_VERSION)
        BY <4>1 DEF IndInv, DetectedEarned
      <4> QED
        BY <1>1, <4>1, <4>2, EarnedFrom71, UpgradeAssumption
    <3> QED
      BY <3>1, <3>2
  <2>4. Fine(p)'
    BY <1>1, <2>2, <2>3 DEF Fine, At, Off, Upgraded, Earned
  <2>5. DoneEarned' /\ AllEarned' /\ Verified'
    BY <1>1, <2>4, FineKept
  <2>6. WithinReach' /\ DetectedEarned'
    BY <2>2 DEF IndInv, WithinReach, DetectedEarned, Detected, Earned
  <2>7. NewerIsIdle'
    <3> SUFFICES ASSUME db.stamp # None, db.stamp > SCHEMA_VERSION,
                        NEW q \in ThisBuild, h'[q].pc # "off"
                 PROVE  q \in behind'
      BY <2>2 DEF NewerIsIdle, At
    <3>1. p \in ThisBuild => h'[p] = Off
      BY <1>1, <2>1, <2>2, DetectedIs
    <3>2. q # p
      BY <3>1 DEF Off
    <3> QED
      BY <1>1, <2>2, <3>2 DEF IndInv, NewerIsIdle, At, Procs
  <2> QED
    BY <2>5, <2>6, <2>7 DEF IndInv
<1>3. CASE CreateAll(p)
  <2>1. /\ At(p, "steps") /\ ~At(p, "off")
        /\ h[p].done >= SCHEMA_VERSION
        /\ h[p].done \in Nat
        /\ behind' = behind
        /\ h'[p] = [pc |-> "repair"]
    BY <1>1, <1>3, UpgradeAssumption DEF CreateAll, Set, TypeOK, Locals, Off, Upgraded, At
  <2>2. Earned(SCHEMA_VERSION)
    BY <1>1, <2>1, EarnedFrom71, UpgradeAssumption DEF IndInv, DoneEarned
  <2>3. /\ db'.tables = db.tables \cup Tables
        /\ \A f \in {"stamp", "missing", "todo"} : db'[f] = db[f]
    BY <1>1, <1>3, CreatedIs
  <2>4. Earned(SCHEMA_VERSION)' /\ Tables \subseteq db'.tables
    BY <1>1, <2>2, <2>3, EarnedKept, UpgradeAssumption
  <2>5. Fine(p)'
    BY <2>1, <2>4 DEF Fine, At
  <2>6. DoneEarned' /\ AllEarned' /\ Verified'
    BY <1>1, <2>5, FineKept
  <2>7. db'.stamp = db.stamp /\ db'.missing = db.missing
    BY <2>3
  <2>8. WithinReach' /\ DetectedEarned' /\ NewerIsIdle'
    BY <1>1, <2>1, <2>7, ReachKept, DetectedKept, IdleKept DEF IndInv, Together
  <2> QED
    BY <2>6, <2>8 DEF IndInv
<1>4. CASE RepairMissingColumns(p)
  <2>1. /\ At(p, "repair") /\ ~At(p, "off")
        /\ h'[p] = [pc |-> "stamp"]
        /\ behind' = behind
        /\ db'.stamp = db.stamp
        /\ db'.tables = db.tables
    BY <1>1, <1>4 DEF RepairMissingColumns, Set, TypeOK, Schemas, At
  <2>2. Earned(SCHEMA_VERSION) /\ Tables \subseteq db.tables
    BY <1>1, <2>1 DEF IndInv, AllEarned, Upgraded, At
  <2>3. Earned(SCHEMA_VERSION)'
    BY <1>1, <2>2, EarnedKept, UpgradeAssumption
  <2>4. Fine(p)'
    BY <2>1, <2>2, <2>3 DEF Fine, At
  <2>5. DoneEarned' /\ AllEarned' /\ Verified'
    BY <1>1, <2>4, FineKept
  <2>6. Together
    <3>1. \A c \in db.missing : c[1] \in 2..70
      BY <1>1, ColumnSteps DEF TypeOK, Schemas
    <3>2. \A v \in db'.todo \ {71} : v \in 2..71 /\ v > 71
      BY <1>1, <2>2, ConvertingSteps, UpgradeAssumption DEF Earned, TypeOK, Schemas, Advances
    <3> QED
      BY <3>1, <3>2 DEF Together
  <2>7. WithinReach' /\ DetectedEarned' /\ NewerIsIdle'
    BY <1>1, <2>1, <2>6, ReachKept, DetectedKept, IdleKept DEF IndInv
  <2> QED
    BY <2>5, <2>7 DEF IndInv
<1>5. CASE Stamp(p)
  <2>1. /\ At(p, "stamp") /\ ~At(p, "off")
        /\ h'[p] \in {Off, [pc |-> "verify"]}
    BY <1>1, <1>5 DEF Stamp, Set, TypeOK, At
  <2>2. Earned(SCHEMA_VERSION) /\ Tables \subseteq db.tables
    BY <1>1, <2>1 DEF IndInv, AllEarned, Upgraded, At
  <2>3. Earned(SCHEMA_VERSION)'
    BY <1>1, <2>2, EarnedKept, UpgradeAssumption
  <2>4. /\ db'.tables = db.tables /\ db'.missing = db.missing
        /\ \/ db'.stamp = db.stamp /\ behind' = behind
           \/ db'.stamp = Expects(p) /\ behind' = Overtaken(Expects(p))
    BY <1>1, <1>5 DEF Stamp, TypeOK, Schemas
  <2>5. Fine(p)'
    BY <2>1, <2>2, <2>3, <2>4 DEF Fine, At, Off, Upgraded
  <2>6. DoneEarned' /\ AllEarned' /\ Verified'
    BY <1>1, <2>5, FineKept
  <2>7. WithinReach'
    BY <1>1, <2>4, ReachKept DEF IndInv, Together
  <2>8. NewerIsIdle'
    BY <1>1, <2>1, <2>4, IdleKept, UpgradeAssumption
  <2>9. DetectedEarned'
    <3>1. CASE db'.stamp = db.stamp
      BY <1>1, <3>1, DetectedKept DEF IndInv
    <3>2. CASE db'.stamp = Expects(p)
      <4>1. Earned(SCHEMA_VERSION + 1)'
        BY <1>1, <2>2, EarnedFrom71, EarnedKept, UpgradeAssumption
      <4>2. Detected(db', SCHEMA_VERSION) = Expects(p)
        BY <1>1, <3>2, DetectedIs, UpgradeAssumption
      <4> QED
        BY <1>1, <2>3, <4>1, <4>2 DEF DetectedEarned
    <3> QED
      BY <2>4, <3>1, <3>2
  <2> QED
    BY <2>6, <2>7, <2>8, <2>9 DEF IndInv
<1> QED
  BY <1>2, <1>3, <1>4, <1>5

\* A process that leaves the database alone.
LEMMA InvAlone ==
    ASSUME IndInv, TypeOK', Advances, UNCHANGED <<db, behind>>, NEW p \in Procs,
           ~At(p, "off"),
           \A q \in Procs \ {p} : h'[q] = h[q],
           Fine(p)'
    PROVE  IndInv'
<1>1. \A q \in Procs : h'[q] = h[q] \/ Fine(q)'
  OBVIOUS
<1>2. DoneEarned' /\ AllEarned' /\ Verified'
  BY <1>1, FineKept
<1>3. WithinReach' /\ DetectedEarned'
  BY DEF IndInv, WithinReach, DetectedEarned, Detected, Earned
<1>4. NewerIsIdle'
  BY IdleKept
<1> QED
  BY <1>2, <1>3, <1>4 DEF IndInv

LEMMA InvStep == IndInv /\ [Next]_vars => IndInv'
<1> SUFFICES ASSUME IndInv, [Next]_vars PROVE IndInv'
  OBVIOUS
<1>1. TypeOK /\ TypeOK' /\ Advances
  BY TypeStep, NextAdvances DEF IndInv
<1>2. ASSUME NEW p \in Procs, Migrate(p) PROVE IndInv'
  BY <1>1, <1>2, InvMigrate
<1>3. ASSUME NEW p \in Procs,
             Start(p) \/ CreateAll(p) \/ RepairMissingColumns(p) \/ Stamp(p)
      PROVE  IndInv'
  BY <1>1, <1>3, InvEnsure
<1>4. ASSUME NEW p \in Procs, Dies(p) PROVE IndInv'
  <2>1. /\ UNCHANGED <<db, behind>> /\ ~At(p, "off") /\ h'[p] = Off
        /\ \A q \in Procs \ {p} : h'[q] = h[q]
    BY <1>1, <1>4 DEF Dies, Set, TypeOK
  <2>2. Fine(p)'
    BY <2>1 DEF Fine, At, Off, Upgraded
  <2> QED
    BY <1>1, <2>1, <2>2, InvAlone
<1>5. ASSUME NEW p \in Services, VerifyModelMatchesDatabase(p) PROVE IndInv'
  <2>1. /\ p \in Procs /\ UNCHANGED <<db, behind>> /\ At(p, "verify") /\ ~At(p, "off")
        /\ h'[p] = IF db.missing = {} THEN [pc |-> "seed"] ELSE Off
        /\ \A q \in Procs \ {p} : h'[q] = h[q]
    BY <1>1, <1>5 DEF VerifyModelMatchesDatabase, Set, TypeOK, At
  <2>2. Earned(SCHEMA_VERSION) /\ Tables \subseteq db.tables
    BY <1>1, <2>1 DEF IndInv, AllEarned, Upgraded, At, TypeOK
  <2>3. Fine(p)'
    BY <2>1, <2>2 DEF Fine, At, Off, Upgraded, Earned
  <2> QED
    BY <1>1, <2>1, <2>3, InvAlone
<1>6. ASSUME NEW p \in Services, SeedAtStart(p) PROVE IndInv'
  <2>1. /\ p \in Procs /\ UNCHANGED <<db, behind>> /\ At(p, "seed") /\ ~At(p, "off")
        /\ h'[p] = [pc |-> "serving"]
        /\ \A q \in Procs \ {p} : h'[q] = h[q]
    BY <1>1, <1>6 DEF SeedAtStart, Set, TypeOK, At
  <2>2. Earned(SCHEMA_VERSION) /\ Tables \subseteq db.tables /\ db.missing = {}
    BY <1>1, <2>1 DEF IndInv, AllEarned, Verified, Upgraded, At, TypeOK
  <2>3. Fine(p)'
    BY <2>1, <2>2 DEF Fine, At, Off, Upgraded, Earned
  <2> QED
    BY <1>1, <2>1, <2>3, InvAlone
<1>7. CASE UNCHANGED <<db, h, behind>>
  BY <1>1, <1>7
  DEF IndInv, WithinReach, DetectedEarned, Detected, Earned, DoneEarned, AllEarned,
      Verified, NewerIsIdle, At
<1> QED
  BY <1>2, <1>3, <1>4, <1>5, <1>6, <1>7
  DEF Next, Ensure, SeedByHand, Edit, vars

\* What stamps, processes and rows have to do with each other, through every crash and
\* with any number of processes at work.
THEOREM UpgradeInvariant == Spec => []IndInv
BY InvInit, InvStep, PTL DEF Spec

\* No column and no row of a step at or below the stamp is left behind: see StampIsEarned.
THEOREM EveryStampIsEarned == Spec => []StampIsEarned
<1>1. IndInv => StampIsEarned
  <2> SUFFICES ASSUME IndInv, db.stamp # None
               PROVE  /\ \A c \in db.missing : c[1] > db.stamp
                      /\ \A v \in db.todo \ {71} : v > db.stamp
    BY DEF StampIsEarned
  <2>1. Earned(db.stamp)
    BY DetectedIs DEF IndInv, DetectedEarned
  <2> QED
    BY <2>1 DEF Earned
<1> QED
  BY <1>1, UpgradeInvariant, PTL

\* What a service that serves can count on: see ServesWhole.
THEOREM ServiceIsWhole == Spec => []ServesWhole
<1>1. IndInv => ServesWhole
  <2> SUFFICES ASSUME IndInv, NEW p \in Services, At(p, "serving")
               PROVE  /\ Tables \subseteq db.tables
                      /\ db.missing = {}
                      /\ db.cases # "case"
                      /\ db.guard \/ db.refused
                      /\ db.ids # "response"
    BY DEF ServesWhole
  <2>1. p \in DOMAIN h
    BY DEF IndInv, TypeOK, Procs, ThisBuild
  <2>2. Earned(SCHEMA_VERSION) /\ Tables \subseteq db.tables /\ db.missing = {}
    BY <2>1 DEF IndInv, AllEarned, Verified, Upgraded, At
  <2> QED
    BY <2>2, TableNames, UpgradeAssumption DEF Earned
<1> QED
  BY <1>1, UpgradeInvariant, PTL

\* While a newer stamp stands, whoever of this build touches the database started before
\* it was written: see NewerIsUntouched.
THEOREM NewerStaysUntouched == Spec => NewerIsUntouched
<1>1. IndInv /\ [Next]_vars =>
        [db.stamp # None /\ db.stamp > SCHEMA_VERSION =>
            /\ db' # db => \E p \in behind \cup Newer : ~At(p, "off") /\ h'[p] # h[p]
            /\ ref' # ref => \/ \E p \in behind : ~At(p, "off")
                             \/ \E p \in Newer : Migrate(p)]_vars
  <2> SUFFICES ASSUME IndInv, Next, db.stamp # None, db.stamp > SCHEMA_VERSION
               PROVE  /\ db' # db =>
                            \E p \in behind \cup Newer : ~At(p, "off") /\ h'[p] # h[p]
                      /\ ref' # ref => \/ \E p \in behind : ~At(p, "off")
                                       \/ \E p \in Newer : Migrate(p)
    BY DEF vars
  <2>1. \A p \in ThisBuild : ~At(p, "off") => p \in behind
    BY DEF IndInv, NewerIsIdle
  <2>2. ASSUME NEW p \in Procs,
               Migrate(p) \/ CreateAll(p) \/ RepairMissingColumns(p) \/ Stamp(p)
        PROVE  ~At(p, "off") /\ h'[p] # h[p]
    <3>1. h \in [Procs -> Locals]
      BY DEF IndInv, TypeOK
    <3>2. CASE Migrate(p)
      <4>1. At(p, "steps") /\ h[p].done \in Nat
        BY <3>1, <3>2, UpgradeAssumption DEF Migrate, At, Locals, Off, Upgraded
      <4>2. h'[p] \in {Off, [pc |-> "steps", done |-> h[p].done + 1]}
        BY <3>1, <3>2 DEF Migrate, Set
      <4> QED
        BY <4>1, <4>2 DEF At, Off
    <3> QED
      BY <2>2, <3>1, <3>2 DEF CreateAll, RepairMissingColumns, Stamp, Set, At, Off
  <2>3. ASSUME NEW p \in Procs, Ensure(p) \/ Dies(p), db' # db
        PROVE  \E q \in behind \cup Newer : ~At(q, "off") /\ h'[q] # h[q]
    BY <2>1, <2>2, <2>3 DEF Ensure, Start, Dies, Procs
  <2>4. ASSUME NEW p \in Procs, Ensure(p) \/ Dies(p), ref' # ref
        PROVE  \/ \E q \in behind : ~At(q, "off")
               \/ \E q \in Newer : Migrate(q)
    BY <2>1, <2>2, <2>4
    DEF Ensure, Start, CreateAll, RepairMissingColumns, Stamp, Dies, Procs
  <2>5. ASSUME NEW q \in Services, At(q, "serving") \/ At(q, "seed")
        PROVE  \E p \in behind : ~At(p, "off")
    BY <2>1, <2>5 DEF At, ThisBuild
  <2> QED
    BY <2>3, <2>4, <2>5 DEF Next, VerifyModelMatchesDatabase, SeedAtStart, SeedByHand, Edit
<1> QED
  BY <1>1, UpgradeInvariant, PTL DEF Spec, NewerIsUntouched

\* What a person wrote is lost to a seed forced by hand, or, before the split, to step 17,
\* and to nothing else: see EditsSurviveStart.
THEOREM EditsAreKept == Spec => EditsSurviveStart
<1>1. TypeOK /\ [Next]_vars =>
        [\A r \in RefRows : ref[r] \in ByHand /\ ref'[r] \notin ByHand =>
            \/ r \notin Promoted /\ \E p \in Operators : SeedByHand(p)
            \/ ref[r] = "presplit" /\ \E p \in Procs : Migrate(p) /\ h[p].done = 16]_vars
  <2> SUFFICES ASSUME TypeOK, Next, NEW r \in RefRows, ref[r] \in ByHand
               PROVE  \/ ref'[r] \in ByHand
                      \/ r \notin Promoted /\ \E p \in Operators : SeedByHand(p)
                      \/ ref[r] = "presplit" /\ \E p \in Procs : Migrate(p) /\ h[p].done = 16
    BY DEF vars
  <2>1. ASSUME NEW p \in Procs, Migrate(p)
        PROVE  \/ ref'[r] \in ByHand
               \/ ref[r] = "presplit" /\ h[p].done = 16
    <3>1. h[p].done \in Nat
      BY <2>1, UpgradeAssumption DEF Migrate, TypeOK, At, Locals, Off, Upgraded
    <3>2. CASE ref' = ref
      BY <3>2
    <3>3. CASE ref' = Retiring(h[p].done + 1)
      BY <3>1, <3>3 DEF Retiring, ByHand
    <3> QED
      BY <2>1, <3>2, <3>3 DEF Migrate
  <2>2. ASSUME NEW p \in Services, SeedAtStart(p) PROVE ref'[r] \in ByHand
    <3>1. Seeded(FALSE)[r] = ref[r]
      BY DEF Seeded, ByHand
    <3> QED
      BY <2>2, <3>1 DEF SeedAtStart
  <2>3. ASSUME NEW p \in Operators, SeedByHand(p), r \in Promoted PROVE ref'[r] \in ByHand
    <3>1. Seeded(TRUE)[r] = ref[r]
      BY <2>3 DEF Seeded, ByHand, Wanted, Promoted
    <3> QED
      BY <2>3, <3>1 DEF SeedByHand
  <2>4. ASSUME NEW e \in ByPeople, Edit(e) PROVE ref'[r] \in ByHand
    BY <2>4 DEF Edit, TypeOK, ByHand
  <2>5. CASE ref' = ref
    BY <2>5
  <2> QED
    BY <2>1, <2>2, <2>3, <2>4, <2>5
    DEF Next, Ensure, Start, CreateAll, RepairMissingColumns, Stamp, Dies,
        VerifyModelMatchesDatabase
<1> QED
  BY <1>1, UpgradeTypeCorrect, PTL DEF Spec, EditsSurviveStart
=============================================================================
