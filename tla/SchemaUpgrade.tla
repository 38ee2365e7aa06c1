---------------------------- MODULE SchemaUpgrade ----------------------------
(***************************************************************************)
(* Bringing a database to the version this build expects, and its reference *)
(* rows with it (migrations.py, seed.py, the lifespan of main.py): a build  *)
(* starts on a database any earlier build left, applies its steps one       *)
(* transaction at a time, creates what is new, repairs, stamps, verifies    *)
(* and seeds.  It can die between any two transactions; an operator can run *)
(* the same upgrade, or a forced seed, by hand meanwhile, and the next      *)
(* build can be rolled out over it.                                         *)
(*                                                                          *)
(* A column is <<step, table>>, the step that adds it and its table; rows   *)
(* are told apart by what a step does to them.  The database is PostgreSQL. *)
(***************************************************************************)
EXTENDS Naturals

CONSTANTS
    Services,       \* processes that run the lifespan
    Operators,      \* processes started by hand
    Newer,          \* processes of the next build, which has one step more
    SCHEMA_VERSION, \* what this build expects
    PastBuilds,     \* versions the database may be at, newer ones included
    MaxStarts,      \* bound: times a process is started, or seeds by hand
    Recent,         \* bound: on an empty database, or one older than this, one time less
    None            \* no stamp

Versions == 2..SCHEMA_VERSION

ASSUME UpgradeAssumption ==
    /\ SCHEMA_VERSION = 71
    /\ PastBuilds \subseteq Nat
    /\ MaxStarts \in Nat \ {0}
    /\ Recent \in Nat
    /\ None \notin Nat \cup {"case", "engagement_case"}
    /\ Services \cap Operators = {}
    /\ Newer \cap (Services \cup Operators) = {}

\* The columns each step adds, by the table they are added to.
Columns2to7 == {<<2, "llm_run">>, <<2, "lever">>, <<4, "llm_run">>, <<5, "llm_run">>,
    <<6, "simulation_run">>, <<7, "llm_run">>}
Columns10to17 == {<<10, "usage_reconciliation">>, <<11, "domain_disposition">>,
    <<13, "engagement_case">>, <<14, "questionnaire_item">>, <<15, "engagement_case">>,
    <<16, "unit_cost_prior">>, <<17, "unit_cost_prior">>}
Columns20to27 == {<<20, "llm_run">>, <<21, "engagement_case">>, <<22, "evidenced_footprint">>,
    <<23, "engagement_case">>, <<24, "engagement_case">>, <<25, "engagement_case">>,
    <<26, "engagement_case">>, <<27, "estimate_snapshot">>}
Columns31to35 == {<<31, "unit_cost_prior">>, <<32, "engagement_case">>, <<33, "llm_run">>,
    <<35, "location">>}
Columns38to43 == {<<38, "known_fact">>, <<39, "engagement_case">>, <<40, "unit_cost_prior">>,
    <<41, "lever">>, <<42, "unit_cost_prior">>, <<43, "unit_cost_prior">>}
Columns44to46 == {<<44, "unit_cost_prior">>, <<45, "archetype_prior">>,
    <<45, "engagement_case">>, <<46, "lever">>}
Columns47to50 == {<<47, "serviceability">>, <<48, "benchmark_observation">>,
    <<49, "archetype_prior">>, <<50, "engagement_case">>}
Columns58to65 == {<<58, "preflight_report">>, <<59, "engagement_case">>,
    <<60, "benchmark_observation">>, <<61, "known_fact">>, <<64, "lever">>, <<65, "lever">>}
Columns68to70 == {<<68, "unit_cost_prior">>, <<69, "engagement_case">>, <<70, "unit_cost_prior">>}

Columns == UNION {Columns2to7, Columns10to17, Columns20to27, Columns31to35, Columns38to43,
    Columns44to46, Columns47to50, Columns58to65, Columns68to70}

\* The tables a step introduces and leaves to create_all.
Tables12to19 == {<<12, "recommendation">>, <<13, "questionnaire_item">>,
    <<16, "evidenced_footprint">>, <<18, "benchmark_observation">>, <<19, "research_brief">>}
Tables26to37 == {<<26, "archetype_bandwidth">>, <<28, "evidenced_archetype">>,
    <<29, "evidenced_anchor">>, <<30, "country_region">>, <<34, "location">>,
    <<36, "serviceability">>, <<37, "density_mix">>}
Tables51to68 == {<<51, "validation_case">>, <<52, "assumption_register">>, <<53, "provider">>,
    <<54, "estimate_delta">>, <<55, "outside_in_tco_calibration">>, <<56, "industry_benchmark">>,
    <<57, "case_rate">>, <<62, "fx_rate">>, <<63, "archetype_resilience">>,
    <<67, "plausibility_benchmark">>, <<68, "density_cost_multiplier">>}
NewTables == UNION {Tables12to19, Tables26to37, Tables51to68}
FirstTables == {"engagement_case", "llm_run", "lever", "simulation_run", "usage_reconciliation",
    "domain_disposition", "unit_cost_prior", "archetype_prior", "known_fact",
    "estimate_snapshot", "preflight_report", "threshold"}
Tables == FirstTables \cup {t[2] : t \in NewTables}

\* Steps that also convert rows: two only when they have just added the column,
\* the others wherever the table is there.
WithTheColumn == {<<6, "simulation_run">>, <<61, "known_fact">>}
WithTheTable == {<<7, "llm_run">>, <<17, "unit_cost_prior">>, <<31, "unit_cost_prior">>,
    <<44, "unit_cost_prior">>, <<45, "archetype_prior">>, <<46, "lever">>,
    <<47, "serviceability">>, <<48, "benchmark_observation">>}
Converting == WithTheColumn \cup WithTheTable \cup {<<71, "engagement_case">>}

VARIABLES
    db,     \* the schema and the rows the steps are about
    ref,    \* reference rows the seed writes, or must not
    h,      \* each process
    behind, \* history: processes of this build that the newer stamp found at work
    starts  \* processes still to be started (bounded)

vars == <<db, ref, h, behind, starts>>

ThisBuild == Services \cup Operators
Procs == ThisBuild \cup Newer
Expects(p) == IF p \in Newer THEN SCHEMA_VERSION + 1 ELSE SCHEMA_VERSION

\* Reference rows: three this build's catalogue has (one added by it, one a
\* steward tunes), the current research brief, an archetype that named BROADBAND
\* before that product was split and a price with the id of that time, a row the
\* catalogue no longer has, a promoted price, one promoted before price_basis
\* existed, and a price derived from benchmarks.
Wanted == {"kept", "tuned", "added", "brief", "site"}
Promoted == {"promoted"}
RefRows == Wanted \cup Promoted \cup {"dropped", "flat", "promoted_early", "derived"}
ByPeople == {"tuned", "site", "promoted", "derived"}

\* A row a person wrote or tuned is "hand"; "presplit" if it still has the form
\* from before the split.
ByHand == {"hand", "presplit"}
RefLeft(b) ==
    [r \in RefRows |->
        CASE r \in {"kept", "dropped"} -> "old"
          [] r = "tuned" -> "hand"
          [] r = "promoted_early" -> IF b >= 16 THEN "hand" ELSE "absent"
          [] r = "site" -> IF b < 17 THEN "presplit" ELSE "hand"
          [] r = "flat" -> IF b < 17 THEN "presplit" ELSE "absent"
          [] OTHER -> "absent"]

\* The physical shape a build at version b left.  Rows that later steps convert
\* may be there; identifiers may be duplicated, in the column that can be
\* released or in the one that cannot; a build before 66 could store a REFUSED
\* snapshot; a rename done by hand may be half finished.
TablesOf(b) == {t \in Tables : t \in FirstTables \/ \E n \in NewTables : n[2] = t /\ n[1] <= b}
Left(b, legacy, ids, refused, cases) ==
    [stamp |-> IF b = 1 THEN None ELSE b,
     tables |-> IF cases = "engagement_case" THEN TablesOf(b)
                ELSE (TablesOf(b) \ {"engagement_case"}) \cup
                     IF cases = "both" THEN {"case", "engagement_case"} ELSE {"case"},
     missing |-> {c \in Columns : c[1] > b /\ c[2] \in TablesOf(b)},
     todo |-> IF legacy THEN {c[1] : c \in {d \in Converting : d[1] > b /\ d[2] \in TablesOf(b)}}
              ELSE {},
     ids |-> IF b < 9 THEN ids ELSE "unique",
     guard |-> b >= 66 /\ ~refused,
     refused |-> refused,
     cases |-> IF cases = "engagement_case" THEN "engagement_case" ELSE "case"]

Fresh == [stamp |-> None, tables |-> {}, missing |-> {}, todo |-> {}, ids |-> "unique",
          guard |-> FALSE, refused |-> FALSE, cases |-> None]

Off == [pc |-> "off"]

Init ==
    /\ \/ /\ db = Fresh
          /\ ref = [r \in RefRows |-> "absent"]
          /\ starts = MaxStarts - 1
       \/ /\ \E b \in PastBuilds, legacy, refused \in BOOLEAN,
                ids \in {"unique", "request", "response"},
                cases \in {"case", "engagement_case", "both"} :
                /\ cases # "engagement_case" <=> b < 3
                /\ ids = "request" => b >= 2
                /\ db = Left(b, legacy, ids, refused, cases)
                /\ ref = RefLeft(b)
                /\ starts = IF b < Recent THEN MaxStarts - 1 ELSE MaxStarts
    /\ h = [p \in Procs |-> Off]
    /\ behind = {}

At(p, l) == h[p].pc = l
Set(p, local) == h' = [h EXCEPT ![p] = local]

\* Mutants: of Detected, StepRefused, Refuses and Seeded.
DetectedByStamp(s, latest) == IF s.stamp # None THEN s.stamp ELSE latest
StepRefusedForDuplicates(s, v) == v = 9 /\ s.ids = "response"
RefusesNothingNewer(found, latest) == FALSE
SeededFromScratch(force) ==
    [r \in RefRows |-> IF r \in Wanted THEN "now" ELSE "absent"]

----------------------------------------------------------------------------
(* ensure *)

\* _detect: the stamp, or 1 where there are tables but no stamp, or nothing to
\* upgrade where there are none.  Read once, before the steps.
Detected(s, latest) ==
    CASE s.stamp # None -> s.stamp
      [] s.stamp = None
         /\ s.tables \cap {"llm_run", "engagement_case", "case", "threshold"} # {} -> 1
      [] OTHER -> latest

Refuses(found, latest) == found > latest

Start(p) ==
    /\ At(p, "off")
    /\ starts > 0
    /\ p \in Operators => \E q \in Services : ~At(q, "off")
    /\ starts' = starts - 1
    /\ LET found == Detected(db, Expects(p)) IN
          Set(p, IF Refuses(found, Expects(p)) THEN Off ELSE [pc |-> "steps", done |-> found])
    /\ behind' = behind \ {p}
    /\ UNCHANGED <<db, ref>>

\* v3: the case table had a reserved name.
Renamed(s) ==
    IF "case" \in s.tables /\ "engagement_case" \notin s.tables
    THEN [s EXCEPT !.tables = (@ \ {"case"}) \cup {"engagement_case"},
                   !.cases = "engagement_case"]
    ELSE s
HalfRenamed(s) == {"case", "engagement_case"} \subseteq s.tables

\* v9: duplicates are released and quarantined, where the column can hold NULL.
Released(s) == IF s.ids = "request" THEN [s EXCEPT !.ids = "released"] ELSE s

\* v66: no REFUSED snapshot may be stored, unless one is there already.
Guarded(s) ==
    IF "estimate_snapshot" \in s.tables /\ ~s.refused THEN [s EXCEPT !.guard = TRUE] ELSE s

\* v71: saved scopes are resolved where there is an atlas to resolve them in.
Atlas == {"country_region", "unit_cost_prior", "engagement_case"}

Converted(s, v) ==
    \/ \E c \in WithTheColumn : c[1] = v /\ c \in s.missing
    \/ \E c \in WithTheTable : c[1] = v /\ c[2] \in s.tables
    \/ v = 71 /\ Atlas \subseteq s.tables

Altered(s, v) ==
    [s EXCEPT !.missing = {c \in @ : c[1] # v},
              !.todo = IF Converted(s, v) THEN @ \ {v} ELSE @]

Step(s, v) ==
    CASE v = 3 -> Renamed(s)
      [] v = 9 -> Released(s)
      [] v = 66 -> Guarded(s)
      [] OTHER -> Altered(s, v)

StepRefused(s, v) == (v = 3 /\ HalfRenamed(s)) \/ (v = 9 /\ s.ids = "response")

\* v17 deletes the rows that have the form from before the split, whoever wrote
\* them; v21 retires the briefs the seed wrote.
Retiring(v) ==
    [r \in RefRows |->
        IF v = 17 /\ ref[r] = "presplit" THEN "absent"
        ELSE IF v = 21 /\ r = "brief" /\ ref[r] = "now" /\ "research_brief" \in db.tables
             THEN "retired" ELSE ref[r]]

\* The processes of this build that a stamp leaves behind.
Overtaken(stamp) ==
    IF stamp > SCHEMA_VERSION THEN {p \in ThisBuild : ~At(p, "off")} ELSE {}

\* One step and its stamp, in one transaction, whatever the stamp is by now.  What
\* the next build's own step adds is its own.
Migrate(p) ==
    /\ At(p, "steps")
    /\ h[p].done < Expects(p)
    /\ LET v == h[p].done + 1 IN
          IF v \in Versions /\ StepRefused(db, v)
          THEN Set(p, Off) /\ UNCHANGED <<db, ref, behind>>
          ELSE /\ db' = [Step(db, v) EXCEPT !.stamp = v]
               /\ ref' = Retiring(v)
               /\ behind' = Overtaken(v)
               /\ Set(p, [pc |-> "steps", done |-> v])
    /\ UNCHANGED starts

\* What is wholly new is created complete, after the steps.
CreateAll(p) ==
    /\ At(p, "steps")
    /\ h[p].done >= Expects(p)
    /\ db' = [db EXCEPT !.tables = @ \cup Tables,
                        !.guard = @ \/ "estimate_snapshot" \notin db.tables]
    /\ Set(p, [pc |-> "repair"])
    /\ UNCHANGED <<ref, behind, starts>>

RepairMissingColumns(p) ==
    /\ At(p, "repair")
    /\ db' = [db EXCEPT !.missing = {}]
    /\ Set(p, [pc |-> "stamp"])
    /\ UNCHANGED <<ref, behind, starts>>

\* Drift left after the repair stops the process before the last stamp.  What the
\* next build does once it has stamped is its own.
Stamp(p) ==
    /\ At(p, "stamp")
    /\ IF db.missing = {}
       THEN /\ db' = [db EXCEPT !.stamp = Expects(p)]
            /\ behind' = Overtaken(Expects(p))
            /\ Set(p, IF p \in Services THEN [pc |-> "verify"] ELSE Off)
       ELSE Set(p, Off) /\ UNCHANGED <<db, behind>>
    /\ UNCHANGED <<ref, starts>>

----------------------------------------------------------------------------
(* The lifespan, and the seed *)

VerifyModelMatchesDatabase(p) ==
    /\ At(p, "verify")
    /\ Set(p, IF db.missing = {} THEN [pc |-> "seed"] ELSE Off)
    /\ UNCHANGED <<db, ref, behind, starts>>

\* Missing keys are added.  Forced, the rows this build's catalogue has take
\* its values, and the others go unless they are marked as promoted.
Seeded(force) ==
    [r \in RefRows |->
        IF r \in Wanted THEN IF force \/ ref[r] = "absent" THEN "now" ELSE ref[r]
        ELSE IF force /\ r \notin Promoted THEN "absent" ELSE ref[r]]

\* A seed that fails is logged, and the service serves.
SeedAtStart(p) ==
    /\ At(p, "seed")
    /\ ref' \in {ref, Seeded(FALSE)}
    /\ Set(p, [pc |-> "serving"])
    /\ UNCHANGED <<db, behind, starts>>

SeedByHand(p) ==
    /\ At(p, "off")
    /\ starts > 0
    /\ \E q \in Services : At(q, "serving")
    /\ starts' = starts - 1
    /\ ref' = Seeded(TRUE)
    /\ UNCHANGED <<db, h, behind>>

\* People tune, promote and derive reference rows through the service.
Edit(r) ==
    /\ \E q \in Services : At(q, "serving")
    /\ ref[r] # "hand"
    /\ ref' = [ref EXCEPT ![r] = "hand"]
    /\ UNCHANGED <<db, h, behind, starts>>

\* A transaction fails, or the process is killed.
Dies(p) ==
    /\ ~At(p, "off")
    /\ Set(p, Off)
    /\ UNCHANGED <<db, ref, behind, starts>>

Ensure(p) ==
    Start(p) \/ Migrate(p) \/ CreateAll(p) \/ RepairMissingColumns(p) \/ Stamp(p)

Next ==
    \/ \E p \in Procs : Ensure(p) \/ Dies(p)
    \/ \E p \in Services : VerifyModelMatchesDatabase(p) \/ SeedAtStart(p)
    \/ \E p \in Operators : SeedByHand(p)
    \/ \E r \in ByPeople : Edit(r)

Spec == Init /\ [][Next]_vars
=============================================================================
