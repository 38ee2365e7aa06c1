------------------------- MODULE SchemaUpgradeProps -------------------------
(***************************************************************************)
(* What an upgrade promises (migrations.py, seed.py, main.py).              *)
(***************************************************************************)
EXTENDS SchemaUpgrade

\* A stamp is earned, not asserted (tests/test_migrations.py:585): whatever a
\* process died doing, and with two of them at work, no column and no row of a
\* step at or below the stamp is left behind.  Step 71 skips by design where
\* there is no atlas (migrations.py:1612).
StampIsEarned ==
    db.stamp # None =>
        /\ \A c \in db.missing : c[1] > db.stamp
        /\ \A v \in db.todo \ {71} : v > db.stamp

\* A service that serves has every table and column it will select, can reach
\* every case of the database it started on, and no REFUSED snapshot can be
\* stored unless the database already held one (main.py:20, migrations.py:147,
\* 1451).
ServesWhole ==
    (\E p \in Services : At(p, "serving")) =>
        /\ Tables \subseteq db.tables
        /\ db.missing = {}
        /\ db.cases # "case"
        /\ db.guard \/ db.refused
        /\ db.ids # "response"

\* While a newer build's stamp stands, no process of this build that started after
\* it was written changes the database - no step, no stamp, no seed and no table but
\* the three an upgrade writes its evidence to (ensure, migrations.py:1815) - and
\* reference rows change only by the newer build's own steps or while one that started
\* before is still at work.  That one reads the version once (1813) and may stamp a
\* lower one; then the newer stamp no longer stands.
NewerIsUntouched ==
    [][db.stamp # None /\ db.stamp > SCHEMA_VERSION =>
          /\ db' # db => \E p \in behind \cup Newer : ~At(p, "off") /\ h'[p] # h[p]
          /\ ref' # ref => \/ \E p \in behind : ~At(p, "off")
                           \/ \E p \in Newer : Migrate(p)]_vars

\* A row somebody wrote or tuned outlives every restart and every upgrade (seed.py:3223,
\* the revision that ran DELETE at start-up), but for a seed forced by hand, which
\* leaves what is marked as promoted, and for step 17, which takes the rows that have
\* the form from before the split, hand-tuned ones too (migrations.py:545, 561).
EditsSurviveStart ==
    [][\A r \in RefRows : ref[r] \in ByHand /\ ref'[r] \notin ByHand =>
          \/ r \notin Promoted /\ \E p \in Operators : SeedByHand(p)
          \/ ref[r] = "presplit" /\ \E p \in Procs : Migrate(p) /\ h[p].done = 16]_vars

----------------------------------------------------------------------------
(* The inductive invariant behind the properties above. *)

\* A process upgrades, or is past it.
Upgraded == {"repair", "stamp", "verify", "seed", "serving"}
Locals == {Off} \cup [pc : {"steps"}, done : 0..(SCHEMA_VERSION + 1)] \cup [pc : Upgraded]

Schemas ==
    [stamp : Nat \cup {None}, tables : SUBSET (Tables \cup {"case"}),
     missing : SUBSET Columns, todo : SUBSET {c[1] : c \in Converting},
     ids : {"unique", "request", "response", "released"},
     guard : BOOLEAN, refused : BOOLEAN, cases : {"case", "engagement_case", None}]

TypeOK ==
    /\ db \in Schemas
    /\ ref \in [RefRows -> {"absent", "old", "now", "hand", "presplit", "retired"}]
    /\ h \in [Procs -> Locals]
    /\ behind \subseteq ThisBuild
    /\ starts \in Nat

\* Nothing the steps up to n are for is left to do.  No step takes this back.
Earned(n) ==
    /\ \A c \in db.missing : c[1] > n
    /\ \A v \in db.todo \ {71} : v > n
    /\ n >= 3 => db.cases # "case"
    /\ n >= 9 => db.ids # "response"
    /\ n >= 66 => db.guard \/ db.refused \/ "estimate_snapshot" \notin db.tables

\* What is taken for the version of a database is earned, stamped or not; and so is
\* what each process has done, although another one may stamp a lower version meanwhile.
DetectedEarned == Earned(Detected(db, SCHEMA_VERSION))
DoneEarned == \A p \in DOMAIN h : At(p, "steps") => Earned(h[p].done)
AllEarned ==
    \A p \in DOMAIN h : h[p].pc \in Upgraded => Earned(SCHEMA_VERSION) /\ Tables \subseteq db.tables
Verified == \A p \in DOMAIN h : h[p].pc \in {"seed", "serving"} => db.missing = {}

\* A row still to be converted is where its step will look for it.
WithinReach ==
    /\ \A v \in db.todo \ {71} :
          \/ \E c \in WithTheColumn : c[1] = v /\ c \in db.missing
          \/ \E c \in WithTheTable : c[1] = v /\ c[2] \in db.tables
    /\ db.cases = "case" => "case" \in db.tables

\* Nobody of this build is at work under a newer stamp but those it found at work.
NewerIsIdle ==
    db.stamp # None /\ db.stamp > SCHEMA_VERSION =>
        \A p \in ThisBuild : At(p, "off") \/ p \in behind

IndInv ==
    /\ TypeOK
    /\ DetectedEarned
    /\ DoneEarned
    /\ AllEarned
    /\ Verified
    /\ WithinReach
    /\ NewerIsIdle
=============================================================================
