------------------------------ MODULE CaseGate ------------------------------
(***************************************************************************)
(* The gates in front of a run of one case: the intake block and its lock   *)
(* (routers/api.py, update_case), entity confirmation (entity_resolution,   *)
(* confirm), the known-fact register (known_facts), the pre-flight report   *)
(* and assert_clear_to_run (preflight), and the simulations:run and         *)
(* estimates:run routes that begin with it.                                 *)
(*                                                                          *)
(* Handlers run on request threads and share only the database.  A step is  *)
(* one statement: under READ COMMITTED each sees the rows as they are then. *)
(* The hash of the inputs is the inputs themselves.                         *)
(***************************************************************************)
EXTENDS Naturals, Sequences

CONSTANTS
    Clients,      \* request threads
    Identities,   \* legal names with their perimeter
    Intakes,      \* values of the other intake fields a condition reads
    Missing,      \* the intake with a mandatory field unset
    Facts,        \* identities of known facts
    None,         \* no value
    Budget        \* bound: requests of each kind that clients send

ASSUME CaseAssumption ==
    /\ Missing \in Intakes
    /\ None \notin Identities \cup Intakes
    /\ Budget \in [{"update", "confirm", "preflight", "run"} -> Nat]

VARIABLES
    case,     \* the case row
    facts,    \* known_fact rows
    reports,  \* preflight_report rows in created_at order
    runs,     \* what each simulation or estimate was started on
    h,        \* each request handler: where it stands and what it has read
    left,     \* requests of each kind still to be sent (bounded)
    raced     \* history: a confirmation fell between another's read and write

vars == <<case, facts, reports, runs, h, left, raced>>

\* name stands for the four fields confirmation locks; resolved for
\* resolved_entity_id with entity_confirmed_by, which are set together.
Cases == [name : Identities \cup {None}, resolved : Identities \cup {None},
          version : Nat, intake : Intakes]

FactStates == {"absent", "free", "uncleared", "cleared"}
FactRows == [Facts -> FactStates]

\* What the conditions of a report are computed from, and what it hashes.
\* The conditions use the confirmation as a query of its own found it.
Reads == [row : Cases, confirmed : BOOLEAN, facts : FactRows]
Inputs == [row : Cases, facts : FactRows]

Reports == [conditions : Reads, input_digest : Inputs, blocked : BOOLEAN, acknowledged : BOOLEAN]

Runs == [report : Nat, checked : Inputs, used : Cases]

\* What a handler holds at each place.
Locals ==
    [pc : {"idle"}] \cup
    [pc : {"edit"}, name : Identities \cup {None}, intake : Intakes \cup {None}, locked : BOOLEAN] \cup
    [pc : {"confirm"}, candidate : Identities, current : Nat] \cup
    [pc : {"confirmed?"}, row : Cases] \cup
    [pc : {"facts"}, row : Cases, confirmed : BOOLEAN] \cup
    [pc : {"digest"}, conditions : Reads] \cup
    [pc : {"digestFacts"}, conditions : Reads, row : Cases] \cup
    [pc : {"insert"}, conditions : Reads, input_digest : Inputs] \cup
    [pc : {"gate"}, report : Nat] \cup
    [pc : {"gateFacts"}, report : Nat, row : Cases] \cup
    [pc : {"launch"}, report : Nat, checked : Inputs]

Idle == [pc |-> "idle"]

Confirmed == case.resolved # None

\* create_case stores whatever intake the analyst already has.
Init ==
    /\ case \in [name : Identities \cup {None}, resolved : {None}, version : {0}, intake : Intakes]
    /\ facts = [f \in Facts |-> "absent"]
    /\ reports = <<>>
    /\ runs = <<>>
    /\ h = [c \in Clients |-> Idle]
    /\ left = Budget
    /\ raced = FALSE

At(c, l) == h[c].pc = l
Set(c, local) == h' = [h EXCEPT ![c] = local]
Finish(c) == Set(c, Idle)

\* A request reaches an idle thread.
Receive(c, kind) ==
    /\ At(c, "idle")
    /\ left[kind] > 0
    /\ left' = [left EXCEPT ![kind] = @ - 1]

\* Mutants: of Locked, NextVersion, Blocking, Unchanged.
LockedNever == FALSE
SameVersion(n) == n
BlockingWithoutRights(in) == in.row.name = None \/ ~in.confirmed \/ in.row.intake = Missing
UnchangedAlways(report, in) == TRUE

Locked == Confirmed
NextVersion(n) == n + 1

\* A save touches only the fields it was given.
Saved(field, old) == IF field = None THEN old ELSE field

\* A BLOCK among the conditions: no named confirmation, a mandatory field
\* missing, or a prior-engagement fact whose rights are not cleared.
Blocking(in) ==
    \/ ~in.confirmed
    \/ in.row.name = None
    \/ in.row.intake = Missing
    \/ \E f \in Facts : in.facts[f] = "uncleared"

\* The report still describes the case.
Unchanged(report, in) == report.input_digest = in

----------------------------------------------------------------------------
(* PUT cases/{id}: the lock is tested, then the fields are written. *)

\* A save of a locked field of a confirmed case is a 409 and changes nothing.
UpdateReads(c, name, intake) ==
    /\ Receive(c, "update")
    /\ name # None => ~Locked
    /\ Set(c, [pc |-> "edit", name |-> name, intake |-> intake, locked |-> Confirmed])
    /\ UNCHANGED <<case, facts, reports, runs, raced>>

UpdateWrites(c) ==
    /\ At(c, "edit")
    /\ case' = [case EXCEPT !.name = Saved(h[c].name, @),
                            !.intake = Saved(h[c].intake, @)]
    /\ raced' = (raced \/ (h[c].name # None /\ h[c].locked # Confirmed))
    /\ Finish(c)
    /\ UNCHANGED <<facts, reports, runs, left>>

----------------------------------------------------------------------------
(* POST cases/{id}:confirm-entity *)

\* The candidate and the case row are read; the candidate is this case's own.
ConfirmReads(c, candidate) ==
    /\ Receive(c, "confirm")
    /\ Set(c, [pc |-> "confirm", candidate |-> candidate, current |-> case.version])
    /\ UNCHANGED <<case, facts, reports, runs, raced>>

ConfirmWrites(c) ==
    /\ At(c, "confirm")
    /\ case' = [case EXCEPT !.name = h[c].candidate, !.resolved = h[c].candidate,
                            !.version = NextVersion(h[c].current)]
    /\ raced' = (raced \/ h[c].current # case.version)
    /\ Finish(c)
    /\ UNCHANGED <<facts, reports, runs, left>>

----------------------------------------------------------------------------
(* Known facts, each one statement. *)

\* A fact from a prior engagement starts uncleared.
Register(c, f, prior) ==
    /\ At(c, "idle")
    /\ facts[f] = "absent"
    /\ facts' = [facts EXCEPT ![f] = IF prior THEN "uncleared" ELSE "free"]
    /\ UNCHANGED <<case, reports, runs, h, left, raced>>

ClearRights(c, f) ==
    /\ At(c, "idle")
    /\ facts[f] = "uncleared"
    /\ facts' = [facts EXCEPT ![f] = "cleared"]
    /\ UNCHANGED <<case, reports, runs, h, left, raced>>

----------------------------------------------------------------------------
(* POST preflight:run: the conditions are computed from one set of reads,   *)
(* the digest from another.                                                 *)

RunReadsCase(c) ==
    /\ Receive(c, "preflight")
    /\ Set(c, [pc |-> "confirmed?", row |-> case])
    /\ UNCHANGED <<case, facts, reports, runs, raced>>

RunReadsConfirmed(c) ==
    /\ At(c, "confirmed?")
    /\ Set(c, [pc |-> "facts", row |-> h[c].row, confirmed |-> Confirmed])
    /\ UNCHANGED <<case, facts, reports, runs, left, raced>>

RunReadsFacts(c) ==
    /\ At(c, "facts")
    /\ Set(c, [pc |-> "digest",
               conditions |-> [row |-> h[c].row, confirmed |-> h[c].confirmed,
                               facts |-> facts]])
    /\ UNCHANGED <<case, facts, reports, runs, left, raced>>

DigestReadsCase(c) ==
    /\ At(c, "digest")
    /\ Set(c, [pc |-> "digestFacts", conditions |-> h[c].conditions, row |-> case])
    /\ UNCHANGED <<case, facts, reports, runs, left, raced>>

DigestReadsFacts(c) ==
    /\ At(c, "digestFacts")
    /\ Set(c, [pc |-> "insert", conditions |-> h[c].conditions,
               input_digest |-> [row |-> h[c].row, facts |-> facts]])
    /\ UNCHANGED <<case, facts, reports, runs, left, raced>>

\* A LIVE report is also blocked when no provider is configured.
InsertReport(c) ==
    /\ At(c, "insert")
    /\ \E available \in BOOLEAN :
          reports' = Append(reports,
              [conditions |-> h[c].conditions, input_digest |-> h[c].input_digest,
               blocked |-> ~available \/ Blocking(h[c].conditions),
               acknowledged |-> FALSE])
    /\ Finish(c)
    /\ UNCHANGED <<case, facts, runs, left, raced>>

\* Any report of the case may be acknowledged, whatever it says.
Acknowledge(c, i) ==
    /\ At(c, "idle")
    /\ reports' = [reports EXCEPT ![i].acknowledged = TRUE]
    /\ UNCHANGED <<case, facts, runs, h, left, raced>>

----------------------------------------------------------------------------
(* assert_clear_to_run, at the start of simulations:run and estimates:run *)

\* The latest report decides, read once: none, a blocked one or one nobody has
\* acknowledged is a 409.
GateReadsReport(c) ==
    /\ Receive(c, "run")
    /\ reports # <<>>
    /\ LET latest == reports[Len(reports)] IN
          /\ ~latest.blocked
          /\ latest.acknowledged
    /\ Set(c, [pc |-> "gate", report |-> Len(reports)])
    /\ UNCHANGED <<case, facts, reports, runs, raced>>

GateReadsCase(c) ==
    /\ At(c, "gate")
    /\ Set(c, [pc |-> "gateFacts", report |-> h[c].report, row |-> case])
    /\ UNCHANGED <<case, facts, reports, runs, left, raced>>

GateReadsFacts(c) ==
    /\ At(c, "gateFacts")
    /\ LET in == [row |-> h[c].row, facts |-> facts] IN
          IF Unchanged(reports[h[c].report], in)
             THEN Set(c, [pc |-> "launch", report |-> h[c].report, checked |-> in])
             ELSE Finish(c)
    /\ UNCHANGED <<case, facts, reports, runs, left, raced>>

\* The route reads the case row again and builds the run from it.
Launch(c) ==
    /\ At(c, "launch")
    /\ runs' = Append(runs, [report |-> h[c].report, checked |-> h[c].checked,
                             used |-> case])
    /\ Finish(c)
    /\ UNCHANGED <<case, facts, reports, left, raced>>

----------------------------------------------------------------------------
Preflight(c) ==
    \/ RunReadsCase(c) \/ RunReadsConfirmed(c) \/ RunReadsFacts(c)
    \/ DigestReadsCase(c) \/ DigestReadsFacts(c) \/ InsertReport(c)
    \/ \E i \in DOMAIN reports : Acknowledge(c, i)

Run(c) == GateReadsReport(c) \/ GateReadsCase(c) \/ GateReadsFacts(c) \/ Launch(c)

Entity(c) ==
    \/ \E name \in Identities \cup {None}, intake \in Intakes \cup {None} :
          UpdateReads(c, name, intake)
    \/ UpdateWrites(c)
    \/ \E candidate \in Identities : ConfirmReads(c, candidate)
    \/ ConfirmWrites(c)

KnownFact(c) ==
    \E f \in Facts : ClearRights(c, f) \/ \E prior \in BOOLEAN : Register(c, f, prior)

Next == \E c \in Clients : Entity(c) \/ KnownFact(c) \/ Preflight(c) \/ Run(c)

Spec == Init /\ [][Next]_vars
=============================================================================
