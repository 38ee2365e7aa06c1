----------------------------- MODULE StageGate -----------------------------
(***************************************************************************)
(* What decides that an engagement is ready for stage V1: the questionnaire *)
(* and the mapping of its answers (domain/questionnaire.py), the input      *)
(* dispositions as people, answers and research write them                  *)
(* (set_dispositions in routers/api.py, run_domain_research in              *)
(* domain/research.py), and the readiness report, its acknowledgement and   *)
(* the advance (domain/stage.py).                                           *)
(*                                                                          *)
(* A step is one query or one commit of a request handler; a handler may    *)
(* end between any two.  Each domain has one question.  What one domain's   *)
(* research does before its row is written is in ResearchRun.            *)
(***************************************************************************)
EXTENDS Naturals, Sequences

CONSTANTS
    Clients,   \* request threads
    Domains,   \* input domains, and the questions asked about them
    Answers,   \* what a client can say
    None,      \* no value
    Budget     \* bound: requests that clients send, of each kind and in all

Kinds == {"create", "prefill", "answer", "map", "resolve", "put", "research",
          "assess", "advance", "corroborate"}
Bounds == Kinds \cup {"all"}

VARIABLES
    stage,         \* of the case row
    estimated,     \* an estimate snapshot exists
    contradicted,  \* some known fact of the case is CONTRADICTED
    rows,          \* the domain_disposition rows of each domain
    items,         \* the questionnaire_item row of each domain, or None
    reports,       \* stage_readiness_report rows in created_at order
    h,             \* each request handler
    left,          \* requests still to be sent (bounded)
    raced          \* history: domains whose rows changed between a read and the write it led to

vars == <<stage, estimated, contradicted, rows, items, reports, h, left, raced>>

\* DERIVED_PUBLIC is treated as EVIDENCED_PUBLIC everywhere here, a benchmark
\* or an asserted prior as DECLARED_UNKNOWN.  A row is not valid when its
\* disposition is unknown or lacks the controlled reason.
Dispositions == {"EVIDENCED_PUBLIC", "CLIENT_CONFIRMED", "SIMULATED", "DECLARED_UNKNOWN"}
Rows == [disposition : Dispositions, valid : BOOLEAN, evidence : Answers \cup {"research", None}]

MappingStates == {"UPGRADED", "CORROBORATION_REQUIRED", "REFUSED_SIMULATED",
                  "ALREADY_CLIENT_CONFIRMED", "NO_DISPOSITION_ROW"}
Resolutions == {"CLIENT_AGREES_WITH_PUBLIC", "CLIENT_CONTRADICTS_PUBLIC",
                "CLIENT_SUPERSEDES_PUBLIC"}

Items == [answer : Answers \cup {None}, prefilled : BOOLEAN,
          mapping : MappingStates \cup {None}, resolution : Resolutions \cup {None}]

ASSUME StageAssumption ==
    /\ None \notin Answers \cup MappingStates \cup Dispositions
    /\ None \notin Items
    /\ "research" \notin Answers \cup {None}
    /\ Budget \in [Bounds -> Nat]

Conditions == {"stage", "estimate", "dispositions", "questionnaire",
               "reconciliation", "mapping", "facts"}
\* seen is the items the assessment read.
Reports == [open : SUBSET Conditions, acknowledged : BOOLEAN, seen : SUBSET Domains]

RowSeq == [Domains -> Seq(Rows)]
Said == [Domains -> Answers \cup {None}]

\* What a handler holds at each place.  seen is the domain's rows as they were
\* when the handler decided what to write; target the row it will update.
Locals ==
    [pc : {"idle"}] \cup
    [pc : {"create"}, todo : SUBSET Domains] \cup
    [pc : {"prefill"}, todo : SUBSET Domains] \cup
    [pc : {"map"}, todo : SUBSET Domains, said : Said] \cup
    [pc : {"mapFind"}, todo : SUBSET Domains, said : Said, d : Domains,
     state : MappingStates, seen : Seq(Rows)] \cup
    [pc : {"mapWrite"}, todo : SUBSET Domains, said : Said, d : Domains,
     state : MappingStates, seen : Seq(Rows), target : Nat] \cup
    [pc : {"resolveFind"}, d : Domains, resolution : Resolutions,
     said : Answers \cup {None}, seen : Seq(Rows)] \cup
    [pc : {"resolveWrite"}, d : Domains, resolution : Resolutions,
     said : Answers \cup {None}, seen : Seq(Rows), target : Nat] \cup
    [pc : {"put"}, d : Domains, row : Rows, seen : Seq(Rows), target : Nat] \cup
    [pc : {"research"}, todo : SUBSET Domains, start : RowSeq] \cup
    [pc : {"researchFind"}, todo : SUBSET Domains, start : RowSeq, d : Domains, row : Rows] \cup
    [pc : {"researchWrite"}, todo : SUBSET Domains, start : RowSeq, d : Domains, row : Rows,
     target : Nat] \cup
    [pc : {"estimate?", "dispositions?", "items?"}, open : SUBSET Conditions] \cup
    [pc : {"conflicts?"}, open : SUBSET Conditions, items : SUBSET Domains] \cup
    [pc : {"facts?", "report"}, open : SUBSET Conditions, items : SUBSET Domains] \cup
    [pc : {"latest?", "advance"}, at : {"V0", "V1"}]

Idle == [pc |-> "idle"]

\* A case after its dispositions were entered and, perhaps, estimated; its
\* questionnaire has not been created.
Init ==
    /\ stage = "V0"
    /\ estimated \in BOOLEAN
    /\ contradicted = FALSE
    /\ rows \in [Domains -> {<<>>} \cup
           {<<[disposition |-> x, valid |-> TRUE, evidence |-> None]>> :
               x \in Dispositions \ {"CLIENT_CONFIRMED"}}]
    /\ items = [d \in Domains |-> None]
    /\ reports = <<>>
    /\ h = [c \in Clients |-> Idle]
    /\ left = Budget
    /\ raced = {}

At(c, l) == h[c].pc = l
Set(c, local) == h' = [h EXCEPT ![c] = local]
Finish(c) == Set(c, Idle)

\* A request reaches an idle thread.
Receive(c, kind) ==
    /\ At(c, "idle")
    /\ left[kind] > 0 /\ left["all"] > 0
    /\ left' = [left EXCEPT ![kind] = @ - 1, !["all"] = @ - 1]

Present == {d \in Domains : items[d] # None}
Answered == {d \in Present : items[d].answer # None}

\* Mutants: of JudgedAs, Targets, Clears, BlocksAdvance, Found.
JudgedAsUpgrade(current) ==
    CASE current = None -> "NO_DISPOSITION_ROW"
      [] current = "CLIENT_CONFIRMED" -> "ALREADY_CLIENT_CONFIRMED"
      [] OTHER -> "UPGRADED"
TargetsUnprotected(overwrite) ==
    IF overwrite THEN Domains ELSE {d \in Domains : rows[d] = <<>>}
ClearsNever(prev, x) == {FALSE}
BlocksUnlessAcknowledged(report) == ~report.acknowledged
FoundNothing(d) == {0}

\* Of the rows of a domain .first() and a dict keyed by domain find any one.
Found(d) == IF rows[d] = <<>> THEN {0} ELSE DOMAIN rows[d]

\* A row is updated by its id, or inserted when none was found.
Written(s, target, row) ==
    IF target \in DOMAIN s
       THEN [i \in DOMAIN s |-> IF i = target THEN row ELSE s[i]]
       ELSE Append(s, row)

Store(d, target, row, seen) ==
    /\ rows' = [rows EXCEPT ![d] = Written(@, target, row)]
    /\ raced' = IF rows[d] = seen THEN raced ELSE raced \cup {d}

----------------------------------------------------------------------------
(* POST questionnaire: one insert and commit per question. *)

CreateReads(c) ==
    /\ Receive(c, "create")
    /\ Set(c, [pc |-> "create", todo |-> Domains \ Present])
    /\ UNCHANGED <<stage, estimated, contradicted, rows, items, reports, raced>>

\* The unique constraint refuses a second row, which is ignored.
CreateInserts(c) ==
    /\ At(c, "create")
    /\ \E d \in h[c].todo :
          /\ items' = IF items[d] # None THEN items
                      ELSE [items EXCEPT ![d] =
                         [answer |-> None, prefilled |-> FALSE, mapping |-> None,
                          resolution |-> None]]
          /\ Set(c, [pc |-> "create", todo |-> h[c].todo \ {d}])
    /\ UNCHANGED <<stage, estimated, contradicted, rows, reports, left, raced>>

(* POST questionnaire:prefill proposes to the items not yet answered. *)
PrefillReads(c) ==
    /\ Receive(c, "prefill")
    /\ Present # {}
    /\ Set(c, [pc |-> "prefill", todo |-> Present \ Answered])
    /\ UNCHANGED <<stage, estimated, contradicted, rows, items, reports, raced>>

\* Only a public row is offered as evidence; a failed call proposes nothing.
\* The client may have answered meanwhile: the answer's own columns stay.
Public(row) == row.disposition = "EVIDENCED_PUBLIC"

PrefillProposes(c) ==
    /\ At(c, "prefill")
    /\ \E d \in h[c].todo : \E called \in BOOLEAN, i \in Found(d) :
          /\ items' = IF called
                      THEN [items EXCEPT ![d] = [answer |-> items[d].answer,
                               prefilled |-> i # 0 /\ Public(rows[d][i]),
                               mapping |-> items[d].mapping,
                               resolution |-> items[d].resolution]]
                      ELSE items
          /\ Set(c, [pc |-> "prefill", todo |-> h[c].todo \ {d}])
    /\ UNCHANGED <<stage, estimated, contradicted, rows, reports, left, raced>>

(* POST questionnaire:answer.  A second answer replaces the first; what was *)
(* decided about the first stays on the item.                               *)
Answer(c, d, said) ==
    /\ Receive(c, "answer")
    /\ d \in Present
    /\ items' = [items EXCEPT ![d] = [answer |-> said, prefilled |-> items[d].prefilled,
                     mapping |-> items[d].mapping, resolution |-> items[d].resolution]]
    /\ UNCHANGED <<stage, estimated, contradicted, rows, reports, h, raced>>

----------------------------------------------------------------------------
(* POST questionnaire:map *)

MapReads(c) ==
    /\ Receive(c, "map")
    /\ Present # {}
    /\ Set(c, [pc |-> "map", todo |-> Answered,
               said |-> [d \in Domains |-> IF d \in Answered THEN items[d].answer ELSE None]])
    /\ UNCHANGED <<stage, estimated, contradicted, rows, items, reports, raced>>

\* What an answer may do to the row it meets.
JudgedAs(current) ==
    CASE current = None -> "NO_DISPOSITION_ROW"
      [] current = "CLIENT_CONFIRMED" -> "ALREADY_CLIENT_CONFIRMED"
      [] current = "EVIDENCED_PUBLIC" -> "CORROBORATION_REQUIRED"
      [] current = "SIMULATED" -> "REFUSED_SIMULATED"
      [] OTHER -> "UPGRADED"

Upgrades(state) == state \in {"UPGRADED", "NO_DISPOSITION_ROW"}

MapJudges(c) ==
    /\ At(c, "map")
    /\ \E d \in h[c].todo : \E i \in Found(d) :
          LET state == JudgedAs(IF i = 0 THEN None ELSE rows[d][i].disposition)
              todo == h[c].todo \ {d}
          IN Set(c, IF Upgrades(state)
                    THEN [pc |-> "mapFind", todo |-> todo, said |-> h[c].said, d |-> d,
                          state |-> state, seen |-> rows[d]]
                    ELSE [pc |-> "mapWrite", todo |-> todo, said |-> h[c].said, d |-> d,
                          state |-> state, seen |-> rows[d], target |-> 0])
    /\ UNCHANGED <<stage, estimated, contradicted, rows, items, reports, left, raced>>

MapFinds(c) ==
    /\ At(c, "mapFind")
    /\ \E i \in Found(h[c].d) :
          Set(c, [pc |-> "mapWrite", todo |-> h[c].todo, said |-> h[c].said, d |-> h[c].d,
                  state |-> h[c].state, seen |-> h[c].seen, target |-> i])
    /\ UNCHANGED <<stage, estimated, contradicted, rows, items, reports, left, raced>>

\* The row with the answer as it was read, and the item, in one commit.
ClientRow(said) == [disposition |-> "CLIENT_CONFIRMED", valid |-> TRUE, evidence |-> said]

MapWrites(c) ==
    /\ At(c, "mapWrite")
    /\ LET d == h[c].d IN
          /\ IF Upgrades(h[c].state)
                THEN Store(d, h[c].target, ClientRow(h[c].said[d]), h[c].seen)
                ELSE UNCHANGED <<rows, raced>>
          /\ items' = [items EXCEPT ![d] = [answer |-> items[d].answer,
                           prefilled |-> items[d].prefilled,
                           mapping |-> h[c].state, resolution |-> items[d].resolution]]
          /\ Set(c, [pc |-> "map", todo |-> h[c].todo, said |-> h[c].said])
    /\ UNCHANGED <<stage, estimated, contradicted, reports, left>>

(* POST questionnaire:resolve-mapping, by a named person. *)
ResolveReads(c, d, resolution) ==
    /\ Receive(c, "resolve")
    /\ d \in Present
    /\ items[d].mapping = "CORROBORATION_REQUIRED"
    /\ IF resolution = "CLIENT_SUPERSEDES_PUBLIC"
          THEN Set(c, [pc |-> "resolveFind", d |-> d, resolution |-> resolution,
                       said |-> items[d].answer, seen |-> rows[d]])
          ELSE Set(c, [pc |-> "resolveWrite", d |-> d, resolution |-> resolution,
                       said |-> items[d].answer, seen |-> rows[d], target |-> 0])
    /\ UNCHANGED <<stage, estimated, contradicted, rows, items, reports, raced>>

ResolveFinds(c) ==
    /\ At(c, "resolveFind")
    /\ \E i \in Found(h[c].d) :
          Set(c, [pc |-> "resolveWrite", d |-> h[c].d, resolution |-> h[c].resolution,
                  said |-> h[c].said, seen |-> h[c].seen, target |-> i])
    /\ UNCHANGED <<stage, estimated, contradicted, rows, items, reports, left, raced>>

ResolveWrites(c) ==
    /\ At(c, "resolveWrite")
    /\ LET d == h[c].d IN
          /\ IF h[c].resolution = "CLIENT_SUPERSEDES_PUBLIC"
                THEN Store(d, h[c].target, ClientRow(h[c].said), h[c].seen)
                ELSE UNCHANGED <<rows, raced>>
          /\ items' = [items EXCEPT ![d] = [answer |-> items[d].answer,
                           prefilled |-> items[d].prefilled,
                           mapping |-> items[d].mapping, resolution |-> h[c].resolution]]
    /\ Finish(c)
    /\ UNCHANGED <<stage, estimated, contradicted, reports, left>>

----------------------------------------------------------------------------
(* PUT domain-dispositions, one record of the payload: the others are       *)
(* treated alike.                                                           *)

PutReads(c, d, disposition, valid) ==
    /\ Receive(c, "put")
    /\ valid \/ disposition = "DECLARED_UNKNOWN"
    /\ \E i \in Found(d) :
          Set(c, [pc |-> "put", d |-> d, seen |-> rows[d], target |-> i,
                  row |-> [disposition |-> disposition, valid |-> valid, evidence |-> None]])
    /\ UNCHANGED <<stage, estimated, contradicted, rows, items, reports, raced>>

\* The evidence columns are cleared when the row that was read had evidence
\* and another disposition, and left out of the update otherwise.
Clears(prev, x) ==
    IF prev.evidence = None THEN {FALSE}
    ELSE IF prev.disposition = x THEN BOOLEAN ELSE {TRUE}

PutWrites(c) ==
    /\ At(c, "put")
    /\ LET d == h[c].d
           t == h[c].target
           new == h[c].row
       IN IF t = 0
          THEN Store(d, 0, new, h[c].seen)
          ELSE \E clear \in Clears(h[c].seen[t], new.disposition) :
                  Store(d, t, [disposition |-> new.disposition, valid |-> new.valid,
                               evidence |-> IF clear THEN None ELSE rows[d][t].evidence],
                        h[c].seen)
    /\ Finish(c)
    /\ UNCHANGED <<stage, estimated, contradicted, items, reports, left>>

----------------------------------------------------------------------------
(* POST domain-research: the targets are fixed before the first call. *)

Protected == {d \in Domains : \E i \in DOMAIN rows[d] : rows[d][i].disposition = "CLIENT_CONFIRMED"}
Targets(overwrite) ==
    (IF overwrite THEN Domains ELSE {d \in Domains : rows[d] = <<>>}) \ Protected

ResearchReads(c, overwrite) ==
    /\ Receive(c, "research")
    /\ Set(c, [pc |-> "research", todo |-> Targets(overwrite), start |-> rows])
    /\ UNCHANGED <<stage, estimated, contradicted, rows, items, reports, raced>>

\* A domain that failed writes nothing; any other outcome is written.  Only
\* a full set of sources is evidence; a budget that ran out leaves none.
Outcomes == {[disposition |-> "EVIDENCED_PUBLIC", valid |-> TRUE, evidence |-> "research"],
             [disposition |-> "DECLARED_UNKNOWN", valid |-> TRUE, evidence |-> "research"],
             [disposition |-> "DECLARED_UNKNOWN", valid |-> TRUE, evidence |-> None]}

ResearchFails(c) ==
    /\ At(c, "research")
    /\ \E d \in h[c].todo :
          Set(c, [pc |-> "research", todo |-> h[c].todo \ {d}, start |-> h[c].start])
    /\ UNCHANGED <<stage, estimated, contradicted, rows, items, reports, left, raced>>

ResearchFinds(c) ==
    /\ At(c, "research")
    /\ \E d \in h[c].todo, row \in Outcomes :
          Set(c, [pc |-> "researchFind", todo |-> h[c].todo \ {d}, start |-> h[c].start,
                  d |-> d, row |-> row])
    /\ UNCHANGED <<stage, estimated, contradicted, rows, items, reports, left, raced>>

UpsertReads(c) ==
    /\ At(c, "researchFind")
    /\ \E i \in Found(h[c].d) :
          Set(c, [pc |-> "researchWrite", todo |-> h[c].todo, start |-> h[c].start,
                  d |-> h[c].d, row |-> h[c].row, target |-> i])
    /\ UNCHANGED <<stage, estimated, contradicted, rows, items, reports, left, raced>>

UpsertWrites(c) ==
    /\ At(c, "researchWrite")
    /\ Store(h[c].d, h[c].target, h[c].row, h[c].start[h[c].d])
    /\ Set(c, [pc |-> "research", todo |-> h[c].todo, start |-> h[c].start])
    /\ UNCHANGED <<stage, estimated, contradicted, items, reports, left>>

\* A loop over items or domains is over, or the handler dies between two steps.
Ends(c) ==
    /\ ~At(c, "idle")
    /\ Finish(c)
    /\ UNCHANGED <<stage, estimated, contradicted, rows, items, reports, left, raced>>

----------------------------------------------------------------------------
(* POST stage:assess reads one table after the other. *)

Unless(ok, condition) == IF ok THEN {} ELSE {condition}

AssessReadsCase(c) ==
    /\ Receive(c, "assess")
    /\ Set(c, [pc |-> "estimate?", open |-> Unless(stage = "V0", "stage")])
    /\ UNCHANGED <<stage, estimated, contradicted, rows, items, reports, raced>>

AssessReadsEstimate(c) ==
    /\ At(c, "estimate?")
    /\ Set(c, [pc |-> "dispositions?", open |-> h[c].open \cup Unless(estimated, "estimate")])
    /\ UNCHANGED <<stage, estimated, contradicted, rows, items, reports, left, raced>>

Valid == \A d \in Domains :
    rows[d] # <<>> /\ \A i \in DOMAIN rows[d] : rows[d][i].valid

AssessReadsDispositions(c) ==
    /\ At(c, "dispositions?")
    /\ Set(c, [pc |-> "items?", open |-> h[c].open \cup Unless(Valid, "dispositions")])
    /\ UNCHANGED <<stage, estimated, contradicted, rows, items, reports, left, raced>>

\* Answers recorded but never mapped.
MappingOpen(seen) == {d \in seen \cap Answered : items[d].mapping = None}

AssessReadsItems(c) ==
    /\ At(c, "items?")
    /\ Set(c, [pc |-> "conflicts?", items |-> Present,
               open |-> h[c].open
                   \cup Unless(Present # {} /\ Present = Answered, "questionnaire")
                   \cup Unless(MappingOpen(Present) = {}, "mapping")])
    /\ UNCHANGED <<stage, estimated, contradicted, rows, items, reports, left, raced>>

Conflicts == {d \in Present :
    /\ items[d].mapping = "CORROBORATION_REQUIRED"
    /\ items[d].resolution \in {None, "CLIENT_CONTRADICTS_PUBLIC"}}

AssessReadsConflicts(c) ==
    /\ At(c, "conflicts?")
    /\ Set(c, [pc |-> "facts?", items |-> h[c].items,
               open |-> h[c].open \cup Unless(Conflicts = {}, "reconciliation")])
    /\ UNCHANGED <<stage, estimated, contradicted, rows, items, reports, left, raced>>

AssessReadsFacts(c) ==
    /\ At(c, "facts?")
    /\ Set(c, [pc |-> "report", items |-> h[c].items,
               open |-> h[c].open \cup Unless(~contradicted, "facts")])
    /\ UNCHANGED <<stage, estimated, contradicted, rows, items, reports, left, raced>>

AssessInserts(c) ==
    /\ At(c, "report")
    /\ reports' = Append(reports, [open |-> h[c].open, acknowledged |-> FALSE,
                                   seen |-> h[c].items])
    /\ Finish(c)
    /\ UNCHANGED <<stage, estimated, contradicted, rows, items, left, raced>>

\* Any report of the case may be acknowledged, a blocked one too.
Acknowledge(c, i) ==
    /\ At(c, "idle")
    /\ reports' = [reports EXCEPT ![i] = [open |-> reports[i].open, acknowledged |-> TRUE,
                       seen |-> reports[i].seen]]
    /\ UNCHANGED <<stage, estimated, contradicted, rows, items, h, left, raced>>

(* POST stage:advance *)
AdvanceReadsCase(c) ==
    /\ Receive(c, "advance")
    /\ Set(c, [pc |-> "latest?", at |-> stage])
    /\ UNCHANGED <<stage, estimated, contradicted, rows, items, reports, raced>>

\* The latest report refuses when it has an open BLOCK or nobody acknowledged
\* it; the stage it is compared with was read before.
BlocksAdvance(report) == report.open # {} \/ ~report.acknowledged

AdvanceReadsReport(c) ==
    /\ At(c, "latest?")
    /\ reports # <<>>
    /\ ~BlocksAdvance(reports[Len(reports)])
    /\ h[c].at = "V0"
    /\ Set(c, [pc |-> "advance", at |-> h[c].at])
    /\ UNCHANGED <<stage, estimated, contradicted, rows, items, reports, left, raced>>

AdvanceWrites(c) ==
    /\ At(c, "advance")
    /\ stage' = "V1"
    /\ Finish(c)
    /\ UNCHANGED <<estimated, contradicted, rows, items, reports, left, raced>>

----------------------------------------------------------------------------
(* Other components write what an assessment reads. *)

\* A V0 run stores a snapshot.
Estimate ==
    /\ ~estimated
    /\ estimated' = TRUE
    /\ UNCHANGED <<stage, contradicted, rows, items, reports, h, left, raced>>

\* Corroborating or overriding a known fact.
Corroborate(c) ==
    /\ Receive(c, "corroborate")
    /\ contradicted' = ~contradicted
    /\ UNCHANGED <<stage, estimated, rows, items, reports, h, raced>>

Questionnaire(c) ==
    \/ CreateReads(c) \/ CreateInserts(c) \/ PrefillReads(c) \/ PrefillProposes(c)
    \/ \E d \in Domains, said \in Answers : Answer(c, d, said)

Mapping(c) ==
    \/ MapReads(c) \/ MapJudges(c) \/ MapFinds(c) \/ MapWrites(c)
    \/ \E d \in Domains, resolution \in Resolutions : ResolveReads(c, d, resolution)
    \/ ResolveFinds(c) \/ ResolveWrites(c)

Manual(c) ==
    \/ \E d \in Domains, x \in Dispositions, valid \in BOOLEAN : PutReads(c, d, x, valid)
    \/ PutWrites(c)

Research(c) ==
    \/ \E overwrite \in BOOLEAN : ResearchReads(c, overwrite)
    \/ ResearchFails(c) \/ ResearchFinds(c) \/ UpsertReads(c) \/ UpsertWrites(c)

Assess(c) ==
    \/ AssessReadsCase(c) \/ AssessReadsEstimate(c) \/ AssessReadsDispositions(c)
    \/ AssessReadsItems(c) \/ AssessReadsConflicts(c) \/ AssessReadsFacts(c)
    \/ AssessInserts(c)
    \/ \E i \in DOMAIN reports : Acknowledge(c, i)

Advance(c) == AdvanceReadsCase(c) \/ AdvanceReadsReport(c) \/ AdvanceWrites(c)

Next ==
    \/ Estimate
    \/ \E c \in Clients : \/ Questionnaire(c) \/ Mapping(c) \/ Manual(c) \/ Research(c)
                          \/ Assess(c) \/ Advance(c) \/ Corroborate(c) \/ Ends(c)

Spec == Init /\ [][Next]_vars
=============================================================================
