--------------------------- MODULE EstimateRecord ---------------------------
(***************************************************************************)
(* How an estimate becomes a record, and what is built on it: the two       *)
(* methods of estimates:run (routers/api.py), the known facts a request     *)
(* names as the source of its site count, with their corroboration and      *)
(* their conflicts (domain/known_facts.py), the recommendation, its         *)
(* approval and its narrative (domain/savings_advisory.py), and the removal *)
(* of the case (domain/case_admin.py).                                      *)
(*                                                                          *)
(* A step is one query or one commit; a handler may end between any two.    *)
(* The pre-flight gate is CaseGate's and the dispositions are StageGate's:  *)
(* here each of them may refuse a request, as the coverage test may.        *)
(***************************************************************************)
EXTENDS Naturals, Sequences

CONSTANTS
    Clients,       \* request threads
    Facts,         \* ids of known facts of class "Location footprint"
    Sims,          \* ids of simulation runs
    Sites,         \* site counts
    MaxSnapshots,  \* bound: published estimates
    Budget,        \* bound: requests that clients send, of each kind and in all
    None           \* no value

Kinds == {"register", "clear", "corroborate", "resolve", "estimate",
          "recommend", "approve", "narrate", "delete"}

ASSUME EstimateAssumption ==
    /\ Sites \subseteq Nat \ {0}
    /\ MaxSnapshots \in Nat
    /\ Budget \in [Kinds \cup {"all"} -> Nat]
    /\ None \notin Facts \cup Sims \cup Nat

VARIABLES
    present,    \* the case row exists
    facts,      \* the known_fact row of each id, or None
    conflicts,  \* known_fact_conflict rows in the order they were inserted
    sims,       \* the simulation_run row of each id, or None
    snapshots,  \* estimate_snapshot rows in created_at order; a removed row is None
    advice,     \* recommendation rows in the order of their insert; a removed row is None
    h,          \* each request handler
    left        \* requests still to come (bounded)

rows == <<present, facts, conflicts, sims, snapshots, advice>>
vars == <<rows, h, left>>

States == {"PENDING", "UNCORROBORATED", "CORROBORATED", "CONTRADICTED"}
Origins == {"ANALYST_ENTERED_SCOPE", "ANALYST_ASSERTED_PRIOR", "EVIDENCED_PUBLIC"}
Methods == {"BUILD_UP", "ANCHOR"}

Ids == 1..MaxSnapshots
\* superseded_by: whether some agent run's corroboration stands behind the row.
FactRows == [value : Sites, rights : BOOLEAN, state : States, superseded : BOOLEAN]
SimRows == [here : BOOLEAN, status : {"QUEUED", "SUCCEEDED"}, sites : Sites]
\* History: how many estimates were published when the request came (begun) and
\* when it looked up the one to supersede (looked).
Snapshots == [method : Methods, sim : Sims \cup {None}, origin : Origins,
              credited : Facts \cup {None}, supersedes : Ids \cup {None}, begun : Nat, looked : Nat]
Advice == [on : Ids, material : BOOLEAN, approved : BOOLEAN,
           narrative : {"DRAFT", "FINAL", "UNMARKED", None}]
Conflicts == [fact : Facts, resolved : BOOLEAN]

ASSUME RowsAssumption ==
    /\ None \notin FactRows \cup SimRows \cup Snapshots \cup Advice
    /\ None \notin {"DRAFT", "FINAL", "UNMARKED"}

Idle == [pc |-> "idle"]

\* The simulations wait for a worker; one may be another case's.
Init ==
    /\ present = TRUE
    /\ facts = [f \in Facts |-> None]
    /\ conflicts = <<>>
    /\ sims \in [Sims -> {r \in SimRows : r.status = "QUEUED"}]
    /\ snapshots = <<>>
    /\ advice = <<>>
    /\ h = [c \in Clients |-> Idle]
    /\ left = Budget

At(c, l) == h[c].pc = l
Set(c, local) == h' = [h EXCEPT ![c] = local]
Receive(c, kind) ==
    /\ At(c, "idle")
    /\ left[kind] > 0 /\ left["all"] > 0
    /\ left' = [left EXCEPT ![kind] = @ - 1, !["all"] = @ - 1]

Exists(i) == i \in 1..Len(snapshots) /\ snapshots[i] # None
Published == {i \in Ids : Exists(i)}
Advised(k) == k \in 1..Len(advice) /\ advice[k] # None

\* Mutants: of Agrees, Verdict, Latest and Refused.
AgreesWithAnything(value, sites) == TRUE
VerdictUnsourced(row, state) == [row EXCEPT !.state = state]
LatestByOldest == IF Published = {} THEN None
                  ELSE CHOOSE i \in Published : \A j \in Published : i <= j
RefusedNever(a, final) == FALSE

----------------------------------------------------------------------------
(* known facts: register, clear rights, corroborate, answer a conflict *)

\* A fact from a prior engagement waits for its rights check.
Register(c, f, value, rights) ==
    /\ Receive(c, "register")
    /\ present /\ facts[f] = None
    /\ facts' = [facts EXCEPT ![f] =
           [value |-> value, rights |-> rights, state |-> "PENDING", superseded |-> FALSE]]
    /\ UNCHANGED <<present, conflicts, sims, snapshots, advice, h>>

ClearRights(c, f) ==
    /\ Receive(c, "clear")
    /\ facts[f] # None
    /\ facts' = [facts EXCEPT ![f] = [@ EXCEPT !.rights = TRUE]]
    /\ UNCHANGED <<present, conflicts, sims, snapshots, advice, h>>

\* The fact is read and the provider asked; the verdict on the candidates it
\* returns is written when it is known, over whatever the row has become.
Corroborate(c, f) ==
    /\ Receive(c, "corroborate")
    /\ facts[f] # None
    /\ Set(c, [pc |-> "corroborate", fact |-> f])
    /\ UNCHANGED rows

\* superseded_by is set by an agreement, and nothing clears it.
Verdict(row, state) ==
    [row EXCEPT !.state = state, !.superseded = @ \/ state = "CORROBORATED"]

CorroborateWrites(c, state) ==
    /\ At(c, "corroborate")
    /\ state # "PENDING"
    /\ LET f == h[c].fact
       IN facts' = IF facts[f] = None THEN facts
                   ELSE [facts EXCEPT ![f] = Verdict(facts[f], state)]
    /\ Set(c, Idle)
    /\ UNCHANGED <<present, conflicts, sims, snapshots, advice, left>>

Resolve(c, n) ==
    /\ Receive(c, "resolve")
    /\ n \in 1..Len(conflicts)
    /\ conflicts' = [conflicts EXCEPT ![n] = [@ EXCEPT !.resolved = TRUE]]
    /\ UNCHANGED <<present, facts, sims, snapshots, advice, h>>

----------------------------------------------------------------------------
(* estimates:run *)

\* The job runner finishes a simulation (SimJobs).
SimulationSucceeds(s) ==
    /\ sims[s] # None
    /\ sims[s].status = "QUEUED"
    /\ sims' = [sims EXCEPT ![s] = [@ EXCEPT !.status = "SUCCEEDED"]]
    /\ UNCHANGED <<present, facts, conflicts, snapshots, advice, h, left>>

\* The gate passes and the case row is read; or the request is refused, which
\* is no step at all.  An ANCHOR request that names a fact is always refused:
\* no fact class supplies "anchor_spend".
Ask(c, method, s, f) ==
    /\ Receive(c, "estimate")
    /\ present
    /\ method = "ANCHOR" => f = None /\ s = None
    /\ method = "BUILD_UP" => s # None
    /\ Set(c, [pc |-> IF method = "ANCHOR" THEN "anchor" ELSE "simulation",
               sim |-> s, fact |-> f, begun |-> Len(snapshots)])
    /\ UNCHANGED rows

Draft(c, method, origin, credited) ==
    [method |-> method, sim |-> h[c].sim, origin |-> origin, credited |-> credited,
     supersedes |-> None, begun |-> h[c].begun, looked |-> 0]

\* A promoted cost line is evidence; a typed figure is an assertion.
Anchor(c, origin) ==
    /\ At(c, "anchor")
    /\ origin \in {"EVIDENCED_PUBLIC", "ANALYST_ASSERTED_PRIOR"}
    /\ Set(c, [pc |-> "lineage", draft |-> Draft(c, "ANCHOR", origin, None)])
    /\ UNCHANGED <<rows, left>>

\* The run has to be this case's, and finished.
Simulation(c) ==
    /\ At(c, "simulation")
    /\ LET s == h[c].sim
       IN sims[s] # None /\ sims[s].here /\ sims[s].status = "SUCCEEDED"
    /\ Set(c, [pc |-> "source", sim |-> h[c].sim, fact |-> h[c].fact, begun |-> h[c].begun])
    /\ UNCHANGED <<rows, left>>

\* Within the governed tolerance: counts that far apart are the same one here.
Agrees(value, sites) == value = sites

OriginFor(state) ==
    IF state = "CORROBORATED" THEN "EVIDENCED_PUBLIC" ELSE "ANALYST_ASSERTED_PRIOR"

\* resolve_quantity_source: a named fact has to be cleared and uncontradicted,
\* and supplies the origin when it agrees with the count the run used.  When
\* it does not, one row of the conflict is looked at: an answered one leaves
\* the count as entered scope, an open one refuses, and none is raised.
Source(c) ==
    /\ At(c, "source")
    /\ LET f == h[c].fact
           draft(origin, credited) ==
               [pc |-> "lineage", draft |-> Draft(c, "BUILD_UP", origin, credited)]
       IN \/ f = None /\ Set(c, draft("ANALYST_ENTERED_SCOPE", None))
          \/ /\ f # None /\ facts[f] # None /\ sims[h[c].sim] # None
             /\ facts[f].rights /\ facts[f].state # "CONTRADICTED"
             /\ \/ /\ Agrees(facts[f].value, sims[h[c].sim].sites)
                   /\ Set(c, draft(OriginFor(facts[f].state), f))
                \/ /\ ~Agrees(facts[f].value, sims[h[c].sim].sites)
                   /\ \/ /\ \E n \in 1..Len(conflicts) :
                                conflicts[n].fact = f /\ conflicts[n].resolved
                         /\ Set(c, draft("ANALYST_ENTERED_SCOPE", None))
                      \/ /\ \A n \in 1..Len(conflicts) : conflicts[n].fact # f
                         /\ Set(c, [pc |-> "raise", fact |-> f])
    /\ UNCHANGED <<rows, left>>

\* _record_conflict inserts and commits; the request ends in a 409.
Raise(c) ==
    /\ At(c, "raise")
    /\ conflicts' = Append(conflicts, [fact |-> h[c].fact, resolved |-> FALSE])
    /\ Set(c, Idle)
    /\ UNCHANGED <<present, facts, sims, snapshots, advice, left>>

\* _latest_snapshot_id, once nothing has refused the estimate.
Latest == IF Published = {} THEN None
          ELSE CHOOSE i \in Published : \A j \in Published : j <= i

Superseding(d) == [d EXCEPT !.supersedes = Latest, !.looked = Len(snapshots)]

Lineage(c) ==
    /\ At(c, "lineage")
    /\ Set(c, [pc |-> "publish", draft |-> Superseding(h[c].draft)])
    /\ UNCHANGED <<rows, left>>

Publish(c) ==
    /\ At(c, "publish")
    /\ Len(snapshots) < MaxSnapshots
    /\ snapshots' = Append(snapshots, h[c].draft)
    /\ Set(c, Idle)
    /\ UNCHANGED <<present, facts, conflicts, sims, advice, left>>

----------------------------------------------------------------------------
(* recommendation:run, :approve, narrative:run *)

\* The agent chooses a scenario; whether a lever in it is material follows.
Recommend(c, i) ==
    /\ Receive(c, "recommend")
    /\ Exists(i)
    /\ Set(c, [pc |-> "recommend", on |-> i])
    /\ UNCHANGED rows

RecommendWrites(c, material) ==
    /\ At(c, "recommend")
    /\ advice' = Append(advice, [on |-> h[c].on, material |-> material,
                                 approved |-> FALSE, narrative |-> None])
    /\ Set(c, Idle)
    /\ UNCHANGED <<present, facts, conflicts, sims, snapshots, left>>

Approve(c, k) ==
    /\ Receive(c, "approve")
    /\ Advised(k)
    /\ advice' = [advice EXCEPT ![k] = [@ EXCEPT !.approved = TRUE]]
    /\ UNCHANGED <<present, facts, conflicts, sims, snapshots, h>>

\* A final narrative of an unapproved material lever is refused, not downgraded.
Refused(a, final) == final /\ a.material /\ ~a.approved

Text(a, final) ==
    IF final THEN "FINAL" ELSE IF a.material /\ ~a.approved THEN "DRAFT" ELSE "UNMARKED"

\* Decided on the row as it was before the agent was asked.
Narrate(c, k, final) ==
    /\ Receive(c, "narrate")
    /\ Advised(k)
    /\ ~Refused(advice[k], final)
    /\ Set(c, [pc |-> "narrate", about |-> k, text |-> Text(advice[k], final)])
    /\ UNCHANGED rows

\* The write finds no row when the case was removed meanwhile.
NarrateWrites(c) ==
    /\ At(c, "narrate")
    /\ LET k == h[c].about
       IN advice' = IF Advised(k)
                    THEN [advice EXCEPT ![k] = [@ EXCEPT !.narrative = h[c].text]] ELSE advice
    /\ Set(c, Idle)
    /\ UNCHANGED <<present, facts, conflicts, sims, snapshots, left>>

----------------------------------------------------------------------------
(* the removal of the case *)

\* Refused once anything is published; its other contents need a confirmation.
Delete(c) ==
    /\ Receive(c, "delete")
    /\ present
    /\ Published = {}
    /\ Set(c, [pc |-> "delete"])
    /\ UNCHANGED rows

\* Every table of DEPENDENTS and the case row, in one transaction.
DeleteCommits(c) ==
    /\ At(c, "delete")
    /\ present' = FALSE
    /\ facts' = [f \in Facts |-> None]
    /\ conflicts' = <<>>
    /\ sims' = [s \in Sims |-> IF sims[s] # None /\ sims[s].here THEN None ELSE sims[s]]
    /\ snapshots' = [i \in 1..Len(snapshots) |-> None]
    /\ advice' = [k \in 1..Len(advice) |-> None]
    /\ Set(c, Idle)
    /\ UNCHANGED left

----------------------------------------------------------------------------
\* A check refuses, a provider fails, the process stops: nothing more is written.
Ends(c) == ~At(c, "idle") /\ Set(c, Idle) /\ UNCHANGED <<rows, left>>

FactRequest(c) ==
    \/ \E f \in Facts :
          \/ \E value \in Sites, rights \in BOOLEAN : Register(c, f, value, rights)
          \/ ClearRights(c, f)
          \/ Corroborate(c, f)
    \/ \E state \in States : CorroborateWrites(c, state)
    \/ \E n \in 1..Len(conflicts) : Resolve(c, n)

EstimateRequest(c) ==
    \/ \E method \in Methods, s \in Sims \cup {None}, f \in Facts \cup {None} :
          Ask(c, method, s, f)
    \/ \E origin \in Origins : Anchor(c, origin)
    \/ Simulation(c) \/ Source(c) \/ Raise(c) \/ Lineage(c) \/ Publish(c)

AdviceRequest(c) ==
    \/ \E i \in Ids : Recommend(c, i)
    \/ \E k \in 1..Len(advice) : \/ Approve(c, k)
                                 \/ \E final \in BOOLEAN : Narrate(c, k, final)
    \/ \E material \in BOOLEAN : RecommendWrites(c, material)
    \/ NarrateWrites(c)

CaseRequest(c) == Delete(c) \/ DeleteCommits(c)

Next ==
    \/ \E c \in Clients : \/ FactRequest(c)
                          \/ EstimateRequest(c)
                          \/ AdviceRequest(c)
                          \/ CaseRequest(c)
                          \/ Ends(c)
    \/ \E s \in Sims : SimulationSucceeds(s)

Spec == Init /\ [][Next]_vars
=============================================================================
