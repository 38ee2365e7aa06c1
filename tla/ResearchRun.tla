----------------------------- MODULE ResearchRun -----------------------------
(***************************************************************************)
(* One research invocation after another (domain/research.py): the walk     *)
(* over the target domains under the budgets of a run, the attempts at one  *)
(* domain, the agent run and the provider call of each attempt, the fetch   *)
(* of the sources it claims, and the one disposition row a domain ends in.  *)
(* A step is one commit or one decision between two commits.                *)
(***************************************************************************)
EXTENDS Naturals

CONSTANTS
    NDomains,            \* the domains an agent researches, in their order
    MaxQueries,          \* max_queries_per_domain
    MaxDomainCaptures,   \* max_captures_per_domain
    MaxRunCaptures,      \* max_captures_per_run
    MinSources,          \* min_independent_sources_material_fact
    MaxClaims,           \* bound: sources one reply claims
    MaxScopes,           \* bound: request scopes (a caller's key, or a fresh one)
    MaxRequests,         \* bound: invocations
    None                 \* no value

\* ResearchPolicy.validate
ASSUME ResearchAssumption ==
    /\ {NDomains, MaxQueries, MaxDomainCaptures, MaxRunCaptures, MinSources, MaxScopes}
          \subseteq Nat \ {0}
    /\ MaxDomainCaptures <= MaxRunCaptures
    /\ {MaxClaims, MaxRequests} \subseteq Nat
    /\ None \notin {"RELIABLE", "UNRELIABLE"}

Domains == 1..NDomains
Scopes == 1..MaxScopes
Keys == Scopes \X Domains \X (1..MaxQueries)

VARIABLES
    rows,      \* the domain_disposition row of each domain, or None
    runs,      \* status of the agent run of each idempotency key
    quarantined, \* agent runs whose finding is in quarantined_row
    inv,       \* the invocation at work: a place, and what it holds
    requests,  \* invocations so far (bounded)
    loose,     \* history: keys whose run an exception or a crash left behind
    reused,    \* history: scopes a caller has submitted more than once
    faulted    \* history: the domain at work was last stopped by a failure

vars == <<rows, runs, quarantined, inv, requests, loose, reused, faulted>>

Reasons == {"NONE", "BUDGET_EXHAUSTED", "OUT_OF_PERIMETER", "NO_PUBLIC_EVIDENCE",
            "PARTIAL_EVIDENCE_BELOW_THRESHOLD", "UNRELIABLE_FINDING_RECORDED"}
Grades == {"RELIABLE", "UNRELIABLE"}
\* sources counts the pages kept in the evidence blob, each fetched by the walk.
Rows == [disposition : {"EVIDENCED_PUBLIC", "DECLARED_UNKNOWN", "CLIENT_CONFIRMED"},
         reason : Reasons, run : Keys \cup {None}, sources : Nat, grade : Grades \cup {None}]
ClientRow == [disposition |-> "CLIENT_CONFIRMED", reason |-> "NONE", run |-> None,
              sources |-> 0, grade |-> None]

\* spent is of the invocation, used of the domain; best and parsed are those
\* of the attempt that verified most, cites the last run.  out is the
\* DomainResult on its way to the table.
Walk == [pc : {"domain"}, todo : SUBSET Domains, scope : Scopes, spent : Nat, late : BOOLEAN]
Domain == [pc : {"attempt", "call", "quarantine"}, todo : SUBSET Domains, scope : Scopes,
           spent : Nat, late : BOOLEAN, d : Domains, attempt : 1..(MaxQueries + 1), used : Nat,
           best : Nat, parsed : BOOLEAN, cites : Keys \cup {None}]
Reply == [pc : {"fetch"}, todo : SUBSET Domains, scope : Scopes,
           spent : Nat, late : BOOLEAN, d : Domains, attempt : 1..(MaxQueries + 1), used : Nat,
           best : Nat, parsed : BOOLEAN, cites : Keys \cup {None}, claims : Nat]
Result == [pc : {"write"}, todo : SUBSET Domains, scope : Scopes, spent : Nat, late : BOOLEAN,
           d : Domains, out : Rows]
Idle == [pc |-> "idle"]

Init ==
    /\ rows \in [Domains -> {None, ClientRow}]
    /\ runs = [k \in Keys |-> "absent"]
    /\ quarantined = {}
    /\ inv = Idle
    /\ requests = 0
    /\ loose = {}
    /\ reused = {}
    /\ faulted = FALSE

Lesser(a, b) == IF a < b THEN a ELSE b
Key == <<inv.scope, inv.d, inv.attempt>>

\* Mutants: of Targets, Budget, Unreachable, Failed.
TargetsAll(overwrite) ==
    {d \in Domains : rows[d] = None \/ overwrite}
BudgetOfDomain == MaxDomainCaptures - inv.used
UnreachableAny(used, unreachable) == FALSE
FailedKeepsRun == runs

Unknown(reason, run, sources, grade) ==
    [disposition |-> "DECLARED_UNKNOWN", reason |-> reason, run |-> run,
     sources |-> sources, grade |-> grade]

----------------------------------------------------------------------------
(* run_domain_research: the walk *)

\* Domains with a row are skipped unless overwritten; a client's, always.
Targets(overwrite) ==
    {d \in Domains : IF rows[d] = None THEN TRUE
                     ELSE overwrite /\ rows[d].disposition # "CLIENT_CONFIRMED"}

Submit(scope, overwrite) ==
    /\ inv = Idle
    /\ requests < MaxRequests
    /\ inv' = [pc |-> "domain", todo |-> Targets(overwrite), scope |-> scope, spent |-> 0,
               late |-> FALSE]
    /\ requests' = requests + 1
    /\ reused' = IF \E k \in Keys : k[1] = scope /\ runs[k] # "absent"
                 THEN reused \cup {scope} ELSE reused
    /\ faulted' = FALSE
    /\ UNCHANGED <<rows, runs, quarantined, loose>>

Finish ==
    /\ inv.pc = "domain"
    /\ inv.todo = {}
    /\ inv' = Idle
    /\ UNCHANGED <<rows, runs, quarantined, requests, loose, reused, faulted>>

First(d) == d \in inv.todo /\ \A other \in inv.todo : d <= other

WriteRow(d, row) == rows' = [rows EXCEPT ![d] = row]

\* A domain that is not attempted because the run's captures are spent, or its
\* wall clock is: it may have run out at any moment, and then for good.
Exhausted(d) ==
    /\ inv.pc = "domain"
    /\ First(d)
    /\ WriteRow(d, Unknown("BUDGET_EXHAUSTED", None, 0, None))
    /\ inv' = [pc |-> "domain", todo |-> inv.todo \ {d}, scope |-> inv.scope,
               spent |-> inv.spent, late |-> inv.late \/ inv.spent < MaxRunCaptures]
    /\ faulted' = FALSE
    /\ UNCHANGED <<runs, quarantined, requests, loose, reused>>

\* Mutant of Begin: a domain stays a target until it settles.
BeginAgain(d) ==
    /\ inv.pc = "domain"
    /\ First(d)
    /\ ~inv.late /\ inv.spent < MaxRunCaptures
    /\ inv' = [pc |-> "attempt", todo |-> inv.todo, scope |-> inv.scope,
               spent |-> inv.spent, late |-> FALSE, d |-> d, attempt |-> 1, used |-> 0,
               best |-> 0, parsed |-> FALSE, cites |-> None]
    /\ faulted' = FALSE
    /\ UNCHANGED <<rows, runs, quarantined, requests, loose, reused>>

Begin(d) ==
    /\ inv.pc = "domain"
    /\ First(d)
    /\ ~inv.late /\ inv.spent < MaxRunCaptures
    /\ inv' = [pc |-> "attempt", todo |-> inv.todo \ {d}, scope |-> inv.scope,
               spent |-> inv.spent, late |-> FALSE, d |-> d, attempt |-> 1, used |-> 0,
               best |-> 0, parsed |-> FALSE, cites |-> None]
    /\ faulted' = FALSE
    /\ UNCHANGED <<rows, runs, quarantined, requests, loose, reused>>

----------------------------------------------------------------------------
(* _research_one_domain: the attempts *)

Spent(used) == inv.spent + used

\* The domain's result goes to the table, or it failed and nothing does.
Settle(out) ==
    inv' = [pc |-> "write", todo |-> inv.todo, scope |-> inv.scope, spent |-> Spent(inv.used),
            late |-> inv.late, d |-> inv.d, out |-> out]
Fail(used) ==
    inv' = [pc |-> "domain", todo |-> inv.todo, scope |-> inv.scope, spent |-> Spent(used),
            late |-> inv.late]

\* What is left of the domain's captures and of the run's.
Budget == Lesser(MaxDomainCaptures - inv.used, MaxRunCaptures - (inv.spent + inv.used))

Conclusion ==
    IF inv.best = 0 THEN Unknown("NO_PUBLIC_EVIDENCE", inv.cites, 0, None)
    ELSE IF inv.parsed
    THEN Unknown("PARTIAL_EVIDENCE_BELOW_THRESHOLD", inv.cites, inv.best, "RELIABLE")
    ELSE Unknown("UNRELIABLE_FINDING_RECORDED", inv.cites, inv.best, "UNRELIABLE")

OutOfAttempts ==
    /\ inv.pc = "attempt"
    /\ inv.attempt > MaxQueries
    /\ Settle(Conclusion)
    /\ UNCHANGED <<rows, runs, quarantined, requests, loose, reused, faulted>>

\* Stopped by a limit (the domain's clock may have run out after any attempt):
\* what was found so far is kept, without a grade.
OutOfBudget ==
    /\ inv.pc = "attempt"
    /\ inv.attempt <= MaxQueries
    /\ inv.attempt > 1 \/ Budget <= 0
    /\ Settle(Unknown("BUDGET_EXHAUSTED", inv.cites, inv.best, None))
    /\ UNCHANGED <<rows, runs, quarantined, requests, loose, reused, faulted>>

\* The run of this key, new or as a request with the same key left it; or
\* governance refuses the mode and none is made.
CreateRun ==
    /\ inv.pc = "attempt"
    /\ inv.attempt <= MaxQueries
    /\ Budget > 0
    /\ runs' = IF runs[Key] = "absent" THEN [runs EXCEPT ![Key] = "QUEUED"] ELSE runs
    /\ inv' = [inv EXCEPT !.pc = "call"]
    /\ UNCHANGED <<rows, quarantined, requests, loose, reused, faulted>>

ModeRefused ==
    /\ inv.pc = "attempt"
    /\ inv.attempt <= MaxQueries
    /\ Budget > 0
    /\ runs[Key] = "absent"
    /\ Fail(inv.used)
    /\ faulted' = TRUE
    /\ UNCHANGED <<rows, runs, quarantined, requests, loose, reused>>

----------------------------------------------------------------------------
(* The provider call of one attempt *)

\* A failure of the call is marked on its run; so is the refusal to execute a
\* run that is over already.
Failed == [runs EXCEPT ![Key] = "FAILED"]

CallFails ==
    /\ inv.pc = "call"
    /\ runs' = Failed
    /\ Fail(inv.used)
    /\ faulted' = TRUE
    /\ UNCHANGED <<rows, quarantined, requests, loose, reused>>

\* Any other exception ends the invocation.
CallRaises ==
    /\ inv.pc = "call"
    /\ inv' = Idle
    /\ loose' = loose \cup {Key}
    /\ UNCHANGED <<rows, runs, quarantined, requests, reused, faulted>>

Executes == inv.pc = "call" /\ runs[Key] = "QUEUED"
Succeeded == [runs EXCEPT ![Key] = "SUCCEEDED"]
Again(best, parsed, used) ==
    inv' = [pc |-> "attempt", todo |-> inv.todo, scope |-> inv.scope, spent |-> inv.spent,
            late |-> inv.late, d |-> inv.d, attempt |-> inv.attempt + 1, used |-> used,
            best |-> best, parsed |-> parsed, cites |-> Key]

NothingFound ==
    /\ Executes
    /\ runs' = Succeeded
    /\ Again(inv.best, inv.parsed, inv.used)
    /\ UNCHANGED <<rows, quarantined, requests, loose, reused, faulted>>

\* Mutant of WrongSubject: the finding is thrown away.
WrongSubjectDiscarded ==
    /\ Executes
    /\ inv' = [inv EXCEPT !.pc = "quarantine"]
    /\ UNCHANGED <<rows, runs, quarantined, requests, loose, reused, faulted>>

\* A finding about another subject is quarantined, then its run succeeds.
WrongSubject ==
    /\ Executes
    /\ quarantined' = quarantined \cup {Key}
    /\ inv' = [inv EXCEPT !.pc = "quarantine"]
    /\ UNCHANGED <<rows, runs, requests, loose, reused, faulted>>

Quarantined ==
    /\ inv.pc = "quarantine"
    /\ runs' = Succeeded
    /\ Settle(Unknown("OUT_OF_PERIMETER", Key, inv.best, None))
    /\ UNCHANGED <<rows, quarantined, requests, loose, reused, faulted>>

\* The sources the reply claims, less those its search never returned.
Claims(n) ==
    /\ Executes
    /\ inv' = [pc |-> "fetch", todo |-> inv.todo, scope |-> inv.scope, spent |-> inv.spent,
               late |-> inv.late, d |-> inv.d, attempt |-> inv.attempt, used |-> inv.used,
               best |-> inv.best, parsed |-> inv.parsed, cites |-> inv.cites, claims |-> n]
    /\ UNCHANGED <<rows, runs, quarantined, requests, loose, reused, faulted>>

Unreachable(used, unreachable) == used > 0 /\ unreachable = used
Bar(verified) == verified >= MinSources

\* _verify_sources fetches within the budget; unreachable fetches count too.
Fetch(verified, unreachable, parsed) ==
    /\ inv.pc = "fetch"
    /\ LET took == Lesser(inv.claims, Budget)
           used == inv.used + took
           better == verified > inv.best
       IN /\ verified + unreachable <= took
          /\ runs' = Succeeded
          /\ faulted' = (took > 0 /\ unreachable = took)
          /\ CASE Unreachable(took, unreachable) -> Fail(used)
               [] ~Unreachable(took, unreachable) /\ Bar(verified) ->
                    inv' = [pc |-> "write", todo |-> inv.todo, scope |-> inv.scope,
                            spent |-> Spent(used), late |-> inv.late, d |-> inv.d,
                            out |-> [disposition |-> "EVIDENCED_PUBLIC", reason |-> "NONE",
                                     run |-> Key, sources |-> verified, grade |-> None]]
               [] OTHER -> Again(IF better THEN verified ELSE inv.best,
                                 IF better THEN parsed ELSE inv.parsed, used)
    /\ UNCHANGED <<rows, quarantined, requests, loose, reused>>

\* _upsert_disposition
Upsert ==
    /\ inv.pc = "write"
    /\ WriteRow(inv.d, inv.out)
    /\ inv' = [pc |-> "domain", todo |-> inv.todo, scope |-> inv.scope, spent |-> inv.spent,
               late |-> inv.late]
    /\ UNCHANGED <<runs, quarantined, requests, loose, reused, faulted>>

\* The process dies.
Crash ==
    /\ inv # Idle
    /\ inv' = Idle
    /\ loose' = loose \cup (IF inv.pc \in {"call", "quarantine", "fetch"} THEN {Key} ELSE {})
    /\ UNCHANGED <<rows, runs, quarantined, requests, reused, faulted>>

Attempt ==
    \/ OutOfAttempts \/ OutOfBudget \/ CreateRun \/ ModeRefused
    \/ CallFails \/ CallRaises \/ NothingFound \/ WrongSubject \/ Quarantined
    \/ \E n \in 0..MaxClaims : Claims(n)
    \/ \E verified, unreachable \in 0..MaxClaims, parsed \in BOOLEAN :
          Fetch(verified, unreachable, parsed)

Step ==
    \/ Finish
    \/ \E d \in Domains : Exhausted(d) \/ Begin(d)
    \/ Attempt \/ Upsert

Next ==
    \/ \E scope \in Scopes, overwrite \in BOOLEAN : Submit(scope, overwrite)
    \/ Step \/ Crash

Spec == Init /\ [][Next]_vars

\* A request is carried to its end unless the process dies.
FairSpec == Spec /\ WF_vars(Step)
=============================================================================
