--------------------------- MODULE ResearchRunProps ---------------------------
(***************************************************************************)
(* What a research run promises, over ResearchRun.                          *)
(***************************************************************************)
EXTENDS ResearchRun

\* Every variable keeps to its range.
TypeOK ==
    /\ rows \in [Domains -> Rows \cup {None}]
    /\ runs \in [Keys -> {"absent", "QUEUED", "SUCCEEDED", "FAILED"}]
    /\ quarantined \in SUBSET Keys
    /\ inv \in {Idle} \cup Walk \cup Domain \cup Reply \cup Result
    /\ requests \in Nat
    /\ loose \in SUBSET Keys
    /\ reused \in SUBSET Scopes
    /\ faulted \in BOOLEAN

Working == inv.pc \in {"attempt", "call", "quarantine", "fetch"}

\* The captures of a run and of each domain stay within their budgets, failed
\* attempts included (run_domain_research, _verify_sources).
WithinBudgets ==
    /\ inv # Idle => inv.spent <= MaxRunCaptures
    /\ Working => inv.used <= MaxDomainCaptures /\ inv.spent + inv.used <= MaxRunCaptures

\* An operational failure gets no disposition: no row is written for a domain
\* whose call failed or whose every fetch was unreachable.
FailureWritesNothing == [][rows' # rows => ~faulted']_vars

\* Public evidence names a run that succeeded, and a finding about another
\* subject is in quarantine, unless the caller reused the request's scope.
RowsAreTraceable ==
    \A d \in Domains : rows[d] # None /\ rows[d].run # None =>
        LET key == rows[d].run IN
        /\ key[1] \notin reused => runs[key] = "SUCCEEDED"
        /\ rows[d].reason = "OUT_OF_PERIMETER" => key \in quarantined

\* No agent run is left open by a handler that reached its end (fail() in the
\* shape check, succeed() on every other way out).
RunsSettle == inv = Idle => \A k \in Keys : runs[k] = "QUEUED" => k \in loose

\* Each invocation ends: the attempts at a domain and the domains are finite,
\* whatever the calls return.
InvocationsEnd == (inv # Idle) ~> (inv = Idle)

Promise == INSTANCE ResearchPromise WITH
    todo <- IF inv = Idle THEN {}
            ELSE IF inv.pc = "domain" THEN inv.todo ELSE inv.todo \cup {inv.d}
\* What the walk does to the table is what ResearchPromise allows.
WalkKeepsPromise == Promise!Spec
=============================================================================
