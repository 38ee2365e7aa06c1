-------------------------- MODULE ResearchRunProofs --------------------------
(***************************************************************************)
(* Theorems about research, for every number of domains, attempts, claimed  *)
(* sources and invocations, and all budgets the policy admits.              *)
(***************************************************************************)
EXTENDS ResearchRunProps, TLAPS

AtWork == {"attempt", "call", "quarantine", "fetch"}

\* What the invocation at work holds at each place.
LEMMA InvAt ==
    ASSUME TypeOK
    PROVE  /\ inv.pc \in {"idle", "domain", "write"} \cup AtWork
           /\ inv.pc = "idle" <=> inv = Idle
           /\ inv.pc # "idle" =>
                 inv.todo \in SUBSET Domains /\ inv.scope \in Scopes /\ inv.spent \in Nat
                 /\ inv.late \in BOOLEAN
           /\ inv.pc \in AtWork \cup {"write"} => inv.d \in Domains
           /\ inv.pc \in AtWork =>
                 /\ inv.attempt \in 1..(MaxQueries + 1) /\ inv.used \in Nat /\ inv.best \in Nat
                 /\ inv.parsed \in BOOLEAN /\ inv.cites \in Keys \cup {None}
           /\ inv.pc \in AtWork \ {"fetch"} => inv \in Domain
           /\ inv.pc = "fetch" => inv.claims \in Nat
           /\ inv.pc = "write" => inv.out \in Rows
BY DEF TypeOK, Idle, Walk, Domain, Reply, Result, AtWork

LEMMA KeyTyped ==
    ASSUME TypeOK, inv.pc \in AtWork, inv.attempt <= MaxQueries
    PROVE  Key \in Keys
BY InvAt, ResearchAssumption DEF Key, Keys, Domains, Scopes, AtWork

\* A row that research writes.
Finding(row) ==
    /\ row \in Rows
    /\ row.disposition # "CLIENT_CONFIRMED"
    /\ row.disposition = "EVIDENCED_PUBLIC" => row.sources >= MinSources

LEMMA UnknownFinding ==
    ASSUME NEW reason \in Reasons, NEW run \in Keys \cup {None}, NEW sources \in Nat,
           NEW grade \in Grades \cup {None}
    PROVE  /\ Finding(Unknown(reason, run, sources, grade))
           /\ Unknown(reason, run, sources, grade).run = run
           /\ Unknown(reason, run, sources, grade).reason = reason
BY DEF Finding, Unknown, Rows

\* The budgets nest, the domain at work is no longer to come, and what is on
\* its way to the table is a finding.
Fits(i) ==
    /\ i.pc # "idle" => i.spent <= MaxRunCaptures
    /\ i.pc \in AtWork =>
          i.used <= MaxDomainCaptures /\ i.spent + i.used <= MaxRunCaptures
    /\ i.pc \in AtWork \ {"attempt"} => i.attempt <= MaxQueries
    /\ i.pc \in AtWork \cup {"write"} => i.d \notin i.todo
    /\ i.pc = "write" => Finding(i.out)

\* While a domain is at work nothing about it has failed.
Sound == inv.pc \in AtWork \cup {"write"} => ~faulted

\* An open agent run is the one at work, or was left behind.
Closed == \A k \in Keys : runs[k] = "QUEUED" =>
              k \in loose \/ (inv.pc \in AtWork \ {"attempt"} /\ k = Key)

Shape == Fits(inv) /\ Sound /\ Closed

\* The place and the fields of what a step leaves at work.
LEMMA MadeWalk ==
    ASSUME NEW todo \in SUBSET Domains, NEW scope \in Scopes, NEW spent \in Nat,
           NEW late \in BOOLEAN, spent <= MaxRunCaptures
    PROVE  LET i == [pc |-> "domain", todo |-> todo, scope |-> scope, spent |-> spent,
                     late |-> late]
           IN i \in Walk /\ Fits(i) /\ i.pc = "domain"
BY DEF Walk, Fits, AtWork

LEMMA MadeResult ==
    ASSUME NEW todo \in SUBSET Domains, NEW scope \in Scopes, NEW spent \in Nat,
           NEW late \in BOOLEAN, NEW d \in Domains, NEW out, Finding(out),
           spent <= MaxRunCaptures, d \notin todo
    PROVE  LET i == [pc |-> "write", todo |-> todo, scope |-> scope, spent |-> spent,
                     late |-> late, d |-> d, out |-> out]
           IN i \in Result /\ Fits(i) /\ i.pc = "write"
BY DEF Result, Fits, AtWork, Finding

LEMMA MadeAttempt ==
    ASSUME NEW todo \in SUBSET Domains, NEW scope \in Scopes, NEW spent \in Nat,
           NEW late \in BOOLEAN, NEW d \in Domains,
           NEW attempt \in 1..(MaxQueries + 1), NEW used \in Nat, NEW best \in Nat,
           NEW parsed \in BOOLEAN, NEW cites \in Keys \cup {None},
           spent <= MaxRunCaptures, used <= MaxDomainCaptures, spent + used <= MaxRunCaptures,
           d \notin todo
    PROVE  LET i == [pc |-> "attempt", todo |-> todo, scope |-> scope, spent |-> spent, late |-> late,
                     d |-> d, attempt |-> attempt, used |-> used, best |-> best,
                     parsed |-> parsed, cites |-> cites]
           IN i \in Domain /\ Fits(i) /\ i.pc = "attempt"
BY DEF Domain, Fits, AtWork

\* What is left of the captures when a reply is fetched.
LEMMA BudgetLeft ==
    ASSUME TypeOK, Fits(inv), inv.pc \in AtWork
    PROVE  /\ Budget \in Nat
           /\ inv.used + Budget <= MaxDomainCaptures
           /\ inv.spent + inv.used + Budget <= MaxRunCaptures
BY InvAt, ResearchAssumption DEF Fits, Budget, Lesser, AtWork

----------------------------------------------------------------------------
(* The step of each action. *)

Good == TypeOK /\ Shape

LEMMA Submitting ==
    ASSUME Good, NEW scope \in Scopes, NEW overwrite \in BOOLEAN, Submit(scope, overwrite)
    PROVE  Good'
<1>1. Targets(overwrite) \in SUBSET Domains /\ 0 \in Nat /\ 0 <= MaxRunCaptures
  BY ResearchAssumption DEF Targets
<1>2. inv' = [pc |-> "domain", todo |-> Targets(overwrite), scope |-> scope, spent |-> 0,
              late |-> FALSE]
  BY DEF Submit
<1>3. inv' \in Walk /\ Fits(inv') /\ inv'.pc = "domain"
  BY <1>1, <1>2, MadeWalk
<1>4. Closed'
  BY <1>3 DEF Submit, Good, Shape, Closed, AtWork, Idle
<1>5. /\ requests' \in Nat /\ reused' \in SUBSET Scopes /\ faulted' = FALSE
      /\ UNCHANGED <<rows, runs, quarantined, loose>>
  BY DEF Submit, Good, TypeOK
<1> QED
  BY <1>3, <1>4, <1>5 DEF Good, Shape, Sound, TypeOK

LEMMA Finishing ==
    ASSUME Good, Finish
    PROVE  Good'
BY DEF Finish, Good, Shape, Closed, Sound, Fits, TypeOK, AtWork, Idle

LEMMA Exhausting ==
    ASSUME Good, NEW d \in Domains, Exhausted(d)
    PROVE  Good'
<1>1. inv' \in Walk /\ Fits(inv') /\ inv'.pc = "domain"
  <2>1. /\ inv.pc = "domain" /\ inv.todo \in SUBSET Domains /\ inv.scope \in Scopes
        /\ inv.spent \in Nat /\ inv.late \in BOOLEAN /\ inv.spent <= MaxRunCaptures
    BY InvAt DEF Exhausted, Good, Shape, Fits
  <2>2. inv.todo \ {d} \in SUBSET Domains /\ (inv.late \/ inv.spent < MaxRunCaptures) \in BOOLEAN
    BY <2>1
  <2> DEFINE late == inv.late \/ inv.spent < MaxRunCaptures
  <2>3. inv' = [pc |-> "domain", todo |-> inv.todo \ {d}, scope |-> inv.scope,
                spent |-> inv.spent, late |-> late]
    BY DEF Exhausted
  <2> HIDE DEF late
  <2>4. late \in BOOLEAN
    BY <2>2 DEF late
  <2> QED
    BY <2>1, <2>2, <2>3, <2>4, MadeWalk
<1>2. rows' \in [Domains -> Rows \cup {None}]
  BY UnknownFinding DEF Exhausted, WriteRow, Good, TypeOK, Finding, Reasons
<1>3. Closed'
  BY <1>1 DEF Exhausted, Good, Shape, Closed, AtWork
<1> QED
  BY <1>1, <1>2, <1>3 DEF Exhausted, Good, Shape, Sound, TypeOK, AtWork

LEMMA Beginning ==
    ASSUME Good, NEW d \in Domains, Begin(d)
    PROVE  Good'
<1>1. inv' \in Domain /\ Fits(inv') /\ inv'.pc = "attempt"
  <2>1. /\ inv.pc = "domain" /\ inv.todo \in SUBSET Domains /\ inv.scope \in Scopes
        /\ inv.spent \in Nat /\ inv.spent <= MaxRunCaptures
    BY InvAt DEF Begin, Good, Shape, Fits
  <2>2. /\ 1 \in 1..(MaxQueries + 1) /\ 0 \in Nat /\ 0 <= MaxDomainCaptures
        /\ inv.spent + 0 <= MaxRunCaptures
    BY <2>1, ResearchAssumption
  <2>3. inv.todo \ {d} \in SUBSET Domains /\ d \notin inv.todo \ {d}
    BY <2>1
  <2>4. inv' = [pc |-> "attempt", todo |-> inv.todo \ {d}, scope |-> inv.scope,
                spent |-> inv.spent, late |-> FALSE, d |-> d, attempt |-> 1, used |-> 0,
                best |-> 0, parsed |-> FALSE, cites |-> None]
    BY DEF Begin
  <2> QED
    BY <2>1, <2>2, <2>3, <2>4, MadeAttempt
<1>2. Closed'
  BY <1>1 DEF Begin, Good, Shape, Closed, AtWork
<1> QED
  BY <1>1, <1>2 DEF Begin, Good, Shape, Sound, TypeOK, AtWork

\* A finding goes to the table; the runs are as they were.
LEMMA Settling ==
    ASSUME Good, inv.pc \in AtWork, NEW out, Finding(out), Settle(out)
    PROVE  inv' \in Result /\ Fits(inv') /\ inv'.pc = "write"
BY MadeResult, InvAt DEF Settle, Spent, Good, Shape, Fits, AtWork

LEMMA Failing ==
    ASSUME Good, inv.pc \in AtWork, NEW used \in Nat, inv.spent + used <= MaxRunCaptures,
           Fail(used)
    PROVE  inv' \in Walk /\ Fits(inv') /\ inv'.pc = "domain"
BY MadeWalk, InvAt DEF Fail, Spent, Good, Shape, Fits, AtWork

LEMMA Retrying ==
    ASSUME Good, inv.pc \in AtWork \ {"attempt"}, NEW best \in Nat, NEW parsed \in BOOLEAN,
           NEW used \in Nat, used <= MaxDomainCaptures, inv.spent + used <= MaxRunCaptures,
           Again(best, parsed, used)
    PROVE  inv' \in Domain /\ Fits(inv') /\ inv'.pc = "attempt"
<1>1. Key \in Keys
  BY KeyTyped DEF Good, Shape, Fits, AtWork
<1>2. /\ inv.pc \in AtWork /\ inv.todo \in SUBSET Domains /\ inv.scope \in Scopes
      /\ inv.spent \in Nat /\ inv.late \in BOOLEAN /\ inv.d \in Domains
      /\ inv.spent <= MaxRunCaptures /\ inv.d \notin inv.todo
      /\ inv.attempt \in Nat \ {0} /\ inv.attempt <= MaxQueries
  BY InvAt DEF Good, Shape, Fits, AtWork
<1>3. inv.attempt + 1 \in 1..(MaxQueries + 1)
  BY <1>2, ResearchAssumption
<1>4. inv' = [pc |-> "attempt", todo |-> inv.todo, scope |-> inv.scope, spent |-> inv.spent,
              late |-> inv.late, d |-> inv.d, attempt |-> inv.attempt + 1, used |-> used,
              best |-> best, parsed |-> parsed, cites |-> Key]
  BY DEF Again
<1> QED
  BY <1>1, <1>2, <1>3, <1>4, MadeAttempt

LEMMA Concluding ==
    ASSUME Good, OutOfAttempts \/ OutOfBudget
    PROVE  Good'
<1>1. inv.pc = "attempt"
  BY DEF OutOfAttempts, OutOfBudget
<1>2. Finding(Conclusion) /\ Finding(Unknown("BUDGET_EXHAUSTED", inv.cites, inv.best, None))
  BY <1>1, UnknownFinding, InvAt DEF Good, Conclusion, AtWork, Reasons, Grades
<1>3. inv' \in Result /\ Fits(inv') /\ inv'.pc = "write"
  BY <1>1, <1>2, Settling DEF OutOfAttempts, OutOfBudget, AtWork
<1>4. UNCHANGED <<rows, runs, quarantined, requests, loose, reused, faulted>>
  BY DEF OutOfAttempts, OutOfBudget
<1> QED
  BY <1>1, <1>3, <1>4 DEF Good, Shape, Sound, Closed, TypeOK, AtWork

LEMMA CreatingRun ==
    ASSUME Good, CreateRun
    PROVE  Good'
<1>1. inv.pc = "attempt" /\ inv.attempt <= MaxQueries /\ Key \in Keys /\ inv \in Domain
  BY KeyTyped, InvAt DEF CreateRun, Good, AtWork
<1>2. /\ inv' = [inv EXCEPT !.pc = "call"] /\ inv' \in Domain /\ inv'.pc = "call"
      /\ Key' = Key
  BY <1>1 DEF CreateRun, Domain, Key
<1>3. Fits(inv')
  BY <1>1, <1>2 DEF Good, Shape, Fits, AtWork, Domain
<1>4. runs' \in [Keys -> {"absent", "QUEUED", "SUCCEEDED", "FAILED"}] /\ Closed'
  BY <1>1, <1>2 DEF CreateRun, Good, Shape, TypeOK, Closed, AtWork
<1> QED
  BY <1>1, <1>2, <1>3, <1>4 DEF CreateRun, Good, Shape, Sound, TypeOK, AtWork

\* The invocation gives the domain up: what it spent is spent.
LEMMA GivingUp ==
    ASSUME Good, ModeRefused \/ CallFails
    PROVE  Good'
<1>1. inv.pc \in {"attempt", "call"} /\ inv.attempt <= MaxQueries /\ Key \in Keys
  BY KeyTyped DEF ModeRefused, CallFails, Good, Shape, Fits, AtWork
<1>2. inv.used \in Nat /\ inv.spent + inv.used <= MaxRunCaptures
  BY <1>1, InvAt DEF Good, Shape, Fits, AtWork
<1>3. inv' \in Walk /\ Fits(inv') /\ inv'.pc = "domain"
  BY <1>1, <1>2, Failing DEF ModeRefused, CallFails, AtWork
<1>4. runs' \in [Keys -> {"absent", "QUEUED", "SUCCEEDED", "FAILED"}] /\ Closed'
  BY <1>1, <1>3 DEF ModeRefused, CallFails, Failed, Good, Shape, TypeOK, Closed, AtWork
<1>5. UNCHANGED <<rows, quarantined, requests, loose, reused>> /\ faulted' = TRUE
  BY DEF ModeRefused, CallFails
<1> QED
  BY <1>3, <1>4, <1>5 DEF Good, Shape, Sound, TypeOK, AtWork

LEMMA Stopping ==
    ASSUME Good, CallRaises \/ Crash
    PROVE  Good'
<1>1. inv.pc \in AtWork \ {"attempt"} => inv.attempt <= MaxQueries /\ Key \in Keys
  BY KeyTyped DEF Good, Shape, Fits, AtWork
<1>2. inv' = Idle /\ UNCHANGED <<rows, runs, quarantined, requests, reused, faulted>>
  BY DEF CallRaises, Crash
<1>3. /\ loose' \in SUBSET Keys /\ loose \subseteq loose'
      /\ inv.pc \in AtWork \ {"attempt"} => Key \in loose'
  BY <1>1 DEF CallRaises, Crash, Good, TypeOK, AtWork
<1>4. Closed'
  BY <1>2, <1>3 DEF Good, Shape, Closed
<1> QED
  BY <1>2, <1>3, <1>4 DEF Good, Shape, Sound, TypeOK, Fits, Idle, AtWork

LEMMA Answering ==
    ASSUME Good, WrongSubject \/ \E n \in 0..MaxClaims : Claims(n)
    PROVE  Good'
<1>1. inv.pc = "call" /\ inv.attempt <= MaxQueries /\ Key \in Keys /\ inv \in Domain
  BY KeyTyped, InvAt DEF WrongSubject, Claims, Executes, Good, Shape, Fits, AtWork
<1>2. CASE WrongSubject
  <2>1. inv' = [inv EXCEPT !.pc = "quarantine"] /\ inv' \in Domain /\ Key' = Key
    BY <1>1, <1>2 DEF WrongSubject, Domain, Key
  <2>2. Fits(inv') /\ inv'.pc = "quarantine"
    BY <1>1, <2>1 DEF Good, Shape, Fits, AtWork, Domain
  <2>3. Closed'
    BY <1>1, <1>2, <2>1, <2>2 DEF WrongSubject, Good, Shape, Closed, AtWork
  <2> QED
    BY <1>1, <1>2, <2>1, <2>2, <2>3 DEF WrongSubject, Good, Shape, Sound, TypeOK, AtWork
<1>3. ASSUME NEW n \in 0..MaxClaims, Claims(n) PROVE Good'
  <2>1. /\ inv' \in Reply /\ inv'.pc = "fetch" /\ Key' = Key
        /\ inv'.used = inv.used /\ inv'.spent = inv.spent /\ inv'.d = inv.d
        /\ inv'.todo = inv.todo /\ inv'.attempt = inv.attempt
    BY <1>1, <1>3, ResearchAssumption DEF Claims, Reply, Domain, Key
  <2>2. Fits(inv')
    BY <1>1, <2>1 DEF Good, Shape, Fits, AtWork
  <2>3. Closed'
    BY <1>1, <1>3, <2>1 DEF Claims, Good, Shape, Closed, AtWork
  <2> QED
    BY <1>1, <1>3, <2>1, <2>2, <2>3 DEF Claims, Good, Shape, Sound, TypeOK, AtWork
<1> QED
  BY <1>2, <1>3

\* The run of the call at work is over, and no other run changes.
LEMMA Succeeding ==
    ASSUME Good, inv.pc \in AtWork \ {"attempt"}, runs' = Succeeded, UNCHANGED loose
    PROVE  runs' \in [Keys -> {"absent", "QUEUED", "SUCCEEDED", "FAILED"}] /\ Closed'
<1>1. Key \in Keys
  BY KeyTyped DEF Good, Shape, Fits, AtWork
<1>2. runs' \in [Keys -> {"absent", "QUEUED", "SUCCEEDED", "FAILED"}]
  BY <1>1 DEF Succeeded, Good, TypeOK
<1>3. \A k \in Keys : runs'[k] = "QUEUED" => k # Key /\ runs[k] = "QUEUED"
  BY <1>1 DEF Succeeded, Good, TypeOK
<1> QED
  BY <1>2, <1>3 DEF Good, Shape, Closed

LEMMA Ending ==
    ASSUME Good, NothingFound \/ Quarantined
    PROVE  Good'
<1>1. /\ inv.pc \in {"call", "quarantine"} /\ inv.attempt <= MaxQueries /\ Key \in Keys
      /\ inv.used \in Nat /\ inv.best \in Nat /\ inv.parsed \in BOOLEAN
      /\ inv.used <= MaxDomainCaptures /\ inv.spent + inv.used <= MaxRunCaptures
  BY KeyTyped, InvAt DEF NothingFound, Quarantined, Executes, Good, Shape, Fits, AtWork
<1>2. runs' = Succeeded /\ UNCHANGED <<rows, quarantined, requests, loose, reused, faulted>>
  BY DEF NothingFound, Quarantined
<1>3. \/ inv' \in Domain /\ Fits(inv') /\ inv'.pc = "attempt"
      \/ inv' \in Result /\ Fits(inv') /\ inv'.pc = "write"
  <2>1. CASE NothingFound
    BY <1>1, <2>1, Retrying DEF NothingFound, AtWork
  <2>2. CASE Quarantined
    <3>1. Finding(Unknown("OUT_OF_PERIMETER", Key, inv.best, None))
      BY <1>1, UnknownFinding DEF Reasons
    <3> QED
      BY <1>1, <2>2, <3>1, Settling DEF Quarantined, AtWork
  <2> QED
    BY <2>1, <2>2
<1>4. runs' \in [Keys -> {"absent", "QUEUED", "SUCCEEDED", "FAILED"}] /\ Closed'
  BY <1>1, <1>2, Succeeding DEF AtWork
<1>5. ~faulted
  BY <1>1 DEF Good, Shape, Sound, AtWork
<1> QED
  BY <1>2, <1>3, <1>4, <1>5 DEF Good, Shape, Sound, TypeOK

LEMMA Upserting ==
    ASSUME Good, Upsert
    PROVE  Good'
<1>1. inv.pc = "write" /\ inv.d \in Domains /\ inv.out \in Rows
  BY InvAt DEF Upsert, Good
<1>2. inv' \in Walk /\ Fits(inv') /\ inv'.pc = "domain"
  BY <1>1, MadeWalk, InvAt DEF Upsert, Good, Shape, Fits
<1>3. rows' \in [Domains -> Rows \cup {None}]
  BY <1>1 DEF Upsert, WriteRow, Good, TypeOK
<1>4. Closed'
  BY <1>1, <1>2 DEF Upsert, Good, Shape, Closed, AtWork
<1> QED
  BY <1>2, <1>3, <1>4 DEF Upsert, Good, Shape, Sound, TypeOK, AtWork

\* What a fetch takes, and that it ends in one of three ways.
LEMMA Fetched ==
    ASSUME Good, NEW verified \in 0..MaxClaims, NEW unreachable \in 0..MaxClaims,
           NEW parsed \in BOOLEAN, Fetch(verified, unreachable, parsed)
    PROVE  /\ inv.pc = "fetch" /\ Key \in Keys /\ ~faulted
           /\ runs' = Succeeded
           /\ UNCHANGED <<rows, quarantined, requests, loose, reused>>
           /\ \/ inv' \in Walk /\ Fits(inv') /\ inv'.pc = "domain"
              \/ /\ inv' \in Result /\ Fits(inv') /\ inv'.pc = "write" /\ ~faulted'
                 /\ inv'.d = inv.d /\ inv'.todo = inv.todo /\ inv'.scope = inv.scope
                 /\ inv'.out.run = Key /\ inv'.out.reason = "NONE"
              \/ /\ inv' \in Domain /\ Fits(inv') /\ inv'.pc = "attempt" /\ ~faulted'
                 /\ \E best, p, used : Again(best, p, used)
<1> DEFINE took == Lesser(inv.claims, Budget)
           used == inv.used + took
           better == verified > inv.best
<1>1. /\ inv.pc = "fetch" /\ inv.attempt <= MaxQueries /\ Key \in Keys /\ ~faulted
      /\ inv.used \in Nat /\ inv.best \in Nat /\ inv.parsed \in BOOLEAN /\ inv.claims \in Nat
      /\ inv.spent \in Nat
  BY KeyTyped, InvAt DEF Fetch, Good, Shape, Fits, Sound, AtWork
<1>2. /\ took \in Nat /\ used \in Nat /\ used <= MaxDomainCaptures
      /\ inv.spent + used <= MaxRunCaptures
  <2>1. /\ Budget \in Nat /\ inv.used + Budget <= MaxDomainCaptures
        /\ inv.spent + inv.used + Budget <= MaxRunCaptures
    BY <1>1, BudgetLeft DEF Good, Shape, AtWork
  <2>2. took \in Nat /\ took <= Budget
    BY <1>1, <2>1 DEF Lesser
  <2> HIDE DEF took
  <2> QED
    BY <1>1, <2>1, <2>2, ResearchAssumption
<1>3. runs' = Succeeded /\ UNCHANGED <<rows, quarantined, requests, loose, reused>>
  BY DEF Fetch
<1>4. CASE Unreachable(took, unreachable)
  <2>1. Fail(used)
    BY <1>4 DEF Fetch
  <2> HIDE DEF used, took
  <2>2. inv' \in Walk /\ Fits(inv') /\ inv'.pc = "domain"
    BY <1>1, <1>2, <2>1, Failing DEF AtWork
  <2> QED
    BY <1>1, <1>3, <2>2
<1>5. CASE ~Unreachable(took, unreachable) /\ Bar(verified)
  <2> DEFINE out == [disposition |-> "EVIDENCED_PUBLIC", reason |-> "NONE", run |-> Key,
                     sources |-> verified, grade |-> None]
  <2>1. /\ inv' = [pc |-> "write", todo |-> inv.todo, scope |-> inv.scope, spent |-> Spent(used),
                   late |-> inv.late, d |-> inv.d, out |-> out]
        /\ ~faulted'
    BY <1>5 DEF Fetch, Unreachable
  <2>2. verified \in Nat /\ verified >= MinSources
    BY <1>5, ResearchAssumption DEF Bar
  <2>3. Finding(out) /\ out.run = Key /\ out.reason = "NONE"
    BY <1>1, <2>2 DEF Finding, Rows, Reasons
  <2> HIDE DEF out, used, took
  <2>4. /\ inv.todo \in SUBSET Domains /\ inv.scope \in Scopes /\ Spent(used) \in Nat
        /\ inv.late \in BOOLEAN /\ inv.d \in Domains /\ Spent(used) <= MaxRunCaptures
        /\ inv.d \notin inv.todo
    BY <1>1, <1>2, InvAt DEF Good, Shape, Fits, AtWork, Spent
  <2>5. inv' \in Result /\ Fits(inv') /\ inv'.pc = "write"
    BY <2>1, <2>3, <2>4, MadeResult
  <2>6. inv'.d = inv.d /\ inv'.todo = inv.todo /\ inv'.scope = inv.scope /\ inv'.out = out
    BY <2>1
  <2> QED
    BY <1>1, <1>3, <2>1, <2>3, <2>5, <2>6
<1>6. CASE ~Unreachable(took, unreachable) /\ ~Bar(verified)
  <2> DEFINE best == IF better THEN verified ELSE inv.best
             p == IF better THEN parsed ELSE inv.parsed
  <2>1. Again(best, p, used) /\ ~faulted'
    BY <1>6 DEF Fetch, Unreachable
  <2>2. best \in Nat /\ p \in BOOLEAN
    BY <1>1, ResearchAssumption
  <2> HIDE DEF best, p, used, took
  <2>3. inv' \in Domain /\ Fits(inv') /\ inv'.pc = "attempt"
    BY <1>1, <1>2, <2>1, <2>2, Retrying DEF AtWork
  <2> QED
    BY <1>1, <1>3, <2>1, <2>3
<1> QED
  BY <1>4, <1>5, <1>6

LEMMA Fetching ==
    ASSUME Good, NEW verified \in 0..MaxClaims, NEW unreachable \in 0..MaxClaims,
           NEW parsed \in BOOLEAN, Fetch(verified, unreachable, parsed)
    PROVE  Good'
<1>1. faulted' \in BOOLEAN
  BY DEF Fetch
<1>2. runs' \in [Keys -> {"absent", "QUEUED", "SUCCEEDED", "FAILED"}] /\ Closed'
  BY Fetched, Succeeding DEF AtWork
<1> QED
  BY <1>1, <1>2, Fetched DEF Good, Shape, Sound, TypeOK, AtWork

LEMMA GoodStep ==
    ASSUME Good, Next
    PROVE  Good'
<1>1. CASE Attempt
  BY <1>1, Concluding, CreatingRun, GivingUp, Stopping, Answering, Ending, Fetching DEF Attempt
<1>2. CASE Step
  BY <1>1, <1>2, Finishing, Exhausting, Beginning, Upserting DEF Step
<1> QED
  BY <1>2, Submitting, Stopping DEF Next

LEMMA GoodInvariant == Spec => []Good
<1>1. Init => Good
  <2> SUFFICES ASSUME Init PROVE Good
    OBVIOUS
  <2>1. ClientRow \in Rows
    BY DEF ClientRow, Rows, Reasons
  <2>2. TypeOK
    BY <2>1 DEF Init, TypeOK
  <2>3. Shape
    BY DEF Init, Shape, Fits, Sound, Closed, Idle, AtWork
  <2> QED
    BY <2>2, <2>3 DEF Good
<1>2. Good /\ [Next]_vars => Good'
  <2>1. ASSUME Good, UNCHANGED vars PROVE Good'
    BY <2>1 DEF Good, TypeOK, Shape, Fits, Sound, Closed, Key, vars
  <2> QED
    BY <2>1, GoodStep
<1> QED
  BY <1>1, <1>2, PTL DEF Spec

\* Every variable keeps to its range, in every instance.
THEOREM TypeCorrect == Spec => []TypeOK
<1>1. Good => TypeOK
  BY DEF Good
<1> QED
  BY <1>1, GoodInvariant, PTL

\* WithinBudgets in every instance: neither failed attempts nor unreachable
\* pages take an invocation past a budget.
THEOREM BudgetsHold == Spec => []WithinBudgets
<1>1. Good => WithinBudgets
  BY InvAt DEF Good, Shape, Fits, WithinBudgets, Working, AtWork
<1> QED
  BY <1>1, GoodInvariant, PTL

\* RunsSettle in every instance: a handler that reached its end leaves no
\* agent run open.
THEOREM NoRunLeftOpen == Spec => []RunsSettle
<1>1. Good => RunsSettle
  BY DEF Good, Shape, Closed, RunsSettle, Idle, AtWork
<1> QED
  BY <1>1, GoodInvariant, PTL

----------------------------------------------------------------------------
(* The table of dispositions changes in two steps. *)

LEMMA TableStep ==
    ASSUME Next
    PROVE  \/ rows' = rows
           \/ \E d \in Domains : Exhausted(d)
           \/ Upsert
<1>1. ASSUME NEW scope, NEW overwrite, Submit(scope, overwrite) PROVE rows' = rows
  BY <1>1 DEF Submit
<1>2. ASSUME Finish \/ Crash PROVE rows' = rows
  BY <1>2 DEF Finish, Crash
<1>3. ASSUME NEW d, Begin(d) PROVE rows' = rows
  BY <1>3 DEF Begin
<1>4. ASSUME Attempt PROVE rows' = rows
  <2>1. ASSUME OutOfAttempts \/ OutOfBudget \/ CreateRun \/ ModeRefused PROVE rows' = rows
    BY <2>1 DEF OutOfAttempts, OutOfBudget, CreateRun, ModeRefused
  <2>2. ASSUME CallFails \/ CallRaises \/ NothingFound \/ WrongSubject \/ Quarantined
        PROVE  rows' = rows
    BY <2>2 DEF CallFails, CallRaises, NothingFound, WrongSubject, Quarantined
  <2>3. ASSUME NEW n, Claims(n) PROVE rows' = rows
    BY <2>3 DEF Claims
  <2>4. ASSUME NEW verified, NEW unreachable, NEW parsed, Fetch(verified, unreachable, parsed)
        PROVE  rows' = rows
    BY <2>4 DEF Fetch
  <2> QED
    BY <1>4, <2>1, <2>2, <2>3, <2>4 DEF Attempt
<1> QED
  BY <1>1, <1>2, <1>3, <1>4 DEF Next, Step

\* FailureWritesNothing in every instance.
THEOREM FailuresWriteNothing == Spec => FailureWritesNothing
<1>1. Good /\ [Next]_vars => [rows' # rows => ~faulted']_vars
  <2> SUFFICES ASSUME Good, Next PROVE rows' # rows => ~faulted'
    OBVIOUS
  <2>1. ASSUME NEW d \in Domains, Exhausted(d) PROVE ~faulted'
    BY <2>1 DEF Exhausted
  <2>2. ASSUME Upsert PROVE ~faulted'
    BY <2>2 DEF Upsert, Good, Shape, Sound, AtWork
  <2> QED
    BY <2>1, <2>2, TableStep
<1> QED
  BY <1>1, GoodInvariant, PTL DEF Spec, FailureWritesNothing

----------------------------------------------------------------------------
(* What a row names.  While the scope of a request is nobody else's, the     *)
(* runs under it are the ones the invocation made for the domains it is past, *)
(* and each attempt's is new.                                                *)

KeyOf(i) == <<i.scope, i.d, i.attempt>>

Cited(R, U, key) == key # None => key \in Keys /\ (key[1] \notin U => R[key] = "SUCCEEDED")
Traced(R, U, Q, row) ==
    Cited(R, U, row.run) /\ (row.reason = "OUT_OF_PERIMETER" => row.run \in Q)

\* The run of key k is of a domain, or an attempt, that the invocation is past.
Past(i, k) ==
    /\ k[2] \notin i.todo
    /\ i.pc \in AtWork /\ k[2] = i.d =>
          k[3] <= i.attempt /\ (i.pc = "attempt" => k[3] < i.attempt)

Named(R, U, Q, i) ==
    /\ i.pc \in AtWork => Cited(R, U, i.cites)
    /\ i.pc = "write" => Traced(R, U, Q, i.out)
    /\ i.pc = "quarantine" => KeyOf(i) \in Q
    /\ i.pc \in AtWork \ {"attempt"} /\ i.scope \notin U => R[KeyOf(i)] = "QUEUED"
    /\ i.pc # "idle" /\ i.scope \notin U =>
          \A k \in Keys : k[1] = i.scope /\ R[k] # "absent" => Past(i, k)

TraceInv ==
    /\ \A d \in Domains : rows[d] # None => Traced(runs, reused, quarantined, rows[d])
    /\ Named(runs, reused, quarantined, inv)

\* A run that succeeded under a scope of its own stays so.
RunsKept ==
    /\ reused \subseteq reused' /\ quarantined \subseteq quarantined'
    /\ \A k \in Keys : k[1] \notin reused /\ runs[k] = "SUCCEEDED" => runs'[k] = "SUCCEEDED"

LEMMA TracesStay ==
    ASSUME RunsKept
    PROVE  /\ \A key : Cited(runs, reused, key) => Cited(runs', reused', key)
           /\ \A row : Traced(runs, reused, quarantined, row)
                         => Traced(runs', reused', quarantined', row)
BY DEF RunsKept, Cited, Traced

LEMMA SucceededKeeps ==
    ASSUME Good, inv.pc \in AtWork \ {"attempt"}, runs' = Succeeded,
           UNCHANGED <<reused, quarantined>>
    PROVE  /\ RunsKept /\ Key \in Keys /\ runs'[Key] = "SUCCEEDED"
           /\ \A k \in Keys : k # Key => runs'[k] = runs[k]
<1>1. Key \in Keys
  BY KeyTyped DEF Good, Shape, Fits, AtWork
<1> QED
  BY <1>1 DEF Succeeded, RunsKept, Good, TypeOK

LEMMA SubmitTraces ==
    ASSUME Good, TraceInv, NEW scope \in Scopes, NEW overwrite \in BOOLEAN,
           Submit(scope, overwrite)
    PROVE  RunsKept /\ Named(runs', reused', quarantined', inv')
<1>1. RunsKept /\ UNCHANGED <<runs, quarantined>>
  BY DEF Submit, RunsKept
<1>2. inv'.pc = "domain" /\ inv'.scope = scope
  BY DEF Submit
<1>3. scope \notin reused' => \A k \in Keys : k[1] = scope => runs[k] = "absent"
  BY DEF Submit
<1> QED
  BY <1>1, <1>2, <1>3 DEF Named, AtWork

LEMMA WalkTraces ==
    ASSUME Good, TraceInv, \/ Finish
                           \/ \E d \in Domains : Exhausted(d) \/ Begin(d)
    PROVE  RunsKept /\ Named(runs', reused', quarantined', inv')
<1>1. UNCHANGED <<runs, quarantined, reused>> /\ inv.pc = "domain"
  BY DEF Finish, Exhausted, Begin
<1>2. RunsKept
  BY <1>1 DEF RunsKept
<1>3. inv.scope \notin reused => \A k \in Keys :
         k[1] = inv.scope /\ runs[k] # "absent" => k[2] \notin inv.todo
  BY <1>1 DEF TraceInv, Named, Past
<1>4. CASE Finish
  BY <1>1, <1>2, <1>4 DEF Finish, Named, Idle, AtWork
<1>5. ASSUME NEW d \in Domains, Exhausted(d) PROVE Named(runs', reused', quarantined', inv')
  <2>1. inv'.pc = "domain" /\ inv'.scope = inv.scope /\ inv'.todo = inv.todo \ {d}
    BY <1>5 DEF Exhausted
  <2> QED
    BY <1>1, <1>3, <2>1 DEF Named, Past, AtWork
<1>6. ASSUME NEW d \in Domains, Begin(d) PROVE Named(runs', reused', quarantined', inv')
  <2>1. /\ inv'.pc = "attempt" /\ inv'.scope = inv.scope /\ inv'.todo = inv.todo \ {d}
        /\ inv'.d = d /\ inv'.attempt = 1 /\ inv'.cites = None /\ d \in inv.todo
    BY <1>6 DEF Begin, First
  <2> QED
    BY <1>1, <1>3, <2>1 DEF Named, Past, Cited, AtWork
<1> QED
  BY <1>2, <1>4, <1>5, <1>6

LEMMA ConcludeTraces ==
    ASSUME Good, TraceInv, OutOfAttempts \/ OutOfBudget
    PROVE  RunsKept /\ Named(runs', reused', quarantined', inv')
<1>1. UNCHANGED <<runs, quarantined, reused>> /\ inv.pc = "attempt"
  BY DEF OutOfAttempts, OutOfBudget
<1>2. RunsKept
  BY <1>1 DEF RunsKept
<1>3. inv.cites \in Keys \cup {None} /\ inv.best \in Nat /\ Cited(runs, reused, inv.cites)
  BY <1>1, InvAt DEF Good, TraceInv, Named, AtWork
<1>4. PICK out : /\ out \in {Conclusion, Unknown("BUDGET_EXHAUSTED", inv.cites, inv.best, None)}
                 /\ Settle(out)
  BY DEF OutOfAttempts, OutOfBudget
<1>5. out.run = inv.cites /\ out.reason # "OUT_OF_PERIMETER"
  BY <1>4 DEF Conclusion, Unknown
<1>6. /\ inv'.pc = "write" /\ inv'.out = out /\ inv'.scope = inv.scope /\ inv'.todo = inv.todo
  BY <1>4 DEF Settle
<1> QED
  BY <1>1, <1>2, <1>3, <1>5, <1>6 DEF TraceInv, Named, Traced, Past, AtWork

LEMMA CreateTraces ==
    ASSUME Good, TraceInv, CreateRun
    PROVE  RunsKept /\ Named(runs', reused', quarantined', inv')
<1>1. /\ inv.pc = "attempt" /\ inv.attempt <= MaxQueries /\ Key \in Keys /\ inv \in Domain
      /\ inv.attempt \in Nat
  BY KeyTyped, InvAt DEF CreateRun, Good, AtWork
<1>2. inv' = [inv EXCEPT !.pc = "call"] /\ UNCHANGED <<quarantined, reused>>
  BY DEF CreateRun
<1>3. /\ inv'.pc = "call" /\ inv'.scope = inv.scope /\ inv'.d = inv.d /\ inv'.todo = inv.todo
      /\ inv'.attempt = inv.attempt /\ inv'.cites = inv.cites
  BY <1>1, <1>2 DEF Domain
<1>4. /\ \A k \in Keys : k # Key => runs'[k] = runs[k]
      /\ runs'[Key] = IF runs[Key] = "absent" THEN "QUEUED" ELSE runs[Key]
  BY <1>1 DEF CreateRun, Good, TypeOK
<1>5. RunsKept
  BY <1>1, <1>2, <1>4 DEF RunsKept
<1>6. inv.scope \notin reused => runs[Key] = "absent"
  BY <1>1 DEF TraceInv, Named, Past, Key, AtWork
<1>7. KeyOf(inv') = Key /\ Cited(runs', reused', inv'.cites)
  BY <1>1, <1>3, <1>5, TracesStay DEF KeyOf, Key, TraceInv, Named, AtWork
<1>8. ASSUME inv'.scope \notin reused', NEW k \in Keys, k[1] = inv'.scope, runs'[k] # "absent"
      PROVE  Past(inv', k)
  <2>1. CASE k = Key
    <3>1. inv.d \notin inv.todo
      BY <1>1 DEF Good, Shape, Fits, AtWork
    <3> QED
      BY <1>1, <1>3, <2>1, <3>1 DEF Past, Key
  <2>2. CASE k # Key
    BY <1>1, <1>2, <1>3, <1>4, <1>8, <2>2 DEF TraceInv, Named, Past, AtWork
  <2> QED
    BY <2>1, <2>2
<1> QED
  BY <1>2, <1>3, <1>4, <1>5, <1>6, <1>7, <1>8 DEF Named, AtWork

LEMMA GiveUpTraces ==
    ASSUME Good, TraceInv, ModeRefused \/ CallFails
    PROVE  RunsKept /\ Named(runs', reused', quarantined', inv')
<1>1. inv.pc \in AtWork /\ Key \in Keys
  BY KeyTyped DEF ModeRefused, CallFails, Good, Shape, Fits, AtWork
<1>2. /\ inv'.pc = "domain" /\ inv'.scope = inv.scope /\ inv'.todo = inv.todo
      /\ UNCHANGED <<quarantined, reused>>
  BY DEF ModeRefused, CallFails, Fail
<1>3. /\ RunsKept /\ \A k \in Keys : runs'[k] # "absent" => runs[k] # "absent" \/ k = Key
  <2>1. CASE ModeRefused
    BY <2>1 DEF ModeRefused, RunsKept
  <2>2. CASE CallFails
    <3>1. /\ \A k \in Keys : k # Key => runs'[k] = runs[k]
          /\ inv.scope \notin reused => runs[Key] = "QUEUED"
      BY <1>1, <2>2 DEF CallFails, Failed, Good, TypeOK, TraceInv, Named, KeyOf, Key, AtWork
    <3>2. Key[1] = inv.scope
      BY DEF Key
    <3> QED
      BY <1>2, <3>1, <3>2 DEF RunsKept
  <2> QED
    BY <2>1, <2>2
<1>4. inv.d \notin inv.todo /\ Key[2] = inv.d
  BY <1>1 DEF Good, Shape, Fits, Key, AtWork
<1>5. ASSUME inv'.scope \notin reused', NEW k \in Keys, k[1] = inv'.scope, runs'[k] # "absent"
      PROVE  Past(inv', k)
  BY <1>1, <1>2, <1>3, <1>4, <1>5 DEF TraceInv, Named, Past, AtWork
<1> QED
  BY <1>2, <1>3, <1>5 DEF Named, AtWork

LEMMA StopTraces ==
    ASSUME Good, TraceInv, CallRaises \/ Crash
    PROVE  RunsKept /\ Named(runs', reused', quarantined', inv')
BY DEF CallRaises, Crash, RunsKept, Named, Idle, AtWork

LEMMA AnswerTraces ==
    ASSUME Good, TraceInv, WrongSubject \/ \E n \in 0..MaxClaims : Claims(n)
    PROVE  RunsKept /\ Named(runs', reused', quarantined', inv')
<1>1. inv.pc = "call" /\ inv \in Domain
  BY InvAt DEF WrongSubject, Claims, Executes, Good, AtWork
<1>2. /\ inv'.pc \in {"quarantine", "fetch"} /\ inv'.scope = inv.scope /\ inv'.d = inv.d
      /\ inv'.todo = inv.todo /\ inv'.attempt = inv.attempt /\ inv'.cites = inv.cites
      /\ inv'.pc = "quarantine" => Key \in quarantined'
  <2>1. CASE WrongSubject
    BY <1>1, <2>1 DEF WrongSubject, Domain
  <2>2. CASE \E n \in 0..MaxClaims : Claims(n)
    BY <2>2 DEF Claims
  <2> QED
    BY <2>1, <2>2
<1>3. UNCHANGED <<runs, reused>> /\ quarantined \subseteq quarantined'
  BY DEF WrongSubject, Claims
<1>4. RunsKept
  BY <1>3 DEF RunsKept
<1>5. KeyOf(inv') = Key /\ KeyOf(inv) = Key
  BY <1>2 DEF KeyOf, Key
<1> QED
  BY <1>1, <1>2, <1>3, <1>4, <1>5 DEF TraceInv, Named, Past, AtWork

\* After a call that succeeded: a new attempt, the row on its way, or neither.
LEMMA SucceedTraces ==
    ASSUME Good, TraceInv, inv.pc \in AtWork \ {"attempt"}, runs' = Succeeded,
           UNCHANGED <<quarantined, reused>>,
           \/ inv'.pc = "domain" /\ inv'.scope = inv.scope /\ inv'.todo = inv.todo
           \/ /\ inv'.pc = "write" /\ inv'.scope = inv.scope /\ inv'.todo = inv.todo
              /\ inv'.out.run = Key
              /\ inv'.out.reason = "OUT_OF_PERIMETER" => Key \in quarantined
           \/ \E best, parsed, used : Again(best, parsed, used)
    PROVE  RunsKept /\ Named(runs', reused', quarantined', inv')
<1>1. /\ RunsKept /\ Key \in Keys /\ runs'[Key] = "SUCCEEDED"
      /\ \A k \in Keys : k # Key => runs'[k] = runs[k]
  BY SucceededKeeps
<1>2. inv.d \notin inv.todo /\ Key[1] = inv.scope /\ Key[2] = inv.d /\ Key[3] = inv.attempt
  BY DEF Good, Shape, Fits, Key, AtWork
<1>3. Cited(runs', reused', Key)
  BY <1>1 DEF Cited
<1>4. ASSUME inv.scope \notin reused, NEW k \in Keys, k[1] = inv.scope, runs'[k] # "absent"
      PROVE  k[2] \notin inv.todo /\ (k[2] = inv.d => k[3] <= inv.attempt)
  <2>0. inv.attempt \in Nat
    BY InvAt DEF Good, AtWork
  <2>1. CASE k = Key
    BY <1>2, <2>0, <2>1
  <2>2. CASE k # Key
    BY <1>1, <1>4, <2>2 DEF TraceInv, Named, Past, AtWork
  <2> QED
    BY <2>1, <2>2
<1>5. CASE inv'.pc = "domain" /\ inv'.scope = inv.scope /\ inv'.todo = inv.todo
  BY <1>1, <1>4, <1>5 DEF Named, Past, AtWork
<1>6. CASE /\ inv'.pc = "write" /\ inv'.scope = inv.scope /\ inv'.todo = inv.todo
           /\ inv'.out.run = Key
           /\ inv'.out.reason = "OUT_OF_PERIMETER" => Key \in quarantined
  BY <1>1, <1>3, <1>4, <1>6 DEF Named, Traced, Past, AtWork
<1>7. ASSUME NEW best, NEW parsed, NEW used, Again(best, parsed, used)
      PROVE  Named(runs', reused', quarantined', inv')
  <2>1. /\ inv'.pc = "attempt" /\ inv'.scope = inv.scope /\ inv'.todo = inv.todo
        /\ inv'.d = inv.d /\ inv'.attempt = inv.attempt + 1 /\ inv'.cites = Key
    BY <1>7 DEF Again
  <2>2. inv.attempt \in Nat
    BY InvAt DEF Good, AtWork
  <2>3. \A k \in Keys : k[3] \in Nat
    BY DEF Keys
  <2>4. ASSUME inv'.scope \notin reused', NEW k \in Keys, k[1] = inv'.scope, runs'[k] # "absent"
        PROVE  Past(inv', k)
    BY <1>4, <2>1, <2>2, <2>3, <2>4 DEF Past, AtWork
  <2> QED
    BY <1>3, <2>1, <2>4 DEF Named, AtWork
<1> QED
  BY <1>1, <1>5, <1>6, <1>7

LEMMA EndTraces ==
    ASSUME Good, TraceInv, NothingFound \/ Quarantined
    PROVE  RunsKept /\ Named(runs', reused', quarantined', inv')
<1>1. /\ inv.pc \in {"call", "quarantine"} /\ runs' = Succeeded
      /\ UNCHANGED <<quarantined, reused>>
  BY DEF NothingFound, Quarantined, Executes
<1>2. CASE NothingFound
  BY <1>1, <1>2, SucceedTraces DEF NothingFound, AtWork
<1>3. CASE Quarantined
  <2>1. /\ inv'.pc = "write" /\ inv'.scope = inv.scope /\ inv'.todo = inv.todo
        /\ inv'.out.run = Key /\ Key \in quarantined
    BY <1>3 DEF Quarantined, Settle, Unknown, TraceInv, Named, KeyOf, Key
  <2> QED
    BY <1>1, <2>1, SucceedTraces DEF AtWork
<1> QED
  BY <1>2, <1>3

LEMMA FetchTraces ==
    ASSUME Good, TraceInv, NEW verified \in 0..MaxClaims, NEW unreachable \in 0..MaxClaims,
           NEW parsed \in BOOLEAN, Fetch(verified, unreachable, parsed)
    PROVE  RunsKept /\ Named(runs', reused', quarantined', inv')
<1>1. inv'.pc = "domain" => inv'.scope = inv.scope /\ inv'.todo = inv.todo
  BY DEF Fetch, Fail, Again
<1> QED
  BY <1>1, Fetched, SucceedTraces DEF AtWork

LEMMA UpsertTraces ==
    ASSUME Good, TraceInv, Upsert
    PROVE  RunsKept /\ Named(runs', reused', quarantined', inv')
<1>1. /\ inv.pc = "write" /\ inv'.pc = "domain" /\ inv'.scope = inv.scope
      /\ inv'.todo = inv.todo /\ UNCHANGED <<runs, quarantined, reused>>
  BY DEF Upsert
<1> QED
  BY <1>1 DEF RunsKept, TraceInv, Named, Past, AtWork

LEMMA TraceStep ==
    ASSUME Good, TraceInv, Next
    PROVE  TraceInv'
<1>1. RunsKept /\ Named(runs', reused', quarantined', inv')
  <2>1. CASE Attempt
    BY <2>1, ConcludeTraces, CreateTraces, GiveUpTraces, StopTraces, AnswerTraces, EndTraces,
       FetchTraces DEF Attempt
  <2>2. CASE Step
    BY <2>1, <2>2, WalkTraces, UpsertTraces DEF Step
  <2> QED
    BY <2>2, SubmitTraces, StopTraces DEF Next
<1>2. ASSUME NEW e \in Domains, rows'[e] # None
      PROVE  Traced(runs', reused', quarantined', rows'[e])
  <2>0. rows[e] # None => Traced(runs', reused', quarantined', rows[e])
    BY <1>1, TracesStay DEF TraceInv
  <2>1. CASE rows' = rows
    BY <1>2, <2>0, <2>1
  <2>2. ASSUME NEW d \in Domains, Exhausted(d)
        PROVE  Traced(runs', reused', quarantined', rows'[e])
    <3>1. rows' = [rows EXCEPT ![d] = Unknown("BUDGET_EXHAUSTED", None, 0, None)]
      BY <2>2 DEF Exhausted, WriteRow
    <3>2. Traced(runs', reused', quarantined', Unknown("BUDGET_EXHAUSTED", None, 0, None))
      BY DEF Traced, Cited, Unknown
    <3> QED
      BY <1>2, <2>0, <3>1, <3>2 DEF Good, TypeOK
  <2>3. CASE Upsert
    <3>1. rows' = [rows EXCEPT ![inv.d] = inv.out]
      BY <2>3 DEF Upsert, WriteRow
    <3>2. Traced(runs', reused', quarantined', inv.out)
      BY <1>1, <2>3, TracesStay DEF Upsert, TraceInv, Named
    <3> QED
      BY <1>2, <2>0, <3>1, <3>2 DEF Good, TypeOK
  <2> QED
    BY <2>1, <2>2, <2>3, TableStep
<1> QED
  BY <1>1, <1>2 DEF TraceInv

\* RowsAreTraceable in every instance: short of a reused scope, public
\* evidence names a run that succeeded and goes on reading so.
THEOREM RowsNameTheirRuns == Spec => []RowsAreTraceable
<1>1. Init => TraceInv
  BY DEF Init, TraceInv, Named, Traced, Cited, ClientRow, Idle, AtWork
<1>2. Good /\ TraceInv /\ [Next]_vars => TraceInv'
  <2>1. ASSUME TraceInv, UNCHANGED vars PROVE TraceInv'
    BY <2>1 DEF TraceInv, vars
  <2> QED
    BY <2>1, TraceStep
<1>3. TraceInv => RowsAreTraceable
  BY DEF TraceInv, Traced, Cited, RowsAreTraceable
<1> QED
  BY <1>1, <1>2, <1>3, GoodInvariant, PTL DEF Spec

----------------------------------------------------------------------------
(* The promise. *)

\* The domains an invocation may still settle.
Open(i) ==
    IF i = Idle THEN {} ELSE IF i.pc = "domain" THEN i.todo ELSE i.todo \cup {i.d}

LEMMA OpenAt ==
    ASSUME Good
    PROVE  /\ inv = Idle => Open(inv) = {}
           /\ inv.pc = "domain" => Open(inv) = inv.todo
           /\ inv.pc \in AtWork \cup {"write"} => Open(inv) = inv.todo \cup {inv.d}
           /\ inv'.pc = "domain" => Open(inv') = inv'.todo
           /\ inv'.pc \in AtWork \cup {"write"} => Open(inv') = inv'.todo \cup {inv'.d}
BY DEF Open, Idle, AtWork

\* An attempt leaves the table alone and takes on no domain.
LEMMA AttemptLeaves ==
    ASSUME Good, Attempt
    PROVE  /\ rows' = rows
           /\ inv' = Idle \/ /\ inv'.pc \in {"domain"} \cup AtWork \cup {"write"}
                             /\ inv'.todo = inv.todo
                             /\ inv'.pc # "domain" => inv'.d = inv.d
           /\ inv.pc \in AtWork
<1>1. ASSUME OutOfAttempts \/ OutOfBudget
      PROVE  /\ rows' = rows /\ inv.pc \in AtWork
             /\ inv'.pc = "write" /\ inv'.todo = inv.todo /\ inv'.d = inv.d
  BY <1>1 DEF OutOfAttempts, OutOfBudget, Settle, AtWork
<1>2. ASSUME ModeRefused \/ CallFails
      PROVE  /\ rows' = rows /\ inv.pc \in AtWork
             /\ inv'.pc = "domain" /\ inv'.todo = inv.todo
  BY <1>2 DEF ModeRefused, CallFails, Fail, AtWork
<1>3. ASSUME CreateRun \/ WrongSubject
      PROVE  /\ rows' = rows /\ inv.pc \in AtWork /\ inv'.pc \in AtWork
             /\ inv'.todo = inv.todo /\ inv'.d = inv.d
  <2>1. inv.pc \in {"attempt", "call"} /\ inv \in Domain
    BY <1>3, InvAt DEF CreateRun, WrongSubject, Executes, Good, AtWork
  <2> QED
    BY <1>3, <2>1 DEF CreateRun, WrongSubject, Domain, AtWork
<1>4. ASSUME CallRaises
      PROVE  rows' = rows /\ inv.pc \in AtWork /\ inv' = Idle
  BY <1>4 DEF CallRaises, AtWork
<1>5. ASSUME NothingFound \/ \E n \in 0..MaxClaims : Claims(n)
      PROVE  /\ rows' = rows /\ inv.pc \in AtWork /\ inv'.pc \in AtWork
             /\ inv'.todo = inv.todo /\ inv'.d = inv.d
  BY <1>5 DEF NothingFound, Claims, Executes, Again, AtWork
<1>6. ASSUME Quarantined
      PROVE  /\ rows' = rows /\ inv.pc \in AtWork
             /\ inv'.pc = "write" /\ inv'.todo = inv.todo /\ inv'.d = inv.d
  BY <1>6 DEF Quarantined, Settle, AtWork
<1>7. ASSUME NEW verified \in 0..MaxClaims, NEW unreachable \in 0..MaxClaims,
             NEW parsed \in BOOLEAN, Fetch(verified, unreachable, parsed)
      PROVE  /\ rows' = rows /\ inv.pc \in AtWork
             /\ inv'.pc \in {"domain"} \cup AtWork \cup {"write"} /\ inv'.todo = inv.todo
             /\ inv'.pc # "domain" => inv'.d = inv.d
  <2>1. rows' = rows /\ inv.pc \in AtWork
    BY <1>7 DEF Fetch, AtWork
  <2>2. ASSUME NEW used, Fail(used) PROVE inv'.pc = "domain" /\ inv'.todo = inv.todo
    BY <2>2 DEF Fail
  <2>3. ASSUME NEW best, NEW p, NEW used, Again(best, p, used)
        PROVE  inv'.pc = "attempt" /\ inv'.todo = inv.todo /\ inv'.d = inv.d
    BY <2>3 DEF Again
  <2>4. inv'.pc = "domain" => inv'.todo = inv.todo
    BY <1>7 DEF Fetch, Fail, Again
  <2> QED
    BY <1>7, <2>1, <2>3, <2>4, Fetched DEF AtWork
<1> QED
  BY <1>1, <1>2, <1>3, <1>4, <1>5, <1>6, <1>7 DEF Attempt, AtWork

LEMMA PromiseStep ==
    ASSUME Good, Next
    PROVE  \/ Open(inv') = Open(inv) /\ rows' = rows
           \/ /\ Open(inv) = {} /\ rows' = rows
              /\ Open(inv') \in SUBSET {d \in Domains : ~Promise!Client(rows[d])}
           \/ Open(inv') \in SUBSET Open(inv) /\ rows' = rows
           \/ \E d \in Domains : \E row \in Rows :
                 /\ d \in Open(inv) /\ Open(inv') = Open(inv) \ {d}
                 /\ rows' = [rows EXCEPT ![d] = row] /\ Finding(row)
<1>1. ASSUME NEW scope \in Scopes, NEW overwrite \in BOOLEAN, Submit(scope, overwrite)
      PROVE  /\ Open(inv) = {} /\ rows' = rows
             /\ Open(inv') \in SUBSET {d \in Domains : ~Promise!Client(rows[d])}
  <2>1. /\ inv = Idle /\ inv'.pc = "domain" /\ inv'.todo = Targets(overwrite) /\ rows' = rows
    BY <1>1 DEF Submit
  <2> QED
    BY <2>1, OpenAt DEF Targets, Promise!Client
<1>2. CASE Finish \/ Crash
  BY <1>2 DEF Finish, Crash, Open
<1>3. ASSUME NEW d \in Domains, Begin(d) PROVE Open(inv') = Open(inv) /\ rows' = rows
  <2>1. /\ inv.pc = "domain" /\ d \in inv.todo /\ inv'.pc = "attempt"
        /\ inv'.todo = inv.todo \ {d} /\ inv'.d = d /\ rows' = rows
    BY <1>3 DEF Begin, First
  <2> QED
    BY <2>1, OpenAt DEF AtWork
<1>4. CASE Attempt
  BY <1>4, AttemptLeaves, OpenAt DEF Open
<1>5. ASSUME NEW d \in Domains, Exhausted(d)
      PROVE  \E row \in Rows : /\ d \in Open(inv) /\ Open(inv') = Open(inv) \ {d}
                              /\ rows' = [rows EXCEPT ![d] = row] /\ Finding(row)
  <2>1. /\ inv.pc = "domain" /\ d \in inv.todo /\ inv'.pc = "domain"
        /\ inv'.todo = inv.todo \ {d}
        /\ rows' = [rows EXCEPT ![d] = Unknown("BUDGET_EXHAUSTED", None, 0, None)]
    BY <1>5 DEF Exhausted, First, WriteRow
  <2>2. Finding(Unknown("BUDGET_EXHAUSTED", None, 0, None))
    BY UnknownFinding DEF Reasons
  <2> QED
    BY <2>1, <2>2, OpenAt DEF Finding
<1>6. ASSUME Upsert
      PROVE  \E d \in Domains : \E row \in Rows :
                /\ d \in Open(inv) /\ Open(inv') = Open(inv) \ {d}
                /\ rows' = [rows EXCEPT ![d] = row] /\ Finding(row)
  <2>1. /\ inv.pc = "write" /\ inv'.pc = "domain" /\ inv'.todo = inv.todo
        /\ rows' = [rows EXCEPT ![inv.d] = inv.out]
    BY <1>6 DEF Upsert, WriteRow
  <2>2. inv.d \in Domains /\ inv.d \notin inv.todo /\ Finding(inv.out)
    BY <2>1, InvAt DEF Good, Shape, Fits, AtWork
  <2> QED
    BY <2>1, <2>2, OpenAt DEF Finding
<1> QED
  BY <1>1, <1>2, <1>3, <1>4, <1>5, <1>6 DEF Next, Step

\* ResearchRun implements ResearchPromise, in every instance.
THEOREM PromiseKept == Spec => WalkKeepsPromise
<1>1. Init => Promise!Init
  <2> SUFFICES ASSUME Init PROVE Promise!Init
    OBVIOUS
  <2>1. ClientRow \in Rows
    BY DEF ClientRow, Rows, Reasons
  <2> QED
    BY <2>1 DEF Init, Promise!Init
<1>2. Good /\ [Next]_vars => [Promise!Next]_<<rows, Open(inv)>>
  <2>1. ASSUME UNCHANGED vars PROVE UNCHANGED <<rows, Open(inv)>>
    BY <2>1 DEF vars, Open
  <2>2. ASSUME Good, Next PROVE [Promise!Next]_<<rows, Open(inv)>>
    <3>1. CASE Open(inv') = Open(inv) /\ rows' = rows
      BY <3>1 DEF Open
    <3>2. ASSUME Open(inv) = {}, rows' = rows,
                 Open(inv') \in SUBSET {d \in Domains : ~Promise!Client(rows[d])}
          PROVE  Promise!Next
      BY <3>2 DEF Promise!Next, Promise!Start, Open
    <3>3. ASSUME Open(inv') \in SUBSET Open(inv), rows' = rows
          PROVE  Promise!Next
      BY <3>3 DEF Promise!Next, Promise!Leave, Open
    <3>4. ASSUME NEW d \in Domains, NEW row \in Rows, d \in Open(inv),
                 Open(inv') = Open(inv) \ {d}, rows' = [rows EXCEPT ![d] = row], Finding(row)
          PROVE  Promise!Next
      <4>1. rows'[d] = row
        BY <2>2, <3>4 DEF Good, TypeOK
      <4>2. Promise!Settle(d)
        BY <3>4, <4>1 DEF Promise!Settle, Finding, Open
      <4> QED
        BY <4>2 DEF Promise!Next
    <3> QED
      BY <2>2, <3>1, <3>2, <3>3, <3>4, PromiseStep
  <2> QED
    BY <2>1, <2>2
<1>3. [Promise!Next]_<<rows, Open(inv)>> =>
         [Promise!Next]_<<rows, IF inv = Idle THEN {}
            ELSE IF inv.pc = "domain" THEN inv.todo ELSE inv.todo \cup {inv.d}>>
  BY DEF Open
<1> QED
  BY <1>1, <1>2, <1>3, GoodInvariant, PTL DEF Spec, WalkKeepsPromise, Promise!Spec
=============================================================================
