# A verification of the B2B network-cost workbench

This directory holds TLA+ models of the workbench under `src/`, the TLC
configurations that check them on small instances, and TLAPS proofs of their
most important theorems for every instance. Paths below are relative to
`src/api_service/app/` unless they start with `src/`.

## 1. The system

The workbench estimates what an enterprise pays for its wide-area network. An
analyst opens a *case*, confirms which legal entity it is about, registers what
is already known, passes a pre-flight gate, runs a seeded Monte-Carlo simulation
of the estate, prices it, asks LLM agents for research, corroboration and
recommendations, and advances the engagement from V0 to V2. It is one FastAPI
process with a PostgreSQL database. Handlers run on a pool of request threads,
simulations on daemon threads of the same process. There are no queues between
components and no other workers: everything shared is a database row, except
the in-process set of running jobs.

### 1.1 Components

| Component | State | Operations | What is hard | What makes it correct |
|---|---|---|---|---|
| Simulation job runner (`jobs.py`, `main.py`, the `simulations:run`, `:cancel`, `:resume` routes) | `simulation_run` rows; `_inflight`, one lock; threads | admit, submit, run_job with checkpoints, cancel, resume, drain, reclaim | request threads, workers and start-up all call `submit`; rows are read in one statement and written in another; crashes between passes | bounded and exclusive workers; a resumed run equals an uninterrupted one; nothing accepted is forgotten |
| LLM gateway (`llm/gateway.py`, `llm/registry.py`) | `agent_run`, `llm_run` rows | create (with idempotency key), execute, judge, retry, fail, succeed | two requests with one key; transport retries inside judged attempts; a replayed response; a handler that stops half-way | no result without a recorded, accepted reply; bounded spend; every run ends |
| Provider adapters, quality gate, prompts (`llm/providers/`, `llm/quality.py`, `llm/prompts.py`) | none | one HTTP call, one parse, one verdict | errors that fit neither of the gateway's categories | every outcome is handled by the gateway |
| Confirmed entity (`domain/entity_resolution.py`) | candidate rows; the entity fields and `perimeter_version` of the case row | propose, profile, confirm | two confirmations at once; a case edited while it is confirmed | a confirmation describes the case it was given for |
| Known facts (`domain/known_facts.py`) | `known_fact` rows with rights and corroboration state; `known_fact_conflict` rows | register, clear rights, corroborate, resolve, name as the source of a count | a provider call between reading the fact and writing its state | a fact is not used uncleared, and a count credited to it is its count |
| Pre-flight (`domain/preflight.py`) | `preflight_report` rows | run, acknowledge, assert_clear_to_run | the conditions and the digest of their inputs are read in different statements; the gate is checked before the row is read again | no run on inputs the accepted report did not see |
| Stages (`domain/stage.py`) | stage of the case, `stage_readiness_report` rows | assess, acknowledge, advance | advance relies on an older assessment | no advance past a blocking condition |
| Coverage and dispositions (`domain/coverage.py`, `domain/dispositions.py`) | `domain_disposition` rows | manual save, research, mapping of an answer | three writers that look for a row first and write it later | one row per domain, its evidence is of its claim |
| Questionnaire (`domain/questionnaire.py`) | `questionnaire_item` rows | create, prefill, answer, map, resolve | an answer replaced while it is mapped | public evidence gives way to an answer only by a person |
| Research (`domain/research.py`, `research_briefs.py`, `industry_asks.py`) | disposition, quarantine and agent-run rows; budgets in memory | research some domains under three nested budgets | failure of a call, of a fetch, of the process, with the budget half spent | budgets hold; a failure is not a finding; a row names the run behind it |
| Promotion and price review (`domain/promotion.py`, `src/tools/approve_prices.py`) | `unit_cost_prior`, `evidenced_footprint` rows | promote, approve, revoke, hold, reopen, refresh the comparisons, apply a register | decisions and verdicts share one column; promotion deletes and re-inserts | what prices circuits is what a person looked at |
| Estimates (the `estimates:run` route, `domain/savings_advisory.py`, `domain/case_admin.py`) | `estimate_snapshot`, `recommendation` rows | publish, recommend, approve, narrate, remove the case | everything is read long before it is written | only publications in flight together break the lineage; a credited count is the fact's; final text was approved |
| Migrations and seed (`migrations.py`, `seed.py`, `main.py`) | the schema, its stamp and the reference rows | 71 steps, create_all, repair, verify, stamp, seed | a process that dies between two steps; two processes at once; a database of another build | a stamp is earned; a serving process finds what it needs |
| Reconciliation, assumptions, validation, calibration, case rates, benchmark ingest, exports | one table each | one row per request | see section 5 | not modelled; see section 6 |
| Simulation engine, footprint, cost engine, confidence, policy, industries, catalogue | none or reference rows | arithmetic and lookups | rounding | not modelled; see section 6 |
| UI (`src/analyst_ui`), tools, samples | none | HTTP calls, scripts | | not modelled |

`PROJECT.json` lists them one by one with their status.

### 1.2 How they interact

* The three simulation routes and the start-up hook call `jobs.submit`; a
  finishing worker calls it too, from its drain. The rows are the only thing a
  restart keeps.
* Every agent (advisory, corroboration, entity resolution, research, prefill,
  benchmark extraction, estimate questions) is a request handler that calls
  `gateway.create_agent_run`, `structured_call` and `succeed` or `fail`, and
  stores its result in its own table before or after `succeed`.
* `simulations:run` and `estimates:run` pass the pre-flight gate first; the
  pre-flight reads the case row, the entity confirmation and the known facts.
* Research, the questionnaire and the manual save write the disposition rows
  that the stage gate and the coverage test of an estimate read.
* Research findings become counts and prices by promotion; an estimate reads
  the approved prices, a finished simulation and the known facts, and the
  recommendation is built on the estimate.
* Start-up upgrades the schema, seeds, verifies and reclaims before it serves.

## 2. Modules

Each component has a module `X`, its properties in `XProps`, theorems in
`XProofs` where there are any, and `MCX` with what TLC alone needs (request
budgets, symmetry).

| Module | What it is |
|---|---|
| `SimJobs` | the job runner: rows, `_inflight`, every thread and its locals, crashes and restarts |
| `SimRunPromise` | the abstract specification of a simulation run: passes grow, a result appears once |
| `AgentRun` | the gateway, the provider and the handlers around it |
| `CaseGate` | the case row, entity confirmation, known facts, pre-flight reports and the start of a run |
| `StageGate` | the questionnaire, the disposition rows with all their writers, and the stage gate that reads them |
| `ResearchRun` | one research invocation after another: domains, attempts, budgets, agent runs, the row a domain ends in |
| `ResearchPromise` | the abstract specification of an invocation of research |
| `PriceReview` | promotion of findings, the stewards' decisions and the register that applies them |
| `SchemaUpgrade` | migrations, repair, stamp, verification and seed of a starting process |
| `EstimateRecord` | known facts as sources, estimates, recommendations, narratives and the removal of a case |

How they fit: `StageGate` composes the questionnaire, the manual save, research
and the stage gate over the one table they share; what a domain's research does
before it writes is `ResearchRun`. `CaseGate` composes the case row,
confirmation, known facts and pre-flight. `EstimateRecord` composes known facts,
estimates, advice and removal; it takes the refusals of the pre-flight gate and
of coverage as nondeterministic. A handler that calls a provider is a step of
`AgentRun` wherever it is not the subject.

### 2.1 SimJobs and the code

`status`, `cancelReq`, `partial` and `output` are the columns of
`simulation_run` that `jobs.py` reads and writes; `created` stands for the
insertion order that `created_at` gives. `inflight` is `jobs._inflight`. A
thread is a program counter `pc[p]` and the locals it keeps between two
database statements: `run`, `sums` (`summaries`), `next` (`i`), `snap` (the
rows a drain or reclaim has fetched) and `prev` (`resume`'s `previous`).

A step is one committed statement, one query, or one critical section of
`_lock`: `_set` commits at once, so nothing a thread does between two of these
is visible to another. What one Python function does in several statements is
several actions, in the order of the code:

* `POST simulations:run`: `Admit`, `InsertRun`, then submit;
* `cancel`: `CancelFetch`, `CancelSet`; `resume`: `ResumeFetch`, `ResumeSet`,
  submit, and `ResumeUndo` when submit raised;
* `submit`: `SubmitInFlight`, `SubmitBusy` or `SubmitReserve` (one critical
  section), then `Spawn` or `SpawnRaises`;
* `run_job`: `Load`, `Start`, then per pass `SeeCancel` or `Pass` and possibly
  `Checkpoint`, finally `SettleCancelled`, `Succeed`, or `JobRaises` with
  `RecordFailure` or `FailureUnrecorded`; `Release` is `_worker`'s `finally`;
* `_drain`: `DrainCheck`, `DrainScan`, `DrainPick` or `DrainRaises`, submit;
* `reclaim_interrupted`: `ReclaimScan`, `ReclaimNext` and submit per row,
  `ReclaimDone`; requests are served afterwards (`Serving`), as the lifespan
  hook has it.

A pass is represented by its index. The code derives the seed of a pass from
the run's seed and that index alone, so "the same result as an uninterrupted
run" is "the indices 0 .. n-1 in order" (`PassesUpTo`). A crash sends every
thread to its resting place, empties `inflight` and the locals and keeps the
rows.

### 2.2 AgentRun and the code

`status`, `agent`, `mode`, `key` are columns of `agent_run`; `llm[r]` is the set of
`llm_run` rows of run `r`; `published` is what handlers stored or returned,
with the label that says whose result it is. `h[c]` is one request handler: its
place and its locals. `issued` numbers the responses of the provider, so a
replayed one is recognisable.

`LookupKey`, `InsertRun` and `InsertConflict` are `create_agent_run`.
`EnterExecute`, the four `Call*` outcomes, `ExecuteFails` and `RecordReply` are
`execute`; `ReopenForRetry` and the three `Judge*` actions with `GiveUp` are
`structured_call`; `SucceedReads`, `SucceedRefuses` and `SucceedWrites` are
`succeed`. The handlers around them are kept as four styles that differ in the
exceptions they catch and in whether they store before, after or without
`succeed` (the module's header lists them).

A reply is one of four answers (good, weak, off-topic, truncated), which are
what `structured_call` distinguishes: accepted, rejected and worth another
attempt, rejected for a terminal reason, cut at the token limit. Text is
abstracted away. The provider is external: it may answer anything, cut the
connection, fail, or hand back a response it gave before.

### 2.3 CaseGate and the code

`case` is the row of `engagement_case`: `name` stands for the four fields a
confirmation locks (`subject_entity_legal_name`, `entity_identifier`,
`country_of_domicile`, `group_perimeter`, with `excluded_entities`), `resolved`
for `resolved_entity_id` and `entity_confirmed_by`, which only `confirm` writes
and together, `intake` for the other fields that a condition and the digest
read. `facts` holds the rights of each `known_fact` row (`free` for a fact that
needs no clearance), `reports` the `preflight_report` rows in `created_at`
order, `runs` what each simulation or estimate was started on: the report that
cleared it, the inputs the gate checked and the row the route then read.

A step is one SQL statement with its commit, so two requests interleave as they
do under READ COMMITTED:

* `PUT cases/{id}`: `UpdateReads` (the lock), `UpdateWrites`;
* `:confirm-entity`: `ConfirmReads` (the version), `ConfirmWrites`;
* `preflight.run`: `RunReadsCase`, `RunReadsConfirmed`, `RunReadsFacts` for the
  conditions, `DigestReadsCase`, `DigestReadsFacts` for the digest,
  `InsertReport`; `acknowledge` is one statement;
* `known_facts.register` and `clear_rights` are one statement each;
* `assert_clear_to_run`: `GateReadsReport`, `GateReadsCase`, `GateReadsFacts`;
  then the route reads the case row again (`Launch`).

The digest is a hash of its inputs and is modelled by the inputs themselves;
reports from before there was one are not modelled.
Priced countries and corroboration states, which the digest also covers, are
left out: no BLOCK depends on them. Provider availability is a nondeterministic
BLOCK of a report. `raced` is a history variable: a confirmation fell between
the read and the write of another edit or confirmation. `left` counts the
requests still to come.

### 2.4 StageGate and the code

`rows` are the `domain_disposition` rows of each domain, a sequence because
nothing but the order of the requests keeps it at one; `items` the
`questionnaire_item` rows, `reports` the `stage_readiness_report` rows in the
order of `created_at`, `h[c]` a handler with what it read. One domain has one
question.

* `POST questionnaire`: `CreateReads`, `CreateInserts` per question; `:prefill`:
  `PrefillReads`, `PrefillProposes`; `:answer`: `Answer`;
* `:map`: `MapReads`, then per item `MapJudges` (`JudgedAs`), `MapFinds` (the
  look-up of the upsert), `MapWrites`; `:resolve-mapping`: `ResolveReads`,
  `ResolveFinds`, `ResolveWrites`;
* `PUT domain-dispositions`: `PutReads`, `PutWrites` (`Clears` decides about the
  evidence columns);
* `POST domain-research`: `ResearchReads` (`Targets`), then per domain
  `ResearchFails` or `ResearchFinds`, `UpsertReads`, `UpsertWrites`;
* `stage:assess`: one action per table it reads and `AssessInserts`;
  `Acknowledge`; `stage:advance`: `AdvanceReadsCase`, `AdvanceReadsReport`,
  `AdvanceWrites`. `Ends` is the end of a loop or of a handler that died.

`raced` is a history variable: a domain's rows changed between the read on
which a handler decided and its write.

### 2.5 ResearchRun and the code

`inv` is the invocation at work, a place and the locals of
`run_domain_research` and `_research_one_domain`: `spent` (captures of the run),
`used` (of the domain), `best`, `parsed` and `cites` (the attempt that verified
most). `runs` is the status of the agent run of each idempotency key, which is
scope, domain and attempt. `Submit` fixes the target domains; `Exhausted`,
`Begin`, `OutOfAttempts` and `OutOfBudget` are the loop heads; `CreateRun`,
`ModeRefused`, `CallFails`, `CallRaises`, `NothingFound`, `WrongSubject`,
`Quarantined` and `Claims` the outcomes of an attempt; `Fetch` takes the
captures and grades what was verified; `Upsert` writes the row; `Finish` and
`Crash` end. A page is counted, not read: which claims verify is a
nondeterministic choice within the counts the code allows. A grade is RELIABLE
or UNRELIABLE.

### 2.6 PriceReview and the code

`card` is the `unit_cost_prior` row of each researched price: its base, the
figure its band was computed about and the band's width, approval, and the last
mark in `source_note` (`Decision` reads it as `decision_on` does). `estate` is
the set of promoted rows of each country and archetype: the table has a uuid for
a key and nothing that keeps a pair to one row. `Promote`, `StandingDecision` per
price, `ReplacesCount` per pair and `PromoteCommits` are `promote`, with `Winner`
for `_one_row_per_pair` and the conflict gate after it. The delete of
`ReplacesCount` finds the rows committed when it runs (`gone`); delete and insert
take effect at the commit; `RefreshReads` and
`RefreshWrites` are `refresh_comparisons`, which every promotion runs last;
`Retract` the withdrawal of future-dated counts. `Register`, `HoldUnnamed` and
`Decide` are the tool's register and the decision about one row;
`OperationReads` and `OperationWrites` the four operations, each of which reads
the row again. `looked`, `raced` and `offered` are history.

### 2.7 SchemaUpgrade and the code

`db` is the database: tables, columns missing, rows a step still has to convert,
the stamp. Steps 2 to 71 are told apart by what each adds (`Columns`,
`NewTables`) and what it does to rows (`WithTheColumn`, `WithTheTable` and the
operators `Renamed`, `Released`, `Guarded`, `Atlas`, `Converted`, `Altered`).
`Start` is `_detect` and the refusals of `ensure`; `Migrate` one step with its
stamp in one transaction; then `CreateAll`, `RepairMissingColumns`, `Stamp`,
`VerifyModelMatchesDatabase`, `SeedAtStart`. `SeedByHand` is `make seed`. A
process dies between any two; `Edit` is a person who changes a reference row.

`ref` is a row of each kind that a step or the seed treats differently. Two of
them have, on a database from before step 17, the form that step deletes
(`Retiring`): a price with the id of that time and no bandwidth, and an
archetype that names BROADBAND. Rows that the service has written since then
carry a bandwidth or the suffix `-researched`, so a later run of step 17 passes
them by.

`Newer` are processes of the next build. They run the steps of this one and one
more, whose own effect is left out, as is what they do after the last stamp; it
is assumed to add only. They refuse and stamp by their own version (`Expects`).
`behind` is history: the processes of this build that were at work when a newer
stamp was written, as long as that stamp stands (`Overtaken`).

### 2.8 EstimateRecord and the code

`facts`, `conflicts`, `sims`, `snapshots` and `advice` are the tables, `h[c]` a
handler. `Ask`, `Anchor` or `Simulation` with `Source` and `Raise`, `Lineage` and
`Publish` are the two methods of `estimates:run`; `Corroborate` and
`CorroborateWrites` are on either side of the provider call; `Recommend`,
`RecommendWrites`, `Approve`, `Narrate`, `NarrateWrites` are the advisory;
`Delete` and `DeleteCommits` the removal. Figures are left out: an estimate is
its method, its sources, its origin label and what it supersedes.

## 3. The runs

A run that is not said to use `FairSpec` is on the `Spec` of its module. All
state spaces are explored whole; none uses a CONSTRAINT. Constants that only
bound the model (`MaxRuns`, `MaxRequests`, `MaxIssued`, `Budget` and the like)
are marked as bounds where they are declared; the proofs of section 4 hold for
every value of them.

### 3.1 Job runner

| Run | Instance | What it shows |
|---|---|---|
| `jobs_safety` | `FairSpec`; 1 request thread, 2 worker threads, 1 slot, 2 runs of 2 passes, checkpoint every pass, 1 cancel or resume, 2 faults of any of four kinds (a raising pass, a failing write, a thread that does not start, a crash) | types; `Reproducible`; `SimJobs` implements `SimRunPromise`; every accepted run ends |
| `jobs_workers` | 4 runs, 2 slots, 3 worker threads, 2 request threads, backlog bound 1, 1 fault | the slots bound the workers; no run has two workers; `NothingStranded`; what exceeds the advisory backlog bound is accounted for |

Two runs and one slot are what it takes for a run to wait and be found by
another's drain; two passes let a cancelled run resume in the middle and a crash
fall between a pass and its checkpoint; two faults let a failing write follow a
failing pass, and a crash follow either. Two slots, which the duplicate test of
`submit` needs to matter, and two requests at once are in `jobs_workers`. Its
fourth run is what it takes to see a failed run come back through a stale drain
above the bound that racing requests alone would explain (section 5); with
three, the excess is never more than one. Two requests at once with a cancel or
a resume among them are left to the proofs of section 4. `AcceptedRunsFinish` is
claimed up to the leak of section 5: a run whose thread did not start is left
out until a restart.

### 3.2 Gateway

Both have two judged attempts with one transport retry each, as many as are
needed to see a retry inside a second attempt, and two requests, as many as a
shared key or a replayed response needs. The code's defaults are larger; the
loops do not depend on them.

| Run | Instance | What it shows |
|---|---|---|
| `agent_safety` | 2 handlers of every kind and mode, one possible key, 2 responses and their replays, a crash | `PublishedPassedTheGate`; `EvidenceUsedOnce`; `LiveSuccessHasProof`; `SameKeySameRun`; `SpendBounded`; `Settled` |
| `agent_live` | `FairSpec`, 2 corroborate or collect handlers | `RequestsEnd` |

### 3.3 Case gate

Two request threads, two identities, a complete and an incomplete intake, one
known fact; one save, two confirmations, two readiness checks and one run, with
facts registered and cleared and reports acknowledged at any moment.

`case_safety` shows `GateSound`, `RunsWereApproved`, `ConfirmationDescribesCase`
and `PerimeterChangesAreVersioned`. Two readiness checks are needed for a report
that supersedes an acknowledged one; two confirmations for a change of perimeter
and for two confirmations at once; two threads because every race of this code
is between two requests.

`case_torn` is a disagreement: a fact registered while a readiness check runs
is in the digest but not in the conditions, so an acknowledged report lets a run
start with the fact's rights uncleared. `GateSound` states what holds without
that race: it is about reports that are `Whole`. `ConfirmationDescribesCase` and
`PerimeterChangesAreVersioned` leave out the two lost updates of section 5
through `raced`, and cover every other order.

### 3.4 Stage gate

`stage_safety`: two threads, one domain, two different answers, and six requests
out of: create, prefill, two answers, map, resolve, a save, research, assess,
advance, corroborate. `AdvancedOnComplete` is the property a reader of
`stage.advance` has to take on trust: it re-checks nothing, so everything the
assessment saw must be impossible to take back. `EvidenceBacksClaim`,
`OnlyAPersonUnconfirms` and `MappingKeepsPublicEvidence` are about what one
writer may do to another's row. One domain is enough for them, because no
writer reads one domain to write another; six requests hold the longest
sequence a property is about (create, answer, map, research or save, assess,
advance). Section 4 has them for any number.

### 3.5 Research

`research_safety`: `FairSpec`; two domains, two attempts each, captures of at
most two per domain and three per run, two sources for a finding, replies that
claim up to two, two invocations under two scopes that may be the same.
`WithinBudgets`, `RowsAreTraceable`, `RunsSettle`, `FailureWritesNothing`,
`InvocationsEnd`, and `WalkKeepsPromise`: the walk implements `ResearchPromise`. The
budgets are chosen so that the run's is reached in the second domain, and a
domain's in its first attempt or in its second.

### 3.6 Price review

`price_safety`: two processes, one price, two figures (two currencies), one
country and archetype with a disputed and a clean count; three promotions, one
line of a register and one row named by hand. `ApprovedWasSeen`,
`NothingUsableLost`, `DecisionsStand`. Two figures are needed for a promotion to
change what was approved; a larger disputed count beside a smaller clean one for
a winner the conflict gate then refuses; a third promotion for one that deletes
what two overlapping ones left.

### 3.7 Schema upgrade

`schema_safety`: a service and an operator of this build and a process of the
next one, databases left by builds 1, 8, 16, 43, 60, 71 and by the next build,
72, with and without a stamp, with duplicate identifiers, refused snapshots and
an unconverted atlas. Processes start, or seed by hand, three times in all; on an
empty database, or one older than build 43 (`Recent`), where two processes have up
to seventy steps each to interleave, twice.
`StampIsEarned`, `ServesWhole`, `NewerIsUntouched`, `EditsSurviveStart`. The
builds chosen lie on either side of the steps that do more than add a column (3,
9, 17, 31, 66, 71).
The third start is the one after a first died half-way and a second too, or the
one that comes while a process of this build and one of the next are both at work.
A process of this build that goes on under the stamp of the next one, and stamps
a lower one, is among the states reached; `NewerIsUntouched` is about the others,
those that start once the newer stamp is there.

### 3.8 Estimates

`estimate_safety`: two threads, one fact, one simulation, two site counts, five
requests of nine kinds, three estimates. `CreditedSourceHolds`,
`LeftOutOnlyByOverlap`, `FinalMeansApproved`. Three estimates let two supersede
the same one, or one be superseded by neither of two that looked too early; two corroborations and two
narratives let a late answer meet an earlier one.

`published_removed` is a disagreement: an estimate published between the check
and the deletes of a removal goes with the case, although "there is no way past"
the rule that forbids it.

### 3.9 Fairness and deadlock

`SimJobs!Fairness`: a started thread, a request that has been read and the
start-up hook go on (weak fairness of each thread's own steps). Daemon threads
of one process are scheduled by the operating system and hold `_lock` only for
a few statements, never over I/O. Nobody has to send a request and nothing has
to fail. `AgentRun!FairSpec`: each handler goes on, which for a provider call
rests on the transport's timeout: a call returns or raises. `ResearchRun!FairSpec`
is the same of the one invocation at work; a crash ends it too. The others state
safety only and need no fairness: their handlers have no loop that could fail to
end except over finitely many rows.

Deadlock is checked in the `jobs` runs, where `Wait` is the explicit rest. In
the others clients send a bounded number of requests, and when the last is
answered the server has nothing to do.

## 4. The proofs

Every theorem below is checked by TLAPS for any values of the constants that
satisfy the named `ASSUME`s of its module: any number of threads, processes,
domains, facts, keys, attempts and requests. The assumptions say that values
which the code tells apart are different, that `None` is none of them, and that
a configuration value is positive where `config.py` or a `validate` makes it so.

| Module | Theorem | States |
|---|---|---|
| `SimJobsProofs` | `TypeCorrect`, `Inductive` | `[]TypeOK`, `[]IndInv` |
| | `ExclusiveWorkers`, `WorkersBounded` | `[]OneWorkerPerRun`, `[]WorkerBound` |
| | `ResumeReproduces` | `[]Reproducible` |
| | `ProgressKept`, `ResultFinal` | a checkpoint never shrinks, a result never changes |
| | `RunnerKeepsPromise` | `Spec => Promise!Spec` |
| | `NothingIsStranded` | `[]NothingStranded` |
| | `BacklogIsBounded` | `[]OverAdmissionBounded` |
| `AgentRunProofs` | `TypeCorrect` | `[]TypeOK` |
| | `OneRunPerKey` | `[]SameKeySameRun` |
| | `OnlyAcceptedIsPublished`, `NoReplyUsedTwice` | `[]PublishedPassedTheGate`, `[]EvidenceUsedOnce` |
| | `SpendingEnds`, `SuccessIsProven`, `RunsEnd` | `[]SpendBounded`, `[]LiveSuccessHasProof`, `[]Settled` |
| `CaseGateProofs` | `TypeCorrect`, `Inductive` | `[]TypeOK`, `[]GateInv` |
| | `OnlyApprovedRuns`, `GateIsSound` | `[]RunsWereApproved`, `[]GateSound` |
| | `ConfirmationHolds`, `VersionsNamePerimeters` | `[]ConfirmationDescribesCase`, `PerimeterChangesAreVersioned` |
| `StageGateProofs` | `TypeCorrect` | `[]TypeOK` |
| | `NothingIsTakenBack` | no writer takes back what a gate has read |
| | `AdvanceRestsOnComplete` | `[]AdvancedOnComplete` |
| | `OneRow`, `EvidenceIsOfItsClaim` | `[]OneRowPerDomain`, `[]EvidenceBacksClaim` |
| | `AnswersSurviveResearch`, `PublicSurvivesMapping` | `OnlyAPersonUnconfirms`, `MappingKeepsPublicEvidence` |
| `ResearchRunProofs` | `TypeCorrect` | `[]TypeOK` |
| | `BudgetsHold`, `FailuresWriteNothing` | `[]WithinBudgets`, `FailureWritesNothing` |
| | `NoRunLeftOpen`, `RowsNameTheirRuns` | `[]RunsSettle`, `[]RowsAreTraceable` |
| | `PromiseKept` | `Spec => Promise!Spec` |
| `PriceReviewProofs` | `TypeCorrect` | `[]TypeOK` |
| | `UsableIsKept`, `ApprovedIsSeen`, `DecisionsAreKept` | `[]NothingUsableLost`, `[]ApprovedWasSeen`, `DecisionsStand` |
| `EstimateRecordProofs` | `TypeCorrect` | `[]TypeOK` |
| | `CreditIsSound`, `LineageIsComplete`, `FinalIsApproved` | `[]CreditedSourceHolds`, `[]LeftOutOnlyByOverlap`, `[]FinalMeansApproved` |
| `SchemaUpgradeProofs` | `UpgradeTypeCorrect`, `UpgradeInvariant` | `[]TypeOK`, `[]IndInv` |
| | `NothingIsUndone` | no step takes back what another has done to schema or rows |
| | `EveryStampIsEarned`, `ServiceIsWhole` | `[]StampIsEarned`, `[]ServesWhole` |
| | `NewerStaysUntouched`, `EditsAreKept` | `NewerIsUntouched`, `EditsSurviveStart` |

Where the inductive invariants come from:

* **Job runner.** A worker holding fewer passes than its row's checkpoint would
  throw passes away at its next checkpoint. `AheadOfCheckpoint` says that it
  does not; it survives only because no other worker lengthens the checkpoint
  meanwhile, so the invariant also needs `SlotPerHolder`: whoever executes a
  run, or is starting a thread for it, has its slot of `_inflight`, and no two
  have the same. This rests on `submit` testing and reserving in one critical
  section, and on a slot being given back only by the worker that has it. The
  bound on workers is the bound on slots through an injection.

  That nothing is stranded needs somebody responsible for every row that is not
  terminal (`Responsible`): a RUNNING row has a worker that will write how it
  ended, a QUEUED one is awaited by a drain, a submit or a taken slot whose
  worker will drain (`Awaited`), or start-up has not come to it yet
  (`Reclaiming`). Every slot has a holder, and rows in hand exist and are never
  CANCELLING (`RowsInHand`). The backlog bound counts two kinds of run apart
  (`AdmissionInv`): those that a request or a failure touched, no more than there
  were of either, and the rest, which go from QUEUED through RUNNING to SUCCEEDED
  and of which no more count than the admission test lets through. That a set of
  the touched runs exists is the invariant; which set it is, the proof chooses
  at each step.
* **Gateway.** Every theorem needs to tie a handler's place to the rows of its
  run (`Local`). `KeyInv` says that a stored key is on one row and that a row
  without a key has one handler and no other (`Alone`), which is what lets the
  spending and settling arguments talk of one handler. `Evidence` follows a
  reply from its record to its use: it is in one row, one handler may still
  publish it, and once published no handler may. `Records` counts the rows of a
  run without a key against the attempts of its only handler. `SettledInv` says
  that a run not yet ended has a handler that will end it.
* **Case gate.** The gate reads its report once and the case and the facts
  afterwards, so the invariant says of every handler in between that its report
  was approved and still is (`GateHolds`); no statement removes a report or
  takes an acknowledgement back. For a whole report the conditions and the
  digest are one, and the digest is what was checked. A confirmed name can be
  touched only by a save that found no confirmation (`EditsRespectLock`): either
  there is still none, or the history variable records the race.
* **Stage gate.** `Grows` lists what no step takes back: an estimate, a row, an
  answer, a mapping, an acknowledgement, the contents of a report. Under it,
  what a handler in the middle of an assessment has not found open holds from
  then on (`AssessLocal`), so a report without BLOCK is complete for good
  (`GoodReports`) and what `advance` read is still true when it writes
  (`AdvanceLocal`). For the rows, `RowLocal` ties the target of a pending write
  to the rows its handler saw, `Decided` what it decided to what it saw, and
  `RowsChange` says that only such a write changes a row: where the domain is
  not in `raced`, what it saw is what there is.
* **Research.** `Fits` nests the three budgets at every place of the walk.
  `TraceInv` says that the runs of a scope used once belong to domains and
  attempts the walk is past, so nothing marks them again. The refinement maps
  the domains still to do and the one at work to what the promise may settle.
* **Price review.** `Agrees` says of a process about to write that it decided on
  an undecided row, or on the figure its steward named, unless the price is in
  `raced`. `EstateInv` adds to `NothingUsableLost` that a promoted count is not
  one that a retraction takes, and that a promotion which has deleted the rows of
  a pair has deleted all there are, unless another has committed since (`Saw`).
* **Estimates.** `CreditInv` says that a draft on its way is backed as a
  published one is, and that an agreement once reached left its mark, which a
  later verdict does not remove. `LineageInv` says that the ids of a case that
  stays are contiguous, so the greatest one is the last, and that each estimate
  supersedes the last of those its look-up found. `NarrativeInv` carries
  the approval that was read before the agent was asked to the write after it.

* **Schema.** `Earned(n)` says that nothing the steps up to n are for is left to
  do. No step of any process takes it back (`NothingIsUndone`), so it holds of
  what a database is detected as, of what each process has done, and, past the
  steps, of the whole version, whatever the others stamp meanwhile. A step earns
  its own version because a row still to be converted is where the step looks
  for it (`WithinReach`): for the two steps that convert only where they add the
  column, the column leaves the list together with the rows. `SCHEMA_VERSION` is
  the 71 of this build and its steps are the concrete list; processes of both
  builds, starts and the versions found are any. Nothing is of a later step, so
  what has come to the end of this build's steps has earned the next version too
  (`EarnedFrom71`). `NewerIsIdle` says that under a newer stamp whoever of this
  build is at work is in `behind`.

Every invariant and action property that a run checks is stated by a theorem.
Only model-checked: liveness (`AcceptedRunsFinish`, `RequestsEnd`,
`InvocationsEnd`), since fairness and `ENABLED` are beyond this prover. The two
properties of the runs that expect a violation are false and have none.

## 5. Hazards, and what the code does not promise

`PROJECT.json` lists each hazard at the line where it bites, with the properties
that would catch it. Two disagreements have a run of their own, `case_torn` and
`published_removed` (`findings` quotes the lines). What follows was met while
modelling; the models reach it where an action is named. Where a comment or a
test of the repository says otherwise, it is quoted.

**Job runner.**
* A restart drops a cancel that was recorded: nothing writes CANCELLING, the
  only status from which reclaim honours it (`jobs.py:452`), and the second loop
  clears the flag (`jobs.py:461`; `CancelSet`, `Crash`, `ReclaimNext`). The
  docstring: "Honour the request rather than resurrecting a run the user had
  already abandoned" (`jobs.py:430`); `tests/test_wiring.py:148`: "A run someone
  asked to stop must not be resurrected by a restart." The test writes the
  status itself.
* `resume` queues a run again that succeeded after it was fetched (`jobs.py:409`
  against 396; `ResumeFetch`, `Succeed`, `ResumeSet`); it is executed a second
  time, to the same result. `cancel` sets its flag on such a row (387).
* A resume between a worker's cancel check and its CANCELLED write is answered
  "already in flight" and then overwritten (`jobs.py:184`; `SeeCancel`,
  `ResumeSet`, `SubmitInFlight`, `SettleCancelled`).
* When `Thread.start()` raises, the slot of `_inflight` leaks and the run cannot
  be submitted again before a restart (332; `SpawnRaises`). When the write of
  FAILED raises as well, the row stays RUNNING (226; `FailureUnrecorded`). When
  the drain's query raises, waiting runs stay until the next completion (363;
  `DrainRaises`). `_next_waiting` picks from rows read before the busy set, so
  it may pick a run that meanwhile ran and ended (345; `DrainScan`, `DrainPick`):
  a run that FAILED is executed once more, beside whatever was admitted in its
  place. "Admission already happened when each of these runs was accepted" (352),
  but its place in the backlog was given up when it failed, so the bound is
  exceeded by one more for each such run (`OverAdmissionBounded` counts them).

**Gateway.**
* A repeated key turns a SUCCEEDED run into FAILED: `execute` refuses it and the
  handler calls `fail`, which writes without looking (`HandlerFails`). The
  comment: "re-marking an already-FAILED row FAILED is a no-op"
  (`domain/research.py:1268`).
* A DETERMINISTIC_ONLY request with the key of a LIVE run gets that run
  (`llm/gateway.py:113`) and stores a rule's result under it, against "no mode
  change after creation" (21; `EnterExecute` is not reached, `PublishLast`).
* `estimate:explain` never calls `succeed`: every explained question leaves its
  run QUEUED (`routers/api.py:4645`; `ReturnExplanation`), which
  `llm/gateway.py:561` calls "a queue showing work still to do that nothing will
  ever pick up".
* A run stays QUEUED during its provider call, so a repeated key calls the
  provider too, against "duplicate provider spend" (`llm/gateway.py:22`).
* A reply without the emit block is raised by the adapter past the attempt loop:
  no `llm_run` row, no retry, and under an advise handler a run left QUEUED
  (`CallIgnoresTool`, `HandlerPropagates`).
* Nothing reclaims agent runs after a crash, which is why `Settled` is stated
  for a server that never crashed.

**Case gate.**
* A save that tested the lock before a confirmation and writes after it leaves a
  confirmed case with a name nobody confirmed (`UpdateReads`, `ConfirmWrites`,
  `UpdateWrites`; `routers/api.py:846`). Two confirmations that read one
  `perimeter_version` both write its successor, and a slow one may write an
  older version over a newer (`domain/entity_resolution.py:153`).
* `simulations:run` and `estimates:run` read the case row again after the gate:
  what they use may not be what was checked (`GateReadsCase`, `Launch`).
* `country_of_domicile` is a mandatory field of pre-flight but not among the
  `INPUT_FIELDS` of the digest. Confirmation locks the field, so only the first
  race above could fall into the gap.

**Stages, dispositions, questionnaire.**
* An answer given after the mapping replaces the answer and leaves
  `mapping_state` (`domain/questionnaire.py:276`): the stage gate counts it as
  mapped, against "An answer that never reached a disposition changed nothing,
  which is not what 'the questionnaire is complete' implies"
  (`domain/stage.py:191`). `AdvancedOnComplete` therefore says mapped, not mapped
  as answered.
* Research writes over an answer mapped while it was at work
  (`domain/research.py:1656`), against "it cannot happen as a side effect of
  re-running research" (1121). Two writers that find no row both insert one
  (1145). `raced` leaves these orders out of the properties.

**Research.**
* The captures of a failed domain count against the run (1631), although the
  comment at 1416 describes as a fault of the past that "one network fault
  presented as an exhaustive-but-fruitless search".
* A partial find followed by an exhausted budget is stored without a grade, and
  one followed by a failure is dropped with the failed result, against "Nothing
  found is discarded. Everything found is graded." (1504).
* A page that was fetched and does not bear the claim out counts toward the
  minimum of independent sources. The grade at the end of the loop is never the
  highest one.
* A request repeated with its key re-marks the runs its rows cite
  (`RowsAreTraceable` excludes reused scopes).

**Prices.**
* Two promotions of one pair that overlap leave two rows for it: neither delete
  sees the other's insert (`domain/promotion.py:1444`, commit 1608), and nothing
  in `evidenced_footprint` forbids it (`db.py:1393`). The docstrings: "promoting
  the same finding twice replaces rather than duplicates" (1317),
  "evidenced_footprint holds one row per pair" (1228). The estimate takes every
  row (`domain/footprint.py:124`), so the pair is counted twice until another
  promotion of it (`ReplacesCount`, `PromoteCommits`). `NothingUsableLost` says
  that nothing else leaves a second row.
* Revoking keeps the band "so re-approving does not silently re-derive it"
  (`domain/promotion.py:1834`); approving without a band re-derives it (1792).
* An approval made after `_standing_decision` looked is deleted with the row at
  the commit of the promotion (1557), against "Promotion does not write over a
  decided row" (1735). `refresh_comparisons` writes back the note it read (1216),
  and the last mark of a note is the decision.
* `derive_bands` deletes its row and inserts it unapproved
  (`domain/benchmark_ingest.py:319`), decided or not. `reopen_price` has no
  caller outside the tests. Among equally good rows
  `best_priced_rows` takes whichever the database returns first.

**Schema and seed.**
* A forced seed deletes rows ending in `-derived`, and promoted prices that
  predate the column the exception is keyed on: NOT_SEEDED (`seed.py:3202`)
  protects `price_basis` PROMOTED only, and the columns of steps 40 and 42 leave
  NULL where the comment says that existing rows default.
* The docstring of `seed` says that an existing row is left alone "whether or
  not --force is passed" (`seed.py:3244`); with force it is updated.
* A process that detected an old version goes on from there even if another has
  upgraded meanwhile: step 21 then retires briefs that are current and each step
  stamps a lower version, against "every step is idempotent - re-running is a
  no-op" (`migrations.py:23`). `StampIsEarned` shows that no stamp is too high.
* The same holds across builds: `ensure` reads the version once
  (`migrations.py:1813`) and compares it once, so a process of this build that is
  at work while the next build upgrades goes on, and stamps lower versions over
  the newer one (1829, 1863). From then on this build is let in, against "Running
  an older build against a newer schema risks silent data loss" (1818).
  `NewerIsUntouched` and its theorem therefore speak of the processes that start
  while the newer stamp stands, and name those it found at work as the exception.
* Step 17 says that it may delete reference rows "only because every affected row
  is identifiable as seed-written (approved_by/source columns untouched"
  (`migrations.py:533`), but looks at neither column: every price without a
  bandwidth and without the suffix goes (545), and it has just added that column,
  and every archetype that names BROADBAND (561), tuned by a person or not. The
  first start on a database older than that step destroys those edits;
  `EditsSurviveStart` excludes them and shows that nothing else does, apart from
  a seed forced by hand.
* "The version has NOT been stamped" (`migrations.py:1856`) is said after every
  step has stamped its own. Step 66 asks to review rows "before re-running",
  but it is stamped and never runs again. Step 71 is skipped for good on a
  database that has no atlas yet, such as one upgraded from before version 30.

**Estimates, facts, advice.**
* The lineage forks when two requests overlap: both look up the latest estimate
  (`routers/api.py:4561`, called at 4484 and 3800) before either commits, both
  supersede the same one, a third supersedes one of the two, and the other,
  published and valid, is in no lineage (`Lineage`, `Publish`), against "What
  this improves on: the most recent snapshot for the case" (3796).
  `LeftOutOnlyByOverlap` says that nothing else leaves an estimate out. The order
  is that of `created_at`, which is taken at the insert: of two whose
  transactions overlap the model takes the one that commits first as the older.
* Two requests that both find no conflict insert two; answering one leaves the
  other, so "a conflict already answered stays answered" does not hold
  (`domain/known_facts.py:466`; `Raise` twice).
* `anchor_known_fact_id` is refused by every request: the driver `anchor_spend`
  is in no quantity class (`routers/api.py:3659`).
* Pins never hold `simulation_run_id`, which validation looks for
  (`routers/api.py:2240`); calibration looks for `by_layer` in `current_tco`
  (2397), bridge and validation for `base` and `confidence["score"]`, which the
  stored shapes do not have.
* Two validation cases on one estimate pass the test at 2230 together, against
  "One estimate is one case; opening a second would let the more flattering one
  be kept." Two closings of one assumption both pass and the later replaces the
  earlier (2881).
* A draft narrative whose agent is slow replaces a final one
  (`domain/savings_advisory.py:301`). The coverage share behind the evidence
  widening is read apart from the dispositions it describes
  (`routers/api.py:4395`). A fact corroborated again to CONTRADICTED keeps
  `superseded_by`; `CreditedSourceHolds` speaks of the mark, not of the state.

## 6. Not modelled, and why

* **Arithmetic.** Simulation engine, footprint splits, cost engine, confidence,
  reliability, triangulation, calibration, bridges: decimal and floating-point
  code without control state. TLC has no reals, a rational stand-in would not
  show what the code's rounding does, and the statistics are not a property of a
  state. A pass appears as its index, a figure as a value that is equal or not.
* **Text.** Prompts, the textual rules of the quality gate, matching of claims in
  pages, name scoring, formatting. Their verdicts are kept.
* **Data.** The 3000 lines of seeded values, the catalogue of questions, the
  levers, the policy thresholds, the JSON schemas of replies.
* **One row per request.** Reconciliation incidents, assumptions, case rates,
  locations, validation cases: a handler that validates its input and writes one
  row. Their only hazard is two at once, which section 5 names where it matters.
* **Operations of modelled components that are left out.**
  `reverify_dispositions` (an operator's pass over stored evidence), the public
  sweep of known facts and the acceptance of its proposals, the removal of a
  malformed fact, the voiding of an estimate, anchors and archetypes in
  promotion, archiving and export. `gateway.execute_deterministic` and
  `parse_json_strict` have no caller in the application.
* **I/O.** TLS, pinning, authentication, database connections, the proxy. A
  statement that raises is a fault of `SimJobs` where the code handles it, and
  the end of a handler elsewhere.
* **The UI, the tools and the samples** are clients of the API.

The map covers the code whose order matters, about a ninth of the implementation.
The rest is, by volume, the items above, and modelling it line for line would
restate it and check nothing.

## 7. Plan

What a next step would take up, most useful first:

1. Reverification and the acceptance of swept facts, as further writers of
   `StageGate` and `EstimateRecord`.
2. Validation cases, assumptions and calibration as one module of
   check-then-insert requests, with the quoted sentences as its properties.
3. The composition of `CaseGate` with `SimJobs` and `EstimateRecord`, and an
   abstract gate that sees case, facts and report at one instant, implemented by
   `CaseGate` while every report is whole.
4. The count-preserving splits of the footprint as operators against a reference
   definition over bounded inputs.
