------------------------------ MODULE SimJobs ------------------------------
(***************************************************************************)
(* The simulation job runner, api_service/app/jobs.py, together with the    *)
(* three routes of routers/api.py that call it and the start-up hook of     *)
(* main.py that reclaims interrupted runs.                                  *)
(*                                                                          *)
(* One process serves requests on several request threads (Clients) and     *)
(* starts a daemon thread (Threads) per job.  The rows of simulation_run    *)
(* live in the database and survive a crash; _inflight and every thread's   *)
(* locals do not.  A step is one committed statement, one query or one      *)
(* critical section of _lock: everything a thread does between two of these *)
(* touches only its own locals.                                             *)
(***************************************************************************)
EXTENDS Naturals, Sequences, FiniteSets

CONSTANTS
    Clients,               \* request threads of the API server
    Threads,               \* identities for worker threads (bound on live ones)
    Main,                  \* the start-up thread that runs the lifespan hook
    None,                  \* no value
    SIM_WORKERS,           \* config.SIM_WORKERS
    SIM_QUEUE_MAX,         \* config.SIM_QUEUE_MAX
    SIM_CHECKPOINT_EVERY,  \* config.SIM_CHECKPOINT_EVERY
    Passes,                \* ensemble_size of every run
    MaxRuns,               \* bound: simulation_run rows ever inserted
    MaxRequests,           \* bound: cancel and resume requests
    MaxFaults,             \* bound: faults injected
    FaultKinds             \* which of "job", "db", "thread", "crash" may occur

ASSUME ProcessAssumption ==
    /\ Clients \cap Threads = {}
    /\ Main \notin Clients \cup Threads
    /\ Clients # {}
    /\ IsFiniteSet(Clients \cup Threads)

ASSUME ConfigAssumption ==
    /\ SIM_WORKERS \in Nat \ {0}
    /\ SIM_QUEUE_MAX \in Nat
    /\ SIM_CHECKPOINT_EVERY \in Nat \ {0}
    /\ Passes \in Nat \ {0}

ASSUME BoundAssumption ==
    /\ MaxRuns \in Nat
    /\ MaxRequests \in Nat
    /\ MaxFaults \in Nat
    /\ None \notin 1..MaxRuns
    /\ None \notin Seq(Nat)

VARIABLES
    status,     \* simulation_run.status, "ABSENT" before the insert
    cancelReq,  \* simulation_run.cancel_requested
    partial,    \* simulation_run.partial["summaries"], as pass indices
    output,     \* simulation_run.output: the summaries it aggregates, or None
    created,    \* rows inserted so far; row ids follow created_at order
    inflight,   \* jobs._inflight
    pc,         \* where each process stands
    run,        \* the run a process is handling
    sums,       \* run_job's local `summaries`
    next,       \* run_job's loop variable `i`
    snap,       \* row ids a drain or a reclaim has read and not yet handled
    prev,       \* resume's local `previous`
    requests,   \* cancel and resume requests made (bounded)
    faults      \* kinds of the faults injected so far (bounded)

rowVars == <<status, cancelReq, partial, output, created>>
localVars == <<run, sums, next, snap, prev>>
boundVars == <<requests, faults>>
vars == <<rowVars, inflight, pc, localVars, boundVars>>

Runs == 1..MaxRuns
Procs == Clients \cup Threads \cup {Main}

Terminal == {"SUCCEEDED", "FAILED", "CANCELLED"}
InBacklog == {"QUEUED", "RUNNING", "CANCELLING"}
Statuses == Terminal \cup InBacklog \cup {"ABSENT"}

\* The places at which a thread is executing run_job.
JobPCs == {"load", "start", "check", "checkpoint", "settle", "fail", "release"}
ClientPCs == {"idle", "insert", "cancelSet", "resumeSet", "submit", "spawn",
              "resumeUndo"}
ThreadPCs == JobPCs \cup {"free", "drain", "scan", "pick", "submit", "spawn"}
MainPCs == {"boot", "reclaim", "submit", "spawn", "serving"}

\* The pass indices 0 .. n-1 in order: what an uninterrupted run has after n passes.
PassesUpTo(n) == [j \in 1..n |-> j - 1]

Rest(p) == IF p = Main THEN "boot" ELSE IF p \in Threads THEN "free" ELSE "idle"

Init ==
    /\ status = [r \in Runs |-> "ABSENT"]
    /\ cancelReq = [r \in Runs |-> FALSE]
    /\ partial = [r \in Runs |-> <<>>]
    /\ output = [r \in Runs |-> None]
    /\ created = 0
    /\ inflight = {}
    /\ pc = [p \in Procs |-> Rest(p)]
    /\ run = [p \in Procs |-> None]
    /\ sums = [t \in Threads |-> <<>>]
    /\ next = [t \in Threads |-> 0]
    /\ snap = [p \in Threads \cup {Main} |-> {}]
    /\ prev = [c \in Clients |-> None]
    /\ requests = 0
    /\ faults = <<>>

Goto(p, l) == pc' = [pc EXCEPT ![p] = l]

\* The API accepts requests only once the lifespan hook has yielded.
Serving == pc[Main] = "serving"

Backlog == Cardinality({r \in Runs : status[r] \in InBacklog})

\* Mutant: an off-by-one in the admission test.
RoomOffByOne == Backlog <= SIM_QUEUE_MAX

RoomInBacklog == Backlog < SIM_QUEUE_MAX

\* Mutants: submit() without the duplicate test, and with an off-by-one.
HeldNever(r) == FALSE
WorkerFreeOffByOne == Cardinality(inflight) <= SIM_WORKERS

\* The two tests submit() makes under _lock.
Held(r) == r \in inflight
WorkerFree == Cardinality(inflight) < SIM_WORKERS

\* Mutants: the checkpoint is ignored, or loaded but the loop restarts at 0.
SavedNothing(r) == <<>>
FirstPassZero(r) == 0

\* What run_job starts from.
SavedSummaries(r) == partial[r]
FirstPass(r) == Len(partial[r])

Fault(kind) == /\ kind \in FaultKinds
               /\ Len(faults) < MaxFaults
               /\ faults' = Append(faults, kind)

----------------------------------------------------------------------------
(* POST simulations:run - admission, the insert, then submit(). *)

\* A backlog at the bound is a 429 and changes nothing.
Admit(c) ==
    /\ Serving
    /\ pc[c] = "idle"
    /\ created + Cardinality({d \in Clients : pc[d] = "insert"}) < MaxRuns
    /\ RoomInBacklog
    /\ Goto(c, "insert")
    /\ UNCHANGED <<rowVars, inflight, localVars, boundVars>>

InsertRun(c) ==
    /\ pc[c] = "insert"
    /\ created < MaxRuns
    /\ created' = created + 1
    /\ status' = [status EXCEPT ![created + 1] = "QUEUED"]
    /\ run' = [run EXCEPT ![c] = created + 1]
    /\ Goto(c, "submit")
    /\ UNCHANGED <<cancelReq, partial, output, inflight, sums, next,
                   snap, prev, boundVars>>

----------------------------------------------------------------------------
(* POST simulations/{run}:cancel - read the row, then set the flag. *)

\* A terminal row is answered "already finished" and nothing is written.
CancelFetch(c, r) ==
    /\ Serving
    /\ pc[c] = "idle"
    /\ status[r] \notin Terminal \cup {"ABSENT"}
    /\ requests < MaxRequests
    /\ requests' = requests + 1
    /\ run' = [run EXCEPT ![c] = r]
    /\ Goto(c, "cancelSet")
    /\ UNCHANGED <<rowVars, inflight, sums, next, snap, prev, faults>>

CancelSet(c) ==
    /\ pc[c] = "cancelSet"
    /\ cancelReq' = [cancelReq EXCEPT ![run[c]] = TRUE]
    /\ run' = [run EXCEPT ![c] = None]
    /\ Goto(c, "idle")
    /\ UNCHANGED <<status, partial, output, created, inflight, sums,
                   next, snap, prev, boundVars>>

----------------------------------------------------------------------------
(* POST simulations/{run}:resume - read the row, requeue it, submit(). *)

\* A SUCCEEDED row is answered "nothing to resume" and nothing is written.
ResumeFetch(c, r) ==
    /\ Serving
    /\ pc[c] = "idle"
    /\ status[r] \notin {"SUCCEEDED", "ABSENT"}
    /\ requests < MaxRequests
    /\ requests' = requests + 1
    /\ run' = [run EXCEPT ![c] = r]
    /\ prev' = [prev EXCEPT ![c] = status[r]]
    /\ Goto(c, "resumeSet")
    /\ UNCHANGED <<rowVars, inflight, sums, next, snap, faults>>

ResumeSet(c) ==
    /\ pc[c] = "resumeSet"
    /\ status' = [status EXCEPT ![run[c]] = "QUEUED"]
    /\ cancelReq' = [cancelReq EXCEPT ![run[c]] = FALSE]
    /\ Goto(c, "submit")
    /\ UNCHANGED <<partial, output, created, inflight, localVars,
                   boundVars>>

\* submit() raised: the row is put back to the status read at the start.
ResumeUndo(c) ==
    /\ pc[c] = "resumeUndo"
    /\ status' = [status EXCEPT ![run[c]] = prev[c]]
    /\ run' = [run EXCEPT ![c] = None]
    /\ prev' = [prev EXCEPT ![c] = None]
    /\ Goto(c, "idle")
    /\ UNCHANGED <<cancelReq, partial, output, created, inflight, sums,
                   next, snap, boundVars>>

----------------------------------------------------------------------------
(* submit(): one critical section, then Thread.start() outside the lock.   *)
(* Called by a request thread, by a worker's _drain and by reclaim; what    *)
(* the caller does next depends on the answer.                              *)

AfterRunning(p) == IF p \in Clients THEN "idle"
                   ELSE IF p \in Threads THEN "drain" ELSE "reclaim"
AfterQueued(p) == IF p \in Clients THEN "idle"
                  ELSE IF p \in Threads THEN "free" ELSE "reclaim"
AfterRaise(p) == IF p \in Clients
                 THEN IF prev[p] = None THEN "idle" ELSE "resumeUndo"
                 ELSE IF p \in Threads THEN "free" ELSE "serving"

\* A request that returns drops its locals.
ClearPrev(p) == prev' = IF p \in Clients THEN [prev EXCEPT ![p] = None] ELSE prev

SubmitInFlight(p) ==
    /\ pc[p] = "submit"
    /\ Held(run[p])
    /\ Goto(p, AfterRunning(p))
    /\ run' = [run EXCEPT ![p] = None]
    /\ ClearPrev(p)
    /\ UNCHANGED <<rowVars, inflight, sums, next, snap, boundVars>>

SubmitBusy(p) ==
    /\ pc[p] = "submit"
    /\ ~Held(run[p])
    /\ ~WorkerFree
    /\ Goto(p, AfterQueued(p))
    /\ run' = [run EXCEPT ![p] = None]
    /\ ClearPrev(p)
    /\ UNCHANGED <<rowVars, inflight, sums, next, snap, boundVars>>

SubmitReserve(p) ==
    /\ pc[p] = "submit"
    /\ ~Held(run[p])
    /\ WorkerFree
    /\ inflight' = inflight \cup {run[p]}
    /\ Goto(p, "spawn")
    /\ UNCHANGED <<rowVars, localVars, boundVars>>

Spawn(p, t) ==
    /\ pc[p] = "spawn"
    /\ pc[t] = "free"
    /\ pc' = [pc EXCEPT ![p] = AfterRunning(p), ![t] = "load"]
    /\ run' = [run EXCEPT ![p] = None, ![t] = run[p]]
    /\ ClearPrev(p)
    /\ UNCHANGED <<rowVars, inflight, sums, next, snap, boundVars>>

\* Thread.start() raises RuntimeError; nothing takes the run out of _inflight.
SpawnRaises(p) ==
    /\ pc[p] = "spawn"
    /\ Fault("thread")
    /\ Goto(p, AfterRaise(p))
    /\ run' = IF AfterRaise(p) = "resumeUndo" THEN run
              ELSE [run EXCEPT ![p] = None]
    /\ UNCHANGED <<rowVars, inflight, sums, next, snap, prev, requests>>

----------------------------------------------------------------------------
(* run_job(), on a worker thread. *)

\* Resume from the checkpoint, or stop at once when the row is SUCCEEDED.
Load(t) ==
    /\ pc[t] = "load"
    /\ IF status[run[t]] = "SUCCEEDED"
       THEN /\ Goto(t, "release")
            /\ UNCHANGED <<sums, next>>
       ELSE /\ sums' = [sums EXCEPT ![t] = SavedSummaries(run[t])]
            /\ next' = [next EXCEPT ![t] = FirstPass(run[t])]
            /\ Goto(t, "start")
    /\ UNCHANGED <<rowVars, inflight, run, snap, prev, boundVars>>

Start(t) ==
    /\ pc[t] = "start"
    /\ status' = [status EXCEPT ![run[t]] = "RUNNING"]
    /\ Goto(t, "check")
    /\ UNCHANGED <<cancelReq, partial, output, created, inflight, localVars,
                   boundVars>>

\* _cancelled() is read before every pass.
SeeCancel(t) ==
    /\ pc[t] = "check"
    /\ next[t] < Passes
    /\ cancelReq[run[t]]
    /\ Goto(t, "settle")
    /\ UNCHANGED <<rowVars, inflight, localVars, boundVars>>

Pass(t) ==
    /\ pc[t] = "check"
    /\ next[t] < Passes
    /\ ~cancelReq[run[t]]
    /\ sums' = [sums EXCEPT ![t] = Append(@, next[t])]
    /\ next' = [next EXCEPT ![t] = @ + 1]
    /\ Goto(t, IF Len(sums'[t]) % SIM_CHECKPOINT_EVERY = 0
               THEN "checkpoint" ELSE "check")
    /\ UNCHANGED <<rowVars, inflight, run, snap, prev, boundVars>>

Checkpoint(t) ==
    /\ pc[t] = "checkpoint"
    /\ partial' = [partial EXCEPT ![run[t]] = sums[t]]
    /\ Goto(t, "check")
    /\ UNCHANGED <<status, cancelReq, output, created, inflight,
                   localVars, boundVars>>

SettleCancelled(t) ==
    /\ pc[t] = "settle"
    /\ status' = [status EXCEPT ![run[t]] = "CANCELLED"]
    /\ partial' = [partial EXCEPT ![run[t]] = sums[t]]
    /\ Goto(t, "release")
    /\ UNCHANGED <<cancelReq, output, created, inflight, localVars,
                   boundVars>>

Succeed(t) ==
    /\ pc[t] = "check"
    /\ next[t] = Passes
    /\ status' = [status EXCEPT ![run[t]] = "SUCCEEDED"]
    /\ output' = [output EXCEPT ![run[t]] = sums[t]]
    /\ partial' = [partial EXCEPT ![run[t]] = sums[t]]
    /\ cancelReq' = [cancelReq EXCEPT ![run[t]] = FALSE]
    /\ Goto(t, "release")
    /\ UNCHANGED <<created, inflight, localVars, boundVars>>

\* A pass or a statement raises inside run_job's try.
JobRaises(t) ==
    /\ pc[t] \in JobPCs \ {"fail", "release"}
    /\ Fault("job")
    /\ Goto(t, "fail")
    /\ UNCHANGED <<rowVars, inflight, localVars, requests>>

\* The checkpoint is left in place.
RecordFailure(t) ==
    /\ pc[t] = "fail"
    /\ status' = [status EXCEPT ![run[t]] = "FAILED"]
    /\ Goto(t, "release")
    /\ UNCHANGED <<cancelReq, partial, output, created, inflight, localVars,
                   boundVars>>

\* The write of FAILED raises too and is swallowed.
FailureUnrecorded(t) ==
    /\ pc[t] = "fail"
    /\ Fault("db")
    /\ Goto(t, "release")
    /\ UNCHANGED <<rowVars, inflight, localVars, requests>>

\* Mutant: _worker without _drain.
NoDrain == "free"

\* A freed worker takes the next waiting run.
AfterRelease == "drain"

\* _worker's finally.
Release(t) ==
    /\ pc[t] = "release"
    /\ inflight' = inflight \ {run[t]}
    /\ run' = [run EXCEPT ![t] = None]
    /\ sums' = [sums EXCEPT ![t] = <<>>]
    /\ next' = [next EXCEPT ![t] = 0]
    /\ Goto(t, AfterRelease)
    /\ UNCHANGED <<rowVars, snap, prev, boundVars>>

----------------------------------------------------------------------------
(* _drain(): in_flight(), then the two reads of _next_waiting(), then       *)
(* submit().                                                                *)

DrainCheck(t) ==
    /\ pc[t] = "drain"
    /\ Goto(t, IF WorkerFree THEN "scan" ELSE "free")
    /\ UNCHANGED <<rowVars, inflight, localVars, boundVars>>

DrainScan(t) ==
    /\ pc[t] = "scan"
    /\ snap' = [snap EXCEPT ![t] = {r \in Runs : status[r] = "QUEUED"}]
    /\ Goto(t, "pick")
    /\ UNCHANGED <<rowVars, inflight, run, sums, next, prev, boundVars>>

\* Mutant: _drain without its "if run_id is None: return".
DrainPickNone(t) ==
    /\ pc[t] = "pick"
    /\ Goto(t, "submit")
    /\ snap' = [snap EXCEPT ![t] = {}]
    /\ UNCHANGED <<rowVars, inflight, run, sums, next, prev, boundVars>>

\* Oldest queued run, of those read, with no worker in this process.
DrainPick(t) ==
    /\ pc[t] = "pick"
    /\ \/ /\ snap[t] \ inflight = {}
          /\ Goto(t, "free")
          /\ UNCHANGED run
       \/ \E r \in snap[t] \ inflight :
             /\ \A q \in snap[t] \ inflight : r <= q
             /\ run' = [run EXCEPT ![t] = r]
             /\ Goto(t, "submit")
    /\ snap' = [snap EXCEPT ![t] = {}]
    /\ UNCHANGED <<rowVars, inflight, sums, next, prev, boundVars>>

\* The query raises; "queued runs await the next completion".
DrainRaises(t) ==
    /\ pc[t] = "scan"
    /\ Fault("db")
    /\ Goto(t, "free")
    /\ UNCHANGED <<rowVars, inflight, localVars, requests>>

----------------------------------------------------------------------------
(* A crash, and reclaim_interrupted() in the process that follows it. *)

Crash ==
    /\ Fault("crash")
    /\ inflight' = {}
    /\ pc' = [p \in Procs |-> Rest(p)]
    /\ run' = [p \in Procs |-> None]
    /\ sums' = [t \in Threads |-> <<>>]
    /\ next' = [t \in Threads |-> 0]
    /\ snap' = [p \in Threads \cup {Main} |-> {}]
    /\ prev' = [c \in Clients |-> None]
    /\ UNCHANGED <<rowVars, requests>>

\* Mutant: start-up reclaims only the rows that read RUNNING.
ReclaimRunningOnly == {"RUNNING"}

\* In a fresh process no worker exists, so every such row is orphaned.
Reclaimable == {"RUNNING", "QUEUED"}

\* Nothing else runs yet, so the CANCELLING loop and the second query are one step.
ReclaimScan ==
    /\ pc[Main] = "boot"
    /\ status' = [r \in Runs |-> IF status[r] = "CANCELLING" THEN "CANCELLED"
                                 ELSE status[r]]
    /\ snap' = [snap EXCEPT ![Main] =
                   {r \in Runs : status[r] \in Reclaimable}]
    /\ Goto(Main, "reclaim")
    /\ UNCHANGED <<cancelReq, partial, output, created, inflight, run,
                   sums, next, prev, boundVars>>

\* The query has no ORDER BY: any row of the list may come next.
ReclaimNext ==
    /\ pc[Main] = "reclaim"
    /\ \E r \in snap[Main] :
          /\ status' = [status EXCEPT ![r] = "QUEUED"]
          /\ cancelReq' = [cancelReq EXCEPT ![r] = FALSE]
          /\ snap' = [snap EXCEPT ![Main] = @ \ {r}]
          /\ run' = [run EXCEPT ![Main] = r]
    /\ Goto(Main, "submit")
    /\ UNCHANGED <<partial, output, created, inflight, sums, next, prev,
                   boundVars>>

ReclaimDone ==
    /\ pc[Main] = "reclaim"
    /\ snap[Main] = {}
    /\ Goto(Main, "serving")
    /\ UNCHANGED <<rowVars, inflight, localVars, boundVars>>

----------------------------------------------------------------------------
ClientStep(c) ==
    \/ InsertRun(c)
    \/ CancelSet(c)
    \/ ResumeSet(c)
    \/ ResumeUndo(c)

Submit(p) ==
    \/ SubmitInFlight(p)
    \/ SubmitBusy(p)
    \/ SubmitReserve(p)
    \/ \E t \in Threads : Spawn(p, t)

JobStep(t) ==
    \/ Load(t)
    \/ Start(t)
    \/ SeeCancel(t)
    \/ Pass(t)
    \/ Checkpoint(t)
    \/ SettleCancelled(t)
    \/ Succeed(t)
    \/ RecordFailure(t)
    \/ Release(t)

DrainStep(t) ==
    \/ DrainCheck(t)
    \/ DrainScan(t)
    \/ DrainPick(t)

MainStep == ReclaimScan \/ ReclaimNext \/ ReclaimDone

Request(c) ==
    \/ Admit(c)
    \/ \E r \in Runs : CancelFetch(c, r) \/ ResumeFetch(c, r)

FaultStep ==
    \/ \E p \in Procs : SpawnRaises(p)
    \/ \E t \in Threads : JobRaises(t) \/ FailureUnrecorded(t) \/ DrainRaises(t)
    \/ Crash

\* Every process is at rest: the server waits for the next request.
Quiet ==
    /\ Serving
    /\ \A c \in Clients : pc[c] = "idle"
    /\ \A t \in Threads : pc[t] = "free"

Wait == Quiet /\ UNCHANGED vars

Next ==
    \/ \E c \in Clients : Request(c) \/ ClientStep(c)
    \/ \E p \in Procs : Submit(p)
    \/ \E t \in Threads : JobStep(t) \/ DrainStep(t)
    \/ MainStep
    \/ FaultStep
    \/ Wait

Spec == Init /\ [][Next]_vars

(***************************************************************************)
(* A started thread keeps running and a request that has been read is       *)
(* answered; nobody is obliged to send a request and nothing is obliged to  *)
(* fail.                                                                    *)
(***************************************************************************)
Fairness ==
    /\ \A c \in Clients : WF_vars(ClientStep(c) \/ Submit(c))
    /\ \A t \in Threads : WF_vars(JobStep(t) \/ DrainStep(t) \/ Submit(t))
    /\ WF_vars(MainStep \/ Submit(Main))

FairSpec == Spec /\ Fairness
============================================================================
