---------------------------- MODULE SimJobsProps ----------------------------
(***************************************************************************)
(* What the job runner of jobs.py promises: bounded and exclusive workers,  *)
(* checkpoints that only grow, results that resuming cannot change, and no   *)
(* run left waiting with nobody to pick it up.                               *)
(***************************************************************************)
EXTENDS SimJobs

TypeOK ==
    /\ status \in [Runs -> Statuses]
    /\ cancelReq \in [Runs -> BOOLEAN]
    /\ partial \in [Runs -> Seq(Nat)]
    /\ output \in [Runs -> Seq(Nat) \cup {None}]
    /\ created \in 0..MaxRuns
    /\ inflight \in SUBSET Runs
    /\ pc \in [Procs -> ClientPCs \cup ThreadPCs \cup MainPCs]
    /\ \A c \in Clients : pc[c] \in ClientPCs
    /\ \A t \in Threads : pc[t] \in ThreadPCs
    /\ pc[Main] \in MainPCs
    /\ run \in [Procs -> Runs \cup {None}]
    /\ sums \in [Threads -> Seq(Nat)]
    /\ next \in [Threads -> Nat]
    /\ snap \in [Threads \cup {Main} -> SUBSET Runs]
    /\ prev \in [Clients -> Statuses \cup {None}]
    /\ requests \in 0..MaxRequests
    /\ faults \in Seq(FaultKinds)

Working(t) == pc[t] \in JobPCs

\* SIM_WORKERS bounds the threads executing run_job exactly, however requests,
\* drains and reclaims interleave (the docstring of in_flight calls this bound exact).
WorkerBound == Cardinality({t \in Threads : Working(t)}) <= SIM_WORKERS

\* No two workers ever execute the same run, so a row has one writer of progress.
OneWorkerPerRun ==
    \A t, u \in Threads :
        Working(t) /\ Working(u) /\ run[t] = run[u] => t = u

\* A checkpoint is always the first passes of the ensemble in order, and a published
\* output aggregates the whole ensemble: what an uninterrupted run would have produced,
\* through every crash, cancel, failure and resume (the "byte-identical" claim of jobs.py).
Reproducible ==
    \A r \in Runs :
        /\ partial[r] = PassesUpTo(Len(partial[r]))
        /\ output[r] # None => output[r] = PassesUpTo(Passes)
        /\ status[r] = "SUCCEEDED" => output[r] # None

\* No step loses completed passes: a worker that loaded an old checkpoint never
\* overwrites a longer one.
CheckpointNeverShrinks ==
    [][\A r \in Runs : Len(partial'[r]) >= Len(partial[r])]_vars

\* A result, once stored, is never replaced by a different one, though the row may be
\* re-queued by a late resume or reclaim and executed again.
OutputNeverChanges ==
    [][\A r \in Runs : output[r] # None => output'[r] = output[r]]_vars

\* The view of a run that the abstract specification has.
Promise == INSTANCE SimRunPromise
           WITH done <- [r \in Runs |-> Len(partial[r])],
                published <- {r \in Runs : output[r] # None}

\* The job runner implements SimRunPromise: threads, slots, drains, reclaims and crashes
\* are stutters of it, and a run executed a second time publishes nothing new.
KeepsPromise == Promise!Spec

Suffered(kind) == \E i \in DOMAIN faults : faults[i] = kind

\* When no request is being handled and no worker is alive, no accepted run is still
\* waiting: submit's "queued" answer and the drain of a finishing worker never miss
\* each other. Only a write of FAILED, a drain's query or a thread start that raised
\* may leave a run behind, for the next restart to reclaim.
NothingStranded ==
    Quiet /\ ~Suffered("db") /\ ~Suffered("thread")
        => \A r \in Runs : status[r] \in Terminal \cup {"ABSENT"}

\* Passes and statements that raised inside run_job.
Failures == Cardinality({i \in DOMAIN faults : faults[i] = "job"})

\* The backlog bound is advisory.  What exceeds it is accounted for: requests that pass
\* the admission test at the same time, runs a request brought back (a resume is not new
\* work and not counted), and failed runs that a drain which had read them as queued
\* executes once more.  Restarts, stale reads and lost threads add nothing.
OverAdmissionBounded ==
    Backlog <= SIM_QUEUE_MAX + (Cardinality(Clients) - 1) + requests + Failures

\* Every accepted run reaches a terminal status, through job failures and a restart,
\* unless one of the two faults that may leave a run behind occurs.
AcceptedRunsFinish ==
    \A r \in Runs :
        status[r] \in {"QUEUED", "RUNNING"}
            ~> status[r] \in Terminal \/ Suffered("db") \/ Suffered("thread")

----------------------------------------------------------------------------
(* The inductive invariant behind the safety properties above. *)

\* The places at which a process has a run in hand.
AtRun == {"cancelSet", "resumeSet", "submit", "spawn", "resumeUndo"} \cup JobPCs

RunInHand == \A p \in Procs : pc[p] \in AtRun => run[p] \in Runs

\* The status a resume read and may put back is never SUCCEEDED.
PrevHeld ==
    \A c \in Clients :
        /\ prev[c] \in (Statuses \ {"SUCCEEDED"}) \cup {None}
        /\ pc[c] = "resumeUndo" => prev[c] # None

\* p is starting a thread for run[p], or is the worker executing it.
Holds(p) == pc[p] \in JobPCs \cup {"spawn"}

\* A slot of _inflight is taken before a thread is started and kept until the worker's
\* finally, so whoever holds a run has a slot of its own.
SlotPerHolder ==
    /\ \A p \in Procs : Holds(p) => run[p] \in inflight
    /\ \A p, q \in Procs : Holds(p) /\ Holds(q) /\ run[p] = run[q] => p = q
    /\ Cardinality(inflight) <= SIM_WORKERS

\* A worker that has loaded its checkpoint and may still write it back.
Loaded(t) == pc[t] \in {"start", "check", "checkpoint", "settle"}

\* What a worker holds is a prefix of the ensemble, at least as long as the checkpoint.
AheadOfCheckpoint ==
    \A t \in Threads :
        Loaded(t) => /\ sums[t] = PassesUpTo(next[t])
                     /\ next[t] <= Passes
                     /\ Len(partial[run[t]]) <= next[t]

CheckpointIsPrefix ==
    \A r \in Runs : /\ partial[r] = PassesUpTo(Len(partial[r]))
                    /\ Len(partial[r]) <= Passes

OutputIsWhole ==
    \A r \in Runs : /\ output[r] \in {None, PassesUpTo(Passes)}
                    /\ status[r] = "SUCCEEDED" => output[r] # None

\* Strong enough to be preserved by every step: WorkerBound, OneWorkerPerRun,
\* Reproducible and the two action properties follow from it.
IndInv ==
    /\ TypeOK
    /\ RunInHand
    /\ PrevHeld
    /\ SlotPerHolder
    /\ AheadOfCheckpoint
    /\ CheckpointIsPrefix
    /\ OutputIsWhole

----------------------------------------------------------------------------
(* The inductive invariants behind NothingStranded and OverAdmissionBounded. *)

\* A run somebody has in hand or has read from the table has a row; nobody writes
\* CANCELLING, the status only start-up honours.
RowsInHand ==
    /\ \A p \in Procs : pc[p] \in AtRun => status[run[p]] # "ABSENT"
    /\ \A p \in Threads \cup {Main} : \A r \in snap[p] : status[r] # "ABSENT"
    /\ \A r \in Runs : status[r] # "CANCELLING"
    /\ \A c \in Clients : prev[c] # None => prev[c] \notin {"ABSENT", "CANCELLING"}

Calm == ~Suffered("db") /\ ~Suffered("thread")

\* Start-up has not come to r yet.
Reclaiming(r) ==
    \/ pc[Main] = "boot"
    \/ pc[Main] \in {"reclaim", "submit", "spawn"} /\ r \in snap[Main]

\* A worker is executing r and will write how it ended.
Executed(r) == \E t \in Threads : pc[t] \in JobPCs \ {"release"} /\ run[t] = r

\* Somebody is about to look for a waiting run, has read r as one, or is submitting it;
\* or a slot is taken, and its worker drains the queue when it gives it back.
Awaited(r) ==
    \/ inflight # {}
    \/ \E t \in Threads : pc[t] \in {"drain", "scan", "submit"}
    \/ \E t \in Threads : pc[t] = "pick" /\ r \in snap[t]
    \/ \E p \in Procs : pc[p] = "submit" /\ run[p] = r

\* Every slot has a holder, and every row that is not terminal has somebody responsible
\* for it.
Tended ==
    /\ \A r \in inflight : \E p \in Procs : Holds(p) /\ run[p] = r
    /\ \A c \in Clients : pc[c] # "resumeUndo"
    /\ \A r \in Runs : status[r] = "RUNNING" => Executed(r) \/ Reclaiming(r)
    /\ \A r \in Runs : status[r] = "QUEUED" => Awaited(r) \/ Reclaiming(r)

Responsible == Calm => Tended

\* Runs that count against the bound: those in the backlog, and those start-up has still
\* to put back there.  A request that was admitted counts for the run it will insert.
Counted(X) == {r \in Runs \ X : \/ status[r] \in InBacklog
                                \/ ~Serving /\ r \in snap[Main]}
Inserting == {c \in Clients : pc[c] = "insert"}

\* Rows outside X were never resumed, cancelled or failed, and nobody is about to do so:
\* they go from QUEUED through RUNNING to SUCCEEDED.
Untouched(X) ==
    /\ \A r \in Runs \ X : status[r] \notin {"FAILED", "CANCELLED"} /\ ~cancelReq[r]
    /\ \A c \in Clients :
          /\ pc[c] \in {"cancelSet", "resumeSet", "resumeUndo"} => run[c] \in X
          /\ prev[c] # None => run[c] \in X
          /\ pc[c] \in {"idle", "insert", "cancelSet"} => prev[c] = None
    /\ \A t \in Threads :
          /\ pc[t] \in {"settle", "fail"} => run[t] \in X
          /\ pc[t] = "start" /\ run[t] \notin X => status[run[t]] # "SUCCEEDED"

\* A run that is brought back was touched by a request or a failure of its own, and of
\* the others no more count than the admission test lets through.
AdmissionInv ==
    \E X \in SUBSET Runs :
        /\ Cardinality(X) <= requests + Failures
        /\ Untouched(X)
        /\ Cardinality(Counted(X)) + Cardinality(Inserting)
              <= SIM_QUEUE_MAX + (Cardinality(Clients) - 1)
============================================================================
