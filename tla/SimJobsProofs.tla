--------------------------- MODULE SimJobsProofs ---------------------------
(***************************************************************************)
(* Theorems about the job runner, for every number of request threads,      *)
(* worker threads, workers, runs and passes.                                *)
(***************************************************************************)
EXTENDS SimJobsProps, FiniteSetTheorems, TLAPS

Typing == TypeOK /\ RunInHand /\ PrevHeld

LEMMA TypingInit == Init => Typing
BY ProcessAssumption, ConfigAssumption, BoundAssumption
DEF Init, Typing, TypeOK, RunInHand, PrevHeld, Rest, Procs, AtRun, JobPCs,
    ClientPCs, ThreadPCs, MainPCs, Statuses, Terminal, InBacklog

LEMMA TypingRoutes ==
    ASSUME Typing, NEW c \in Clients, Request(c) \/ ClientStep(c)
    PROVE  Typing'
<1> USE ProcessAssumption, ConfigAssumption, BoundAssumption
    DEF Typing, TypeOK, RunInHand, PrevHeld, Procs, AtRun, JobPCs, ClientPCs,
        ThreadPCs, MainPCs, Statuses, Terminal, InBacklog, Goto,
        rowVars, localVars, boundVars
<1>1. CASE Admit(c)
  BY <1>1 DEF Admit
<1>2. CASE InsertRun(c)
  BY <1>2 DEF InsertRun, Runs
<1>3. ASSUME NEW r \in Runs, CancelFetch(c, r) PROVE Typing'
  BY <1>3 DEF CancelFetch
<1>4. CASE CancelSet(c)
  BY <1>4 DEF CancelSet
<1>5. ASSUME NEW r \in Runs, ResumeFetch(c, r) PROVE Typing'
  BY <1>5 DEF ResumeFetch
<1>6. CASE ResumeSet(c)
  BY <1>6 DEF ResumeSet
<1>7. CASE ResumeUndo(c)
  BY <1>7 DEF ResumeUndo
<1> QED
  BY <1>1, <1>2, <1>3, <1>4, <1>5, <1>6, <1>7 DEF Request, ClientStep

LEMMA TypingSubmit ==
    ASSUME Typing, NEW p \in Procs, Submit(p) \/ SpawnRaises(p)
    PROVE  Typing'
<1> USE ProcessAssumption, ConfigAssumption, BoundAssumption
    DEF Typing, TypeOK, RunInHand, PrevHeld, Procs, AtRun, JobPCs, ClientPCs,
        ThreadPCs, MainPCs, Statuses, Terminal, InBacklog, Goto,
        rowVars, localVars, boundVars
<1>1. CASE SubmitInFlight(p)
  BY <1>1 DEF SubmitInFlight, AfterRunning, ClearPrev
<1>2. CASE SubmitBusy(p)
  BY <1>2 DEF SubmitBusy, AfterQueued, ClearPrev
<1>3. CASE SubmitReserve(p)
  BY <1>3 DEF SubmitReserve
<1>4. ASSUME NEW t \in Threads, Spawn(p, t) PROVE Typing'
  <2>1. p # t /\ run[p] \in Runs /\ AfterRunning(p) \notin AtRun
    BY <1>4 DEF Spawn, AfterRunning
  <2>2. /\ pc' = [pc EXCEPT ![p] = AfterRunning(p), ![t] = "load"]
        /\ run' = [run EXCEPT ![p] = None, ![t] = run[p]]
        /\ UNCHANGED <<rowVars, inflight, sums, next, snap, boundVars>>
    BY <1>4 DEF Spawn
  <2>3. \/ prev' = prev
        \/ p \in Clients /\ prev' = [prev EXCEPT ![p] = None]
    BY <1>4 DEF Spawn, ClearPrev
  <2>4. TypeOK'
    <3>1. pc' \in [Procs -> ClientPCs \cup ThreadPCs \cup MainPCs]
      BY <2>2 DEF AfterRunning
    <3>2. /\ \A c \in Clients : pc'[c] \in ClientPCs
          /\ \A u \in Threads : pc'[u] \in ThreadPCs
          /\ pc'[Main] \in MainPCs
      <4>1. /\ p \in Clients => AfterRunning(p) \in ClientPCs
            /\ p \in Threads => AfterRunning(p) \in ThreadPCs
            /\ p = Main => AfterRunning(p) \in MainPCs
        BY DEF AfterRunning
      <4>2. \A q \in Procs : pc'[q] = IF q = t THEN "load"
                                      ELSE IF q = p THEN AfterRunning(p)
                                      ELSE pc[q]
        BY <2>1, <2>2
      <4> HIDE DEF Procs
      <4>3. Clients \subseteq Procs /\ Threads \subseteq Procs /\ Main \in Procs
        BY DEF Procs
      <4>4. ASSUME NEW c \in Clients PROVE pc'[c] \in ClientPCs
        BY <4>1, <4>2, <4>3
      <4>5. ASSUME NEW u \in Threads PROVE pc'[u] \in ThreadPCs
        BY <4>1, <4>2, <4>3
      <4>6. pc'[Main] \in MainPCs
        BY <4>1, <4>2, <4>3
      <4> QED
        BY <4>4, <4>5, <4>6
    <3>3. run' \in [Procs -> Runs \cup {None}]
      BY <2>1, <2>2
    <3>4. prev' \in [Clients -> Statuses \cup {None}]
      BY <2>3
    <3> QED
      BY <2>2, <3>1, <3>2, <3>3, <3>4
  <2>5. RunInHand'
    BY <2>1, <2>2
  <2>6. PrevHeld'
    BY <2>1, <2>2, <2>3 DEF AfterRunning
  <2> QED
    BY <2>4, <2>5, <2>6
<1>5. CASE SpawnRaises(p)
  BY <1>5 DEF SpawnRaises, AfterRaise, Fault
<1> QED
  BY <1>1, <1>2, <1>3, <1>4, <1>5 DEF Submit

LEMMA TypingWorker ==
    ASSUME Typing, NEW t \in Threads, 
           \/ JobStep(t) \/ DrainStep(t)
           \/ JobRaises(t) \/ FailureUnrecorded(t) \/ DrainRaises(t)
    PROVE  Typing'
<1> USE ProcessAssumption, ConfigAssumption, BoundAssumption
    DEF Typing, TypeOK, RunInHand, PrevHeld, Procs, AtRun, JobPCs, ClientPCs,
        ThreadPCs, MainPCs, Statuses, Terminal, InBacklog, Goto,
        rowVars, localVars, boundVars
<1>1. CASE Load(t)
  <2>1. run[t] \in Runs
    BY <1>1 DEF Load
  <2>2. SavedSummaries(run[t]) \in Seq(Nat) /\ FirstPass(run[t]) \in Nat
    BY <2>1 DEF SavedSummaries, FirstPass
  <2>3. CASE UNCHANGED <<sums, next>> /\ Goto(t, "release")
    BY <1>1, <2>1, <2>3 DEF Load
  <2>4. CASE /\ sums' = [sums EXCEPT ![t] = SavedSummaries(run[t])]
             /\ next' = [next EXCEPT ![t] = FirstPass(run[t])]
             /\ Goto(t, "start")
    BY <1>1, <2>1, <2>2, <2>4 DEF Load
  <2> QED
    BY <1>1, <2>3, <2>4 DEF Load
<1>2. CASE Start(t)
  BY <1>2 DEF Start
<1>3. CASE SeeCancel(t)
  BY <1>3 DEF SeeCancel
<1>4. CASE Pass(t)
  BY <1>4 DEF Pass
<1>5. CASE Checkpoint(t)
  BY <1>5 DEF Checkpoint
<1>6. CASE SettleCancelled(t)
  BY <1>6 DEF SettleCancelled
<1>7. CASE Succeed(t)
  BY <1>7 DEF Succeed
<1>8. CASE RecordFailure(t)
  BY <1>8 DEF RecordFailure
<1>9. CASE Release(t)
  BY <1>9 DEF Release, AfterRelease
<1>10. CASE DrainCheck(t)
  BY <1>10 DEF DrainCheck
<1>11. CASE DrainScan(t)
  BY <1>11 DEF DrainScan
<1>12. CASE DrainPick(t)
  <2>1. snap' = [snap EXCEPT ![t] = {}]
    BY <1>12 DEF DrainPick
  <2>2. CASE pc' = [pc EXCEPT ![t] = "free"] /\ run' = run
    BY <1>12, <2>1, <2>2 DEF DrainPick
  <2>3. ASSUME NEW r \in snap[t] \ inflight,
               run' = [run EXCEPT ![t] = r],
               pc' = [pc EXCEPT ![t] = "submit"]
        PROVE  Typing'
    <3>1. r \in Runs
      OBVIOUS
    <3> QED
      BY <1>12, <2>1, <2>3, <3>1 DEF DrainPick
  <2> QED
    BY <1>12, <2>2, <2>3 DEF DrainPick
<1>13. CASE JobRaises(t)
  BY <1>13 DEF JobRaises, Fault
<1>14. CASE FailureUnrecorded(t)
  BY <1>14 DEF FailureUnrecorded, Fault
<1>15. CASE DrainRaises(t)
  BY <1>15 DEF DrainRaises, Fault
<1> QED
  BY <1>1, <1>2, <1>3, <1>4, <1>5, <1>6, <1>7, <1>8, <1>9, <1>10, <1>11, <1>12,
     <1>13, <1>14, <1>15 DEF JobStep, DrainStep

LEMMA TypingMain ==
    ASSUME Typing, MainStep \/ Crash
    PROVE  Typing'
<1> USE ProcessAssumption, ConfigAssumption, BoundAssumption
    DEF Typing, TypeOK, RunInHand, PrevHeld, Procs, AtRun, JobPCs, ClientPCs,
        ThreadPCs, MainPCs, Statuses, Terminal, InBacklog, Goto,
        rowVars, localVars, boundVars
<1>1. CASE ReclaimScan
  BY <1>1 DEF ReclaimScan
<1>2. CASE ReclaimNext
  BY <1>2 DEF ReclaimNext
<1>3. CASE ReclaimDone
  BY <1>3 DEF ReclaimDone
<1>4. CASE Crash
  BY <1>4 DEF Crash, Fault, Rest
<1> QED
  BY <1>1, <1>2, <1>3, <1>4 DEF MainStep

LEMMA TypingStep == Typing /\ [Next]_vars => Typing'
<1> SUFFICES ASSUME Typing, [Next]_vars PROVE Typing'
  OBVIOUS
<1>1. ASSUME NEW c \in Clients, Request(c) \/ ClientStep(c) PROVE Typing'
  BY <1>1, TypingRoutes
<1>2. ASSUME NEW p \in Procs, Submit(p) \/ SpawnRaises(p) PROVE Typing'
  BY <1>2, TypingSubmit
<1>3. ASSUME NEW t \in Threads,
             \/ JobStep(t) \/ DrainStep(t)
             \/ JobRaises(t) \/ FailureUnrecorded(t) \/ DrainRaises(t)
      PROVE  Typing'
  BY <1>3, TypingWorker
<1>4. CASE MainStep \/ Crash
  BY <1>4, TypingMain
<1>5. CASE Wait \/ UNCHANGED vars
  BY <1>5 DEF Wait, vars, rowVars, localVars, boundVars, Typing, TypeOK,
              RunInHand, PrevHeld
<1> QED
  BY <1>1, <1>2, <1>3, <1>4, <1>5 DEF Next, FaultStep

\* The type invariant of the job runner, together with the two facts a step needs to
\* stay typed: a process that handles a run has one, and a resume remembers a status.
THEOREM TypingInvariant == Spec => []Typing
BY TypingInit, TypingStep, PTL DEF Spec

\* Every reachable state of rows, slots and threads is well typed.
THEOREM TypeCorrect == Spec => []TypeOK
BY TypingInvariant, PTL DEF Typing

----------------------------------------------------------------------------
(* Slots. *)

LEMMA SlotsInit == Init => SlotPerHolder
BY FS_EmptySet, ConfigAssumption, ProcessAssumption
DEF Init, SlotPerHolder, Holds, JobPCs, Rest, Procs

\* A step that gives nobody a run and takes no slot keeps every slot with its holder.
LEMMA SlotsKept ==
    ASSUME SlotPerHolder, UNCHANGED inflight,
           \A p \in Procs : Holds(p)' => Holds(p) /\ run'[p] = run[p]
    PROVE  SlotPerHolder'
BY DEF SlotPerHolder

LEMMA InflightFinite == TypeOK => IsFiniteSet(inflight)
<1> SUFFICES ASSUME TypeOK PROVE IsFiniteSet(inflight)
  OBVIOUS
<1>1. IsFiniteSet(Runs)
  BY BoundAssumption, FS_Interval DEF Runs
<1> QED
  BY <1>1, FS_Subset DEF TypeOK

\* Requests, the drain's reads and the start-up hook's give nobody a run.
LEMMA SlotsOthers ==
    ASSUME Typing, SlotPerHolder,
           \/ \E c \in Clients : Request(c) \/ ClientStep(c)
           \/ \E t \in Threads : DrainStep(t) \/ DrainRaises(t)
           \/ MainStep
    PROVE  SlotPerHolder'
<1> USE ProcessAssumption
    DEF Typing, TypeOK, Holds, Procs, JobPCs, Goto, rowVars, localVars, boundVars
<1>1. ASSUME NEW c \in Clients, Request(c) PROVE SlotPerHolder'
  BY <1>1, SlotsKept DEF Request, Admit, CancelFetch, ResumeFetch
<1>2. ASSUME NEW c \in Clients, ClientStep(c) PROVE SlotPerHolder'
  BY <1>2, SlotsKept DEF ClientStep, InsertRun, CancelSet, ResumeSet, ResumeUndo
<1>3. ASSUME NEW t \in Threads, DrainStep(t) \/ DrainRaises(t)
      PROVE  SlotPerHolder'
  BY <1>3, SlotsKept DEF DrainStep, DrainCheck, DrainScan, DrainPick, DrainRaises
<1>4. CASE MainStep
  BY <1>4, SlotsKept DEF MainStep, ReclaimScan, ReclaimNext, ReclaimDone
<1> QED
  BY <1>1, <1>2, <1>3, <1>4

LEMMA SlotsSubmit ==
    ASSUME Typing, SlotPerHolder, NEW p \in Procs, Submit(p) \/ SpawnRaises(p)
    PROVE  SlotPerHolder'
<1> USE ProcessAssumption
    DEF Typing, TypeOK, Procs, Goto, rowVars, localVars, boundVars
<1>1. CASE SubmitInFlight(p) \/ SubmitBusy(p)
  BY <1>1, SlotsKept DEF SubmitInFlight, SubmitBusy, AfterRunning, AfterQueued,
                         Holds, JobPCs
<1>2. CASE SubmitReserve(p)
  <2>1. /\ run[p] \notin inflight
        /\ Cardinality(inflight) < SIM_WORKERS
        /\ inflight' = inflight \cup {run[p]}
        /\ run' = run
        /\ pc' = [pc EXCEPT ![p] = "spawn"]
    BY <1>2 DEF SubmitReserve, Held, WorkerFree
  <2>2. \A q \in Procs : Holds(q)' => q = p \/ Holds(q)
    BY <2>1 DEF Holds
  <2>3. /\ \A q \in Procs : Holds(q)' => run'[q] \in inflight'
        /\ \A q, u \in Procs :
              Holds(q)' /\ Holds(u)' /\ run'[q] = run'[u] => q = u
    BY <2>1, <2>2 DEF SlotPerHolder
  <2>4. Cardinality(inflight') <= SIM_WORKERS
    <3>1. Cardinality(inflight') = Cardinality(inflight) + 1
      BY <2>1, InflightFinite, FS_AddElement
    <3>2. Cardinality(inflight) \in Nat
      BY InflightFinite, FS_CardinalityType
    <3> QED
      BY <2>1, <3>1, <3>2, ConfigAssumption
  <2> QED
    BY <2>3, <2>4 DEF SlotPerHolder
<1>3. ASSUME NEW t \in Threads, Spawn(p, t) PROVE SlotPerHolder'
  <2>1. /\ pc[p] = "spawn"
        /\ pc[t] = "free"
        /\ pc' = [pc EXCEPT ![p] = AfterRunning(p), ![t] = "load"]
        /\ run' = [run EXCEPT ![p] = None, ![t] = run[p]]
        /\ inflight' = inflight
    BY <1>3 DEF Spawn
  <2>2. p # t /\ Holds(p) /\ ~Holds(t) /\ ~Holds(p)'
    BY <2>1 DEF Holds, JobPCs, AfterRunning
  <2>3. \A q \in Procs : q # t /\ Holds(q)' => q # p /\ Holds(q) /\ run'[q] = run[q]
    BY <2>1, <2>2 DEF Holds
  <2>4. run'[t] = run[p]
    BY <2>1, <2>2
  <2> QED
    BY <2>1, <2>2, <2>3, <2>4 DEF SlotPerHolder
<1>4. CASE SpawnRaises(p)
  <2>1. \A q \in Procs : Holds(q)' => Holds(q) /\ run'[q] = run[q]
    BY <1>4 DEF SpawnRaises, AfterRaise, Holds, JobPCs
  <2> QED
    BY <1>4, <2>1, SlotsKept DEF SpawnRaises
<1> QED
  BY <1>1, <1>2, <1>3, <1>4 DEF Submit

LEMMA SlotsWorker ==
    ASSUME Typing, SlotPerHolder, NEW t \in Threads,
           JobStep(t) \/ JobRaises(t) \/ FailureUnrecorded(t)
    PROVE  SlotPerHolder'
<1> USE ProcessAssumption
    DEF Typing, TypeOK, Procs, Goto, rowVars, localVars, boundVars
<1>1. CASE Load(t) \/ Start(t) \/ SeeCancel(t) \/ Checkpoint(t)
  BY <1>1, SlotsKept DEF Load, Start, SeeCancel, Checkpoint, Holds, JobPCs
<1>2. CASE Pass(t)
  BY <1>2, SlotsKept DEF Pass, Holds, JobPCs
<1>3. CASE SettleCancelled(t) \/ Succeed(t) \/ RecordFailure(t)
  BY <1>3, SlotsKept DEF SettleCancelled, Succeed, RecordFailure, Holds, JobPCs
<1>4. CASE JobRaises(t) \/ FailureUnrecorded(t)
  BY <1>4, SlotsKept DEF JobRaises, FailureUnrecorded, Holds, JobPCs
<1>5. CASE Release(t)
  <2>1. /\ pc[t] = "release"
        /\ inflight' = inflight \ {run[t]}
        /\ run' = [run EXCEPT ![t] = None]
        /\ pc' = [pc EXCEPT ![t] = "drain"]
    BY <1>5 DEF Release, AfterRelease
  <2>2. Holds(t) /\ ~Holds(t)'
    BY <2>1 DEF Holds, JobPCs
  <2>3. \A q \in Procs : Holds(q)' => q # t /\ Holds(q) /\ run'[q] = run[q]
    BY <2>1, <2>2 DEF Holds
  <2>4. Cardinality(inflight') <= SIM_WORKERS
    <3>1. Cardinality(inflight') <= Cardinality(inflight)
      BY <2>1, InflightFinite, FS_Subset
    <3>2. Cardinality(inflight) \in Nat /\ Cardinality(inflight') \in Nat
      BY <2>1, InflightFinite, FS_CardinalityType, FS_Subset
    <3> QED
      BY <3>1, <3>2, ConfigAssumption DEF SlotPerHolder
  <2> QED
    BY <2>1, <2>2, <2>3, <2>4 DEF SlotPerHolder
<1> QED
  BY <1>1, <1>2, <1>3, <1>4, <1>5 DEF JobStep

LEMMA SlotsStep == Typing /\ SlotPerHolder /\ [Next]_vars => SlotPerHolder'
<1> SUFFICES ASSUME Typing, SlotPerHolder, [Next]_vars PROVE SlotPerHolder'
  OBVIOUS
<1>1. CASE \/ \E c \in Clients : Request(c) \/ ClientStep(c)
           \/ \E t \in Threads : DrainStep(t) \/ DrainRaises(t)
           \/ MainStep
  BY <1>1, SlotsOthers
<1>2. ASSUME NEW p \in Procs, Submit(p) \/ SpawnRaises(p) PROVE SlotPerHolder'
  BY <1>2, SlotsSubmit
<1>3. ASSUME NEW t \in Threads, JobStep(t) \/ JobRaises(t) \/ FailureUnrecorded(t)
      PROVE  SlotPerHolder'
  BY <1>3, SlotsWorker
<1>4. CASE Crash
  <2>1. inflight' = {} /\ \A p \in Procs : ~Holds(p)'
    BY <1>4, ProcessAssumption DEF Crash, Holds, JobPCs, Rest, Procs
  <2> QED
    BY <2>1, FS_EmptySet, ConfigAssumption DEF SlotPerHolder
<1>5. CASE Wait \/ UNCHANGED vars
  BY <1>5 DEF Wait, vars, rowVars, localVars, boundVars, SlotPerHolder, Holds
<1> QED
  BY <1>1, <1>2, <1>3, <1>4, <1>5 DEF Next, FaultStep

\* Whoever starts or executes a run has its slot alone, and there are at most
\* SIM_WORKERS slots: the invariant of the critical section in submit().
THEOREM SlotInvariant == Spec => []SlotPerHolder
<1>1. Init => Typing /\ SlotPerHolder
  BY TypingInit, SlotsInit
<1>2. Typing /\ SlotPerHolder /\ [Next]_vars => (Typing /\ SlotPerHolder)'
  BY TypingStep, SlotsStep
<1> QED
  BY <1>1, <1>2, PTL DEF Spec

\* No two workers ever execute the same run.
THEOREM ExclusiveWorkers == Spec => []OneWorkerPerRun
<1>1. SlotPerHolder => OneWorkerPerRun
  BY DEF SlotPerHolder, OneWorkerPerRun, Holds, Working, Procs
<1> QED
  BY <1>1, SlotInvariant, PTL

\* SIM_WORKERS bounds the workers exactly: run maps them one to one into _inflight.
THEOREM WorkersBounded == Spec => []WorkerBound
<1>1. ASSUME Typing, SlotPerHolder PROVE WorkerBound
  <2> DEFINE W == {t \in Threads : Working(t)}
             f == [t \in W |-> run[t]]
  <2>1. \A t \in W : Holds(t) /\ t \in Procs
    BY DEF Working, Holds, Procs
  <2>2. f \in Injection(W, inflight)
    BY <1>1, <2>1 DEF SlotPerHolder, Injection, IsInjective
  <2>3. IsFiniteSet(inflight)
    BY <1>1, InflightFinite DEF Typing
  <2>4. IsFiniteSet(W) /\ Cardinality(W) <= Cardinality(inflight)
    BY <2>2, <2>3, FS_Injection
  <2>5. Cardinality(W) \in Nat /\ Cardinality(inflight) \in Nat
    BY <2>3, <2>4, FS_CardinalityType
  <2> QED
    BY <1>1, <2>4, <2>5, ConfigAssumption DEF WorkerBound, SlotPerHolder
<1> QED
  BY <1>1, TypingInvariant, SlotInvariant, PTL

----------------------------------------------------------------------------
(* Checkpoints and results. *)

LEMMA PassesType ==
    ASSUME NEW n \in Nat
    PROVE  PassesUpTo(n) \in Seq(Nat) /\ Len(PassesUpTo(n)) = n
<1>1. PassesUpTo(n) \in [1..n -> Nat]
  BY DEF PassesUpTo
<1> QED
  BY <1>1 DEF PassesUpTo

LEMMA PassesAppend ==
    ASSUME NEW n \in Nat
    PROVE  Append(PassesUpTo(n), n) = PassesUpTo(n + 1)
<1>1. PassesUpTo(n) \in Seq(Nat) /\ Len(PassesUpTo(n)) = n
  BY PassesType
<1>2. Append(PassesUpTo(n), n) = [j \in 1..n + 1 |-> IF j <= n THEN j - 1 ELSE n]
  BY <1>1 DEF PassesUpTo
<1> QED
  BY <1>2 DEF PassesUpTo

LEMMA PassesZero == PassesUpTo(0) = << >>
BY DEF PassesUpTo

Work == /\ Typing
        /\ SlotPerHolder
        /\ AheadOfCheckpoint
        /\ CheckpointIsPrefix
        /\ OutputIsWhole

LEMMA WorkIsIndInv == Work <=> IndInv
BY DEF Work, IndInv, Typing

LEMMA WorkInit == Init => AheadOfCheckpoint /\ CheckpointIsPrefix /\ OutputIsWhole
<1> SUFFICES ASSUME Init
             PROVE  AheadOfCheckpoint /\ CheckpointIsPrefix /\ OutputIsWhole
  OBVIOUS
<1>1. AheadOfCheckpoint
  BY ProcessAssumption DEF Init, AheadOfCheckpoint, Loaded, Procs, Rest
<1>2. CheckpointIsPrefix
  BY PassesZero, ConfigAssumption DEF Init, CheckpointIsPrefix
<1>3. OutputIsWhole
  BY DEF Init, OutputIsWhole
<1> QED
  BY <1>1, <1>2, <1>3

\* A step that writes no checkpoint and no output, loads nothing, and makes no row
\* SUCCEEDED keeps all three facts.
LEMMA WorkKept ==
    ASSUME Work,
           UNCHANGED <<partial, output>>,
           \A t \in Threads : Loaded(t)' =>
              /\ Loaded(t) /\ run'[t] = run[t]
              /\ sums'[t] = sums[t] /\ next'[t] = next[t],
           \A r \in Runs : status'[r] = "SUCCEEDED" => status[r] = "SUCCEEDED"
    PROVE  AheadOfCheckpoint' /\ CheckpointIsPrefix' /\ OutputIsWhole'
<1>1. AheadOfCheckpoint'
  BY DEF Work, AheadOfCheckpoint
<1>2. CheckpointIsPrefix'
  BY DEF Work, CheckpointIsPrefix
<1>3. OutputIsWhole'
  BY DEF Work, OutputIsWhole
<1> QED
  BY <1>1, <1>2, <1>3

LEMMA WorkRequests ==
    ASSUME Work, NEW c \in Clients, Request(c) \/ ClientStep(c)
    PROVE  AheadOfCheckpoint' /\ CheckpointIsPrefix' /\ OutputIsWhole'
<1> USE ProcessAssumption, BoundAssumption
    DEF Typing, TypeOK, RunInHand, PrevHeld, Procs, AtRun, Loaded, Goto,
        rowVars, localVars, boundVars
<1>1. ASSUME Request(c)
      PROVE  AheadOfCheckpoint' /\ CheckpointIsPrefix' /\ OutputIsWhole'
  <2>1. Typing
    BY DEF Work
  <2> QED
    BY <1>1, <2>1, WorkKept DEF Request, Admit, CancelFetch, ResumeFetch
<1>2. ASSUME ClientStep(c)
      PROVE  AheadOfCheckpoint' /\ CheckpointIsPrefix' /\ OutputIsWhole'
  <2>1. Typing
    BY DEF Work
  <2>2. UNCHANGED <<partial, output, sums, next>>
    BY <1>2 DEF ClientStep, InsertRun, CancelSet, ResumeSet, ResumeUndo
  <2>3. \A t \in Threads : pc'[t] = pc[t] /\ run'[t] = run[t]
    BY <1>2, <2>1 DEF ClientStep, InsertRun, CancelSet, ResumeSet, ResumeUndo
  <2>4. \A r \in Runs : status'[r] = "SUCCEEDED" => status[r] = "SUCCEEDED"
    BY <1>2, <2>1 DEF ClientStep, InsertRun, CancelSet, ResumeSet, ResumeUndo
  <2> QED
    BY <2>2, <2>3, <2>4, WorkKept
<1> QED
  BY <1>1, <1>2

LEMMA WorkSubmit ==
    ASSUME Work, NEW p \in Procs, Submit(p) \/ SpawnRaises(p)
    PROVE  AheadOfCheckpoint' /\ CheckpointIsPrefix' /\ OutputIsWhole'
<1>1. Typing
  BY DEF Work
<1>2. UNCHANGED <<status, partial, output, sums, next>>
  BY DEF Submit, SubmitInFlight, SubmitBusy, SubmitReserve, Spawn, SpawnRaises,
         rowVars, localVars
<1>3. \A t \in Threads : Loaded(t)' => Loaded(t) /\ run'[t] = run[t]
  <2> USE <1>1 DEF Typing, TypeOK, Loaded, Goto, Procs, AfterRunning, AfterQueued,
                   AfterRaise, localVars
  <2>1. CASE SubmitInFlight(p) \/ SubmitBusy(p)
    BY <2>1 DEF SubmitInFlight, SubmitBusy
  <2>2. CASE SubmitReserve(p) \/ SpawnRaises(p)
    BY <2>2 DEF SubmitReserve, SpawnRaises
  <2>3. ASSUME NEW u \in Threads, Spawn(p, u)
        PROVE  \A t \in Threads : Loaded(t)' => Loaded(t) /\ run'[t] = run[t]
    BY <2>3 DEF Spawn
  <2> QED
    BY <2>1, <2>2, <2>3 DEF Submit
<1> QED
  BY <1>2, <1>3, WorkKept

LEMMA WorkOthers ==
    ASSUME Work,
           \/ \E t \in Threads :
                \/ DrainStep(t) \/ DrainRaises(t)
                \/ JobRaises(t) \/ FailureUnrecorded(t)
                \/ SeeCancel(t) \/ RecordFailure(t) \/ Release(t)
           \/ MainStep \/ Crash
    PROVE  AheadOfCheckpoint' /\ CheckpointIsPrefix' /\ OutputIsWhole'
<1> USE ProcessAssumption
    DEF Typing, TypeOK, Procs, Loaded, JobPCs, Goto, rowVars, localVars, boundVars
<1>1. Typing
  BY DEF Work
<1>2. ASSUME NEW t \in Threads, DrainStep(t) \/ DrainRaises(t)
      PROVE  AheadOfCheckpoint' /\ CheckpointIsPrefix' /\ OutputIsWhole'
  BY <1>1, <1>2, WorkKept
  DEF DrainStep, DrainCheck, DrainScan, DrainPick, DrainRaises
<1>3. ASSUME NEW t \in Threads,
             \/ JobRaises(t) \/ FailureUnrecorded(t)
             \/ SeeCancel(t) \/ RecordFailure(t) \/ Release(t)
      PROVE  AheadOfCheckpoint' /\ CheckpointIsPrefix' /\ OutputIsWhole'
  BY <1>1, <1>3, WorkKept
  DEF JobRaises, FailureUnrecorded, SeeCancel, RecordFailure, Release, AfterRelease
<1>4. CASE MainStep
  BY <1>1, <1>4, WorkKept DEF MainStep, ReclaimScan, ReclaimNext, ReclaimDone
<1>5. CASE Crash
  BY <1>1, <1>5, WorkKept DEF Crash, Rest
<1> QED
  BY <1>2, <1>3, <1>4, <1>5

\* The steps of run_job that load, extend or write back the summaries.
Writes(t) == Checkpoint(t) \/ SettleCancelled(t) \/ Succeed(t)

\* What such a write puts into the row: a longer prefix, by the only worker of the run.
LEMMA WriteIsPrefix ==
    ASSUME Work, NEW t \in Threads, Writes(t)
    PROVE  /\ run[t] \in Runs
           /\ sums[t] = PassesUpTo(next[t])
           /\ next[t] \in 0..Passes
           /\ Len(sums[t]) = next[t]
           /\ Len(partial[run[t]]) <= next[t]
           /\ partial' = [partial EXCEPT ![run[t]] = sums[t]]
           /\ UNCHANGED <<run, sums, next>>
           /\ \A u \in Threads \ {t} : Loaded(u) => run[u] # run[t]
<1>1. Loaded(t) /\ pc[t] \in JobPCs
  BY DEF Writes, Checkpoint, SettleCancelled, Succeed, Loaded, JobPCs
<1>2. next[t] \in Nat /\ run[t] \in Runs
  BY <1>1 DEF Work, Typing, TypeOK, RunInHand, AtRun, Procs
<1>3. /\ sums[t] = PassesUpTo(next[t])
      /\ next[t] \in 0..Passes
      /\ Len(partial[run[t]]) <= next[t]
  BY <1>1, <1>2, ConfigAssumption DEF Work, AheadOfCheckpoint
<1>4. Len(sums[t]) = next[t]
  BY <1>2, <1>3, PassesType
<1>5. /\ partial' = [partial EXCEPT ![run[t]] = sums[t]]
      /\ UNCHANGED <<run, sums, next>>
  BY DEF Writes, Checkpoint, SettleCancelled, Succeed, localVars
<1>6. \A u \in Threads \ {t} : Loaded(u) => run[u] # run[t]
  BY <1>1 DEF Work, SlotPerHolder, Holds, Loaded, JobPCs, Procs
<1> QED
  BY <1>2, <1>3, <1>4, <1>5, <1>6

LEMMA WorkWrites ==
    ASSUME Work, NEW t \in Threads, Writes(t)
    PROVE  AheadOfCheckpoint' /\ CheckpointIsPrefix' /\ OutputIsWhole'
<1>1. /\ partial \in [Runs -> Seq(Nat)]
      /\ output \in [Runs -> Seq(Nat) \cup {None}]
      /\ status \in [Runs -> Statuses]
      /\ pc \in [Procs -> ClientPCs \cup ThreadPCs \cup MainPCs]
  BY DEF Work, Typing, TypeOK
<1>2. \A u \in Threads : Loaded(u)' => Loaded(u)
  BY <1>1 DEF Writes, Checkpoint, SettleCancelled, Succeed, Loaded, Goto, Procs
<1>3. AheadOfCheckpoint'
  <2> SUFFICES ASSUME NEW u \in Threads, Loaded(u)'
               PROVE  /\ sums[u] = PassesUpTo(next[u])
                      /\ next[u] <= Passes
                      /\ Len(partial'[run[u]]) <= next[u]
    BY WriteIsPrefix DEF AheadOfCheckpoint
  <2>1. Loaded(u)
    BY <1>2
  <2>2. /\ sums[u] = PassesUpTo(next[u])
        /\ next[u] <= Passes
        /\ Len(partial[run[u]]) <= next[u]
    BY <2>1 DEF Work, AheadOfCheckpoint
  <2>3. CASE u = t
    <3>1. partial'[run[t]] = sums[t]
      BY <1>1, WriteIsPrefix
    <3> QED
      BY <2>2, <2>3, <3>1, WriteIsPrefix
  <2>4. CASE u # t
    <3>1. run[u] \in Runs
      BY <2>1 DEF Work, Typing, RunInHand, AtRun, Loaded, JobPCs, Procs
    <3>2. run[u] # run[t]
      BY <2>1, <2>4, WriteIsPrefix
    <3>3. partial'[run[u]] = partial[run[u]]
      BY <1>1, <3>1, <3>2, WriteIsPrefix
    <3> QED
      BY <2>2, <3>3
  <2> QED
    BY <2>3, <2>4
<1>4. CheckpointIsPrefix'
  <2> SUFFICES ASSUME NEW r \in Runs
               PROVE  /\ partial'[r] = PassesUpTo(Len(partial'[r]))
                      /\ Len(partial'[r]) <= Passes
    BY DEF CheckpointIsPrefix
  <2>1. CASE r = run[t]
    <3>1. partial'[r] = sums[t]
      BY <1>1, <2>1, WriteIsPrefix
    <3> QED
      BY <3>1, WriteIsPrefix
  <2>2. CASE r # run[t]
    <3>1. partial'[r] = partial[r]
      BY <1>1, <2>2, WriteIsPrefix
    <3> QED
      BY <3>1 DEF Work, CheckpointIsPrefix
  <2> QED
    BY <2>1, <2>2
<1>5. OutputIsWhole'
  <2>1. CASE Checkpoint(t) \/ SettleCancelled(t)
    BY <1>1, <2>1, WriteIsPrefix
    DEF Work, OutputIsWhole, Checkpoint, SettleCancelled
  <2>2. CASE Succeed(t)
    <3>1. /\ status' = [status EXCEPT ![run[t]] = "SUCCEEDED"]
          /\ output' = [output EXCEPT ![run[t]] = sums[t]]
          /\ next[t] = Passes
      BY <2>2 DEF Succeed
    <3>2. sums[t] = PassesUpTo(Passes) /\ sums[t] # None
      BY <3>1, WriteIsPrefix, PassesType, ConfigAssumption, BoundAssumption
    <3> QED
      BY <1>1, <3>1, <3>2 DEF Work, OutputIsWhole
  <2> QED
    BY <2>1, <2>2 DEF Writes
<1> QED
  BY <1>3, <1>4, <1>5

LEMMA WorkPass ==
    ASSUME Work, NEW t \in Threads, Load(t) \/ Start(t) \/ Pass(t)
    PROVE  AheadOfCheckpoint' /\ CheckpointIsPrefix' /\ OutputIsWhole'
<1>1. Typing
  BY DEF Work
<1>2. run[t] \in Runs
  BY <1>1 DEF Typing, RunInHand, AtRun, JobPCs, Procs, Load, Start, Pass
<1>3. CASE Start(t)
  BY <1>1, <1>3, WorkKept
  DEF Start, Typing, TypeOK, Loaded, Goto, Procs, localVars
<1>4. UNCHANGED <<partial, output, run>> /\ (Load(t) \/ Pass(t) => status' = status)
  BY DEF Load, Start, Pass, rowVars, localVars
<1>5. ASSUME Load(t) \/ Pass(t), Loaded(t)'
      PROVE  /\ sums'[t] = PassesUpTo(next'[t])
             /\ next'[t] <= Passes
             /\ Len(partial[run[t]]) <= next'[t]
  <2>1. CASE Load(t)
    <3>1. sums'[t] = partial[run[t]] /\ next'[t] = Len(partial[run[t]])
      BY <1>1, <1>5, <2>1
      DEF Load, SavedSummaries, FirstPass, Loaded, Goto, Typing, TypeOK, Procs
    <3>2. Len(partial[run[t]]) \in Nat
      BY <1>1, <1>2 DEF Typing, TypeOK
    <3> QED
      BY <1>2, <3>1, <3>2 DEF Work, CheckpointIsPrefix
  <2>2. CASE Pass(t)
    <3>1. /\ next[t] \in Nat /\ next[t] < Passes
          /\ sums[t] = PassesUpTo(next[t])
          /\ Len(partial[run[t]]) <= next[t]
      BY <1>1, <2>2 DEF Pass, Work, AheadOfCheckpoint, Loaded, Typing, TypeOK
    <3>2. /\ sums'[t] = Append(sums[t], next[t])
          /\ next'[t] = next[t] + 1
      BY <1>1, <2>2 DEF Pass, Typing, TypeOK
    <3>3. Len(partial[run[t]]) \in Nat
      BY <1>1, <1>2 DEF Typing, TypeOK
    <3>4. sums'[t] = PassesUpTo(next[t] + 1)
      BY <3>1, <3>2, PassesAppend
    <3>5. next[t] + 1 <= Passes /\ Len(partial[run[t]]) <= next[t] + 1
      BY <3>1, <3>3, ConfigAssumption
    <3> QED
      BY <3>2, <3>4, <3>5
  <2> QED
    BY <1>5, <2>1, <2>2
<1>6. CASE Load(t) \/ Pass(t)
  <2>1. \A u \in Threads \ {t} : /\ pc'[u] = pc[u]
                                 /\ sums'[u] = sums[u]
                                 /\ next'[u] = next[u]
    BY <1>1, <1>6 DEF Load, Pass, Goto, Typing, TypeOK, Procs
  <2>2. AheadOfCheckpoint'
    BY <1>4, <1>5, <1>6, <2>1 DEF Work, AheadOfCheckpoint, Loaded
  <2>3. CheckpointIsPrefix' /\ OutputIsWhole'
    BY <1>4, <1>6 DEF Work, CheckpointIsPrefix, OutputIsWhole
  <2> QED
    BY <2>2, <2>3
<1> QED
  BY <1>3, <1>6

LEMMA WorkStep == Work /\ [Next]_vars => Work'
<1> SUFFICES ASSUME Work, [Next]_vars PROVE Work'
  OBVIOUS
<1>1. Typing' /\ SlotPerHolder'
  BY TypingStep, SlotsStep DEF Work
<1>2. AheadOfCheckpoint' /\ CheckpointIsPrefix' /\ OutputIsWhole'
  <2>1. ASSUME NEW c \in Clients, Request(c) \/ ClientStep(c)
        PROVE  AheadOfCheckpoint' /\ CheckpointIsPrefix' /\ OutputIsWhole'
    BY <2>1, WorkRequests
  <2>2. ASSUME NEW p \in Procs, Submit(p) \/ SpawnRaises(p)
        PROVE  AheadOfCheckpoint' /\ CheckpointIsPrefix' /\ OutputIsWhole'
    BY <2>2, WorkSubmit
  <2>3. ASSUME NEW t \in Threads, Load(t) \/ Start(t) \/ Pass(t)
        PROVE  AheadOfCheckpoint' /\ CheckpointIsPrefix' /\ OutputIsWhole'
    BY <2>3, WorkPass
  <2>4. ASSUME NEW t \in Threads, Writes(t)
        PROVE  AheadOfCheckpoint' /\ CheckpointIsPrefix' /\ OutputIsWhole'
    BY <2>4, WorkWrites
  <2>5. CASE \/ \E t \in Threads :
                  \/ DrainStep(t) \/ DrainRaises(t)
                  \/ JobRaises(t) \/ FailureUnrecorded(t)
                  \/ SeeCancel(t) \/ RecordFailure(t) \/ Release(t)
             \/ MainStep \/ Crash
    BY <2>5, WorkOthers
  <2>6. CASE Wait \/ UNCHANGED vars
    BY <2>6 DEF Wait, vars, rowVars, localVars, boundVars, Work, Loaded,
                AheadOfCheckpoint, CheckpointIsPrefix, OutputIsWhole
  <2> QED
    BY <2>1, <2>2, <2>3, <2>4, <2>5, <2>6 DEF Next, FaultStep, JobStep, Writes
<1> QED
  BY <1>1, <1>2 DEF Work

LEMMA WorkInvariant == Spec => []Work
<1>1. Init => Work
  BY TypingInit, SlotsInit, WorkInit DEF Work
<1> QED
  BY <1>1, WorkStep, PTL DEF Spec

\* The whole inductive invariant: what every worker holds is a prefix of the ensemble
\* at least as long as the row's checkpoint, and nobody else holds that run.
THEOREM Inductive == Spec => []IndInv
BY WorkInvariant, WorkIsIndInv, PTL

\* However a run is crashed, cancelled, failed and resumed, its checkpoint is the first
\* passes in order and its output the whole ensemble: what it would have been anyway.
THEOREM ResumeReproduces == Spec => []Reproducible
<1>1. Work => Reproducible
  BY DEF Work, Reproducible, CheckpointIsPrefix, OutputIsWhole
<1> QED
  BY <1>1, WorkInvariant, PTL

LEMMA PartialWriters ==
    ASSUME Work, [Next]_vars
    PROVE  UNCHANGED <<partial, output>> \/ \E t \in Threads : Writes(t)
<1> USE DEF rowVars, localVars
<1>1. CASE \E c \in Clients : Request(c) \/ ClientStep(c)
  BY <1>1 DEF Request, Admit, CancelFetch, ResumeFetch, ClientStep, InsertRun,
              CancelSet, ResumeSet, ResumeUndo
<1>2. CASE \E p \in Procs : Submit(p) \/ SpawnRaises(p)
  BY <1>2 DEF Submit, SubmitInFlight, SubmitBusy, SubmitReserve, Spawn, SpawnRaises
<1>3. CASE \E t \in Threads : JobStep(t)
  BY <1>3 DEF JobStep, Load, Start, SeeCancel, Pass, RecordFailure, Release, Writes
<1>4. CASE \E t \in Threads : \/ DrainStep(t) \/ JobRaises(t)
                              \/ FailureUnrecorded(t) \/ DrainRaises(t)
  BY <1>4 DEF DrainStep, DrainCheck, DrainScan, DrainPick, JobRaises,
              FailureUnrecorded, DrainRaises
<1>5. CASE MainStep \/ Crash
  BY <1>5 DEF MainStep, ReclaimScan, ReclaimNext, ReclaimDone, Crash
<1>6. CASE Wait \/ UNCHANGED vars
  BY <1>6 DEF Wait, vars
<1> QED
  BY <1>1, <1>2, <1>3, <1>4, <1>5, <1>6 DEF Next, FaultStep

\* No write of a checkpoint, cancellation or success loses passes a row already had.
THEOREM ProgressKept == Spec => CheckpointNeverShrinks
<1>1. ASSUME Work, [Next]_vars
      PROVE  \A r \in Runs : Len(partial'[r]) >= Len(partial[r])
  <2>1. \A r \in Runs : Len(partial[r]) \in Nat
    BY <1>1 DEF Work, Typing, TypeOK
  <2>2. CASE UNCHANGED partial
    BY <2>1, <2>2
  <2>3. ASSUME NEW t \in Threads, Writes(t)
        PROVE  \A r \in Runs : Len(partial'[r]) >= Len(partial[r])
    <3>1. partial \in [Runs -> Seq(Nat)]
      BY <1>1 DEF Work, Typing, TypeOK
    <3> QED
      BY <1>1, <2>1, <2>3, <3>1, WriteIsPrefix
  <2> QED
    BY <1>1, <2>2, <2>3, PartialWriters
<1> QED
  BY <1>1, WorkInvariant, PTL DEF Spec, CheckpointNeverShrinks

\* A stored result is final, though its row may be requeued and executed again.
THEOREM ResultFinal == Spec => OutputNeverChanges
<1>1. ASSUME Work, [Next]_vars
      PROVE  \A r \in Runs : output[r] # None => output'[r] = output[r]
  <2>1. CASE UNCHANGED output
    BY <2>1
  <2>2. ASSUME NEW t \in Threads, Writes(t)
        PROVE  \A r \in Runs : output[r] # None => output'[r] = output[r]
    <3>1. output \in [Runs -> Seq(Nat) \cup {None}]
      BY <1>1 DEF Work, Typing, TypeOK
    <3>2. CASE Checkpoint(t) \/ SettleCancelled(t)
      BY <3>2 DEF Checkpoint, SettleCancelled
    <3>3. CASE Succeed(t)
      <4>1. output' = [output EXCEPT ![run[t]] = PassesUpTo(Passes)]
        BY <1>1, <2>2, <3>3, WriteIsPrefix DEF Succeed
      <4> QED
        BY <1>1, <3>1, <4>1 DEF Work, OutputIsWhole
    <3> QED
      BY <2>2, <3>2, <3>3 DEF Writes
  <2> QED
    BY <1>1, <2>1, <2>2, PartialWriters
<1> QED
  BY <1>1, WorkInvariant, PTL DEF Spec, OutputNeverChanges

LEMMA PromiseStep ==
    ASSUME NEW r \in Runs, Promise!Advance(r) \/ Promise!Publish(r)
    PROVE  Promise!Next
BY DEF Promise!Next

\* The job runner implements the abstract run: completed passes only grow, and a result
\* is published once, with the last pass.
THEOREM RunnerKeepsPromise == Spec => KeepsPromise
<1> DEFINE View == Promise!Next \/ UNCHANGED Promise!vars
<1>1. Init => Promise!Init
  <2> SUFFICES ASSUME Init PROVE Promise!Init
    OBVIOUS
  <2>1. \A r \in Runs : Len(partial[r]) = 0 /\ output[r] = None
    BY DEF Init
  <2> QED
    BY <2>1 DEF Promise!Init
<1>2. ASSUME Work, [Next]_vars PROVE View
  <2>1. CASE UNCHANGED <<partial, output>>
    BY <2>1 DEF Promise!vars
  <2>2. ASSUME NEW t \in Threads, Writes(t) PROVE View
    <3>0. PICK r \in Runs : r = run[t]
      BY <1>2, <2>2, WriteIsPrefix
    <3> DEFINE done == [q \in Runs |-> Len(partial[q])]
               published == {q \in Runs : output[q] # None}
    <3>1. /\ r \in Runs
          /\ partial \in [Runs -> Seq(Nat)]
          /\ output \in [Runs -> Seq(Nat) \cup {None}]
          /\ partial' = [partial EXCEPT ![r] = sums[t]]
          /\ Len(sums[t]) = next[t] /\ next[t] \in 0..Passes
          /\ Len(partial[r]) \in Nat /\ Len(partial[r]) <= next[t]
      BY <1>2, <2>2, <3>0, WriteIsPrefix DEF Work, Typing, TypeOK
    <3>2. done' = [done EXCEPT ![r] = next[t]]
      BY <3>1
    <3>3. CASE Checkpoint(t) \/ SettleCancelled(t)
      <4>1. output' = output
        BY <3>3 DEF Checkpoint, SettleCancelled
      <4>2. published' = published
        BY <4>1
      <4>3. CASE next[t] = done[r]
        <5>1. done' = done
          BY <3>1, <3>2, <4>3
        <5> QED
          BY <4>2, <5>1 DEF Promise!vars
      <4>4. CASE next[t] # done[r]
        <5>1. next[t] > done[r]
          BY <3>1, <4>4
        <5>2. Promise!Advance(r)
          BY <3>1, <3>2, <4>2, <5>1 DEF Promise!Advance
        <5> QED
          BY <3>1, <5>2, PromiseStep
      <4> QED
        BY <4>3, <4>4
    <3>4. CASE Succeed(t)
      <4>1. /\ next[t] = Passes
            /\ output' = [output EXCEPT ![r] = PassesUpTo(Passes)]
        BY <1>2, <2>2, <3>0, <3>4, WriteIsPrefix DEF Succeed
      <4>2. PassesUpTo(Passes) # None
        BY PassesType, ConfigAssumption, BoundAssumption
      <4>3. published' = published \cup {r}
        BY <3>1, <4>1, <4>2
      <4>4. CASE r \in published
        <5>1. output[r] = PassesUpTo(Passes)
          BY <1>2, <3>1, <4>4 DEF Work, OutputIsWhole
        <5>2. CASE done[r] = Passes
          <6>1. done' = done
            BY <3>1, <3>2, <4>1, <5>2
          <6>2. published' = published
            BY <4>3, <4>4
          <6> QED
            BY <6>1, <6>2 DEF Promise!vars
        <5>3. CASE done[r] # Passes
          <6>1. next[t] > done[r]
            BY <3>1, <4>1, <5>3
          <6>2. published' = published
            BY <4>3, <4>4
          <6>3. Promise!Advance(r)
            BY <3>1, <3>2, <6>1, <6>2 DEF Promise!Advance
          <6> QED
            BY <3>1, <6>3, PromiseStep
        <5> QED
          BY <5>2, <5>3
      <4>5. CASE r \notin published
        <5>1. Promise!Publish(r)
          BY <3>2, <4>1, <4>3, <4>5 DEF Promise!Publish
        <5> QED
          BY <3>1, <5>1, PromiseStep
      <4> QED
        BY <4>4, <4>5
    <3> QED
      BY <2>2, <3>3, <3>4 DEF Writes
  <2> QED
    BY <1>2, <2>1, <2>2, PartialWriters
<1> QED
  BY <1>1, <1>2, WorkInvariant, PTL DEF Spec, KeepsPromise, Promise!Spec

----------------------------------------------------------------------------
(* Rows in hand. *)

LEMMA RowsInit == Init => RowsInHand
BY ProcessAssumption, BoundAssumption
DEF Init, RowsInHand, Rest, Procs, AtRun, JobPCs, Runs

\* A step keeps RowsInHand if it takes no row away, and what a process newly has in
\* hand, has read or remembers has one.
LEMMA RowsKept ==
    ASSUME Typing, RowsInHand,
           \A r \in Runs : status'[r] # "CANCELLING",
           \A r \in Runs : status[r] # "ABSENT" => status'[r] # "ABSENT",
           \A p \in Procs : pc'[p] \in AtRun =>
              \/ pc[p] \in AtRun /\ run'[p] = run[p]
              \/ run'[p] \in Runs /\ status'[run'[p]] # "ABSENT",
           \A p \in Threads \cup {Main} : \A r \in snap'[p] :
              \/ r \in snap[p]
              \/ r \in Runs /\ status'[r] # "ABSENT",
           \A c \in Clients : \/ prev'[c] \in {prev[c], None}
                              \/ prev'[c] \notin {"ABSENT", "CANCELLING"}
    PROVE  RowsInHand'
<1>1. \A p \in Procs : pc'[p] \in AtRun => status'[run'[p]] # "ABSENT"
  BY DEF RowsInHand, Typing, RunInHand
<1>2. \A p \in Threads \cup {Main} : \A r \in snap'[p] : status'[r] # "ABSENT"
  BY DEF RowsInHand, Typing, TypeOK
<1> QED
  BY <1>1, <1>2 DEF RowsInHand

LEMMA RowsRoutes ==
    ASSUME Typing, RowsInHand, NEW c \in Clients, Request(c) \/ ClientStep(c)
    PROVE  RowsInHand'
<1> USE ProcessAssumption
    DEF Typing, TypeOK, RunInHand, RowsInHand, Procs, AtRun, JobPCs, Goto, 
        rowVars, localVars, boundVars
<1>1. CASE Admit(c)
  BY <1>1, RowsKept DEF Admit
<1>2. CASE InsertRun(c)
  <2>1. created + 1 \in Runs
    BY <1>2, BoundAssumption DEF InsertRun, Runs
  <2> QED
    BY <1>2, <2>1, RowsKept DEF InsertRun
<1>3. ASSUME NEW r \in Runs, CancelFetch(c, r) PROVE RowsInHand'
  BY <1>3, RowsKept DEF CancelFetch
<1>4. CASE CancelSet(c)
  BY <1>4, RowsKept DEF CancelSet
<1>5. ASSUME NEW r \in Runs, ResumeFetch(c, r) PROVE RowsInHand'
  BY <1>5, RowsKept DEF ResumeFetch
<1>6. CASE ResumeSet(c)
  BY <1>6, RowsKept DEF ResumeSet
<1>7. CASE ResumeUndo(c)
  BY <1>7, RowsKept DEF ResumeUndo, PrevHeld
<1> QED
  BY <1>1, <1>2, <1>3, <1>4, <1>5, <1>6, <1>7 DEF Request, ClientStep

LEMMA RowsSubmit ==
    ASSUME Typing, RowsInHand, NEW p \in Procs, Submit(p) \/ SpawnRaises(p)
    PROVE  RowsInHand'
<1> USE ProcessAssumption
    DEF Typing, TypeOK, RunInHand, RowsInHand, Procs, AtRun, JobPCs, Goto,
        AfterRunning, AfterQueued, AfterRaise, ClearPrev, rowVars, localVars, boundVars
<1>1. CASE SubmitInFlight(p) \/ SubmitBusy(p)
  BY <1>1, RowsKept DEF SubmitInFlight, SubmitBusy
<1>2. CASE SubmitReserve(p)
  BY <1>2, RowsKept DEF SubmitReserve
<1>3. ASSUME NEW t \in Threads, Spawn(p, t) PROVE RowsInHand'
  <2>1. run[p] \in Runs /\ status[run[p]] # "ABSENT" /\ p # t
    BY <1>3 DEF Spawn
  <2>2. \A q \in Procs : pc'[q] \in AtRun =>
              \/ pc[q] \in AtRun /\ run'[q] = run[q]
              \/ run'[q] = run[p]
    BY <1>3, <2>1 DEF Spawn
  <2>3. UNCHANGED <<status, snap>> /\ \A c \in Clients : prev'[c] \in {prev[c], None}
    BY <1>3 DEF Spawn
  <2> QED
    BY <2>1, <2>2, <2>3, RowsKept
<1>4. CASE SpawnRaises(p)
  BY <1>4, RowsKept DEF SpawnRaises
<1> QED
  BY <1>1, <1>2, <1>3, <1>4 DEF Submit

LEMMA RowsWorker ==
    ASSUME Typing, RowsInHand, NEW t \in Threads,
           \/ JobStep(t) \/ DrainStep(t)
           \/ JobRaises(t) \/ FailureUnrecorded(t) \/ DrainRaises(t)
    PROVE  RowsInHand'
<1> USE ProcessAssumption
    DEF Typing, TypeOK, RunInHand, RowsInHand, Procs, AtRun, JobPCs, Goto,
        rowVars, localVars, boundVars
<1>1. CASE Load(t)
  BY <1>1, RowsKept DEF Load
<1>2. CASE Start(t) \/ SettleCancelled(t) \/ Succeed(t) \/ RecordFailure(t)
  BY <1>2, RowsKept DEF Start, SettleCancelled, Succeed, RecordFailure
<1>3. CASE SeeCancel(t) \/ Pass(t) \/ Checkpoint(t)
  BY <1>3, RowsKept DEF SeeCancel, Pass, Checkpoint
<1>4. CASE Release(t)
  BY <1>4, RowsKept DEF Release, AfterRelease
<1>5. CASE DrainCheck(t) \/ DrainScan(t)
  <2>1. CASE DrainCheck(t)
    BY <2>1, RowsKept DEF DrainCheck
  <2>2. CASE DrainScan(t)
    <3>1. /\ snap' = [snap EXCEPT ![t] = {r \in Runs : status[r] = "QUEUED"}]
          /\ UNCHANGED <<status, run, prev>>
          /\ pc' = [pc EXCEPT ![t] = "pick"]
      BY <2>2 DEF DrainScan
    <3>2. \A p \in Threads \cup {Main} : \A r \in snap'[p] :
             \/ r \in snap[p]
             \/ r \in Runs /\ status'[r] # "ABSENT"
      BY <3>1
    <3>3. \A p \in Procs : pc'[p] \in AtRun => pc[p] \in AtRun /\ run'[p] = run[p]
      BY <3>1
    <3> QED
      BY <3>1, <3>2, <3>3, RowsKept
  <2> QED
    BY <1>5, <2>1, <2>2
<1>6. CASE DrainPick(t)
  <2>1. \A q \in Procs : pc'[q] \in AtRun =>
              \/ pc[q] \in AtRun /\ run'[q] = run[q]
              \/ run'[q] \in snap[t]
    BY <1>6 DEF DrainPick
  <2>2. \A r \in snap[t] : r \in Runs /\ status[r] # "ABSENT"
    OBVIOUS
  <2>3. status' = status /\ prev' = prev /\ snap' = [snap EXCEPT ![t] = {}]
    BY <1>6 DEF DrainPick
  <2> QED
    BY <2>1, <2>2, <2>3, RowsKept
<1>7. CASE JobRaises(t) \/ FailureUnrecorded(t) \/ DrainRaises(t)
  BY <1>7, RowsKept DEF JobRaises, FailureUnrecorded, DrainRaises
<1> QED
  BY <1>1, <1>2, <1>3, <1>4, <1>5, <1>6, <1>7 DEF JobStep, DrainStep

LEMMA RowsStep == Typing /\ RowsInHand /\ [Next]_vars => RowsInHand'
<1> SUFFICES ASSUME Typing, RowsInHand, [Next]_vars PROVE RowsInHand'
  OBVIOUS
<1>1. ASSUME NEW c \in Clients, Request(c) \/ ClientStep(c) PROVE RowsInHand'
  BY <1>1, RowsRoutes
<1>2. ASSUME NEW p \in Procs, Submit(p) \/ SpawnRaises(p) PROVE RowsInHand'
  BY <1>2, RowsSubmit
<1>3. ASSUME NEW t \in Threads,
             \/ JobStep(t) \/ DrainStep(t)
             \/ JobRaises(t) \/ FailureUnrecorded(t) \/ DrainRaises(t)
      PROVE  RowsInHand'
  BY <1>3, RowsWorker
<1>4. CASE MainStep
  <2> USE ProcessAssumption
      DEF Typing, TypeOK, RunInHand, RowsInHand, Procs, AtRun, JobPCs, Goto,
          rowVars, localVars, boundVars
  <2>1. CASE ReclaimScan
    BY <2>1, RowsKept DEF ReclaimScan, Reclaimable
  <2>2. CASE ReclaimNext
    BY <2>2, RowsKept DEF ReclaimNext
  <2>3. CASE ReclaimDone
    BY <2>3, RowsKept DEF ReclaimDone
  <2> QED
    BY <1>4, <2>1, <2>2, <2>3 DEF MainStep
<1>5. CASE Crash
  BY <1>5, ProcessAssumption
  DEF Crash, RowsInHand, Rest, Procs, AtRun, JobPCs, rowVars
<1>6. CASE Wait \/ UNCHANGED vars
  BY <1>6 DEF Wait, vars, rowVars, localVars, boundVars, RowsInHand
<1> QED
  BY <1>1, <1>2, <1>3, <1>4, <1>5, <1>6 DEF Next, FaultStep

----------------------------------------------------------------------------
(* Nothing is stranded. *)

LEMMA FaultRecords ==
    ASSUME TypeOK, NEW kind, Fault(kind)
    PROVE  /\ Suffered(kind)'
           /\ \A k : Suffered(k) => Suffered(k)'
<1>1. /\ faults \in Seq(FaultKinds)
      /\ faults' = Append(faults, kind)
      /\ kind \in FaultKinds
  BY DEF TypeOK, Fault
<1>2. /\ DOMAIN faults = 1..Len(faults)
      /\ DOMAIN faults' = 1..(Len(faults) + 1)
      /\ Len(faults) \in Nat
  BY <1>1
<1>3. \A i \in DOMAIN faults : i \in DOMAIN faults' /\ faults'[i] = faults[i]
  BY <1>1, <1>2
<1>4. Len(faults) + 1 \in DOMAIN faults' /\ faults'[Len(faults) + 1] = kind
  BY <1>1, <1>2
<1> QED
  BY <1>3, <1>4 DEF Suffered

\* A run submitted at this instant is awaited.
LEMMA AwaitedInHand ==
    ASSUME NEW p \in Procs, pc'[p] = "submit"
    PROVE  \A r : r = run'[p] => Awaited(r)'
BY DEF Awaited

LEMMA TendedInit == Init => Tended
<1> SUFFICES ASSUME Init PROVE Tended
  OBVIOUS
<1>1. pc[Main] = "boot" /\ inflight = {}
  BY DEF Init, Rest, Procs
<1>2. \A c \in Clients : pc[c] = "idle"
  BY ProcessAssumption DEF Init, Rest, Procs
<1>3. \A r \in Runs : status[r] = "ABSENT"
  BY DEF Init
<1> QED
  BY <1>1, <1>2, <1>3 DEF Tended

\* What is left to show of a step that changes no slot, takes nothing from a holder or
\* from a worker, and keeps whoever is responsible.
LEMMA TendedKept ==
    ASSUME Tended, inflight' = inflight,
           \A p \in Procs : Holds(p) => Holds(p)' /\ run'[p] = run[p],
           \A c \in Clients : pc'[c] # "resumeUndo",
           \A r \in Runs : /\ Executed(r) => Executed(r)'
                           /\ Reclaiming(r) => Reclaiming(r)'
                           /\ Awaited(r) => Awaited(r)',
           \A r \in Runs : \/ status'[r] = status[r]
                           \/ status'[r] = "QUEUED" /\ Awaited(r)'
                           \/ status'[r] = "RUNNING" /\ Executed(r)'
                           \/ status'[r] \notin {"QUEUED", "RUNNING"}
    PROVE  Tended'
<1>1. \A r \in inflight' : \E p \in Procs : Holds(p)' /\ run'[p] = r
  BY DEF Tended
<1>2. \A r \in Runs : status'[r] = "RUNNING" => Executed(r)' \/ Reclaiming(r)'
  BY DEF Tended
<1>3. \A r \in Runs : status'[r] = "QUEUED" => Awaited(r)' \/ Reclaiming(r)'
  BY DEF Tended
<1> QED
  BY <1>1, <1>2, <1>3 DEF Tended

LEMMA TendedRoutes ==
    ASSUME Typing, Tended, NEW c \in Clients, Request(c) \/ ClientStep(c)
    PROVE  Tended'
<1> USE ProcessAssumption
    DEF Typing, TypeOK, RunInHand, Procs, AtRun, JobPCs, Holds, Goto,
        Executed, Reclaiming, Awaited, rowVars, localVars, boundVars
<1>1. CASE Admit(c)
  BY <1>1, TendedKept DEF Admit, Tended
<1>2. CASE InsertRun(c)
  <2>1. created + 1 \in Runs
    BY <1>2, BoundAssumption DEF InsertRun, Runs
  <2>2. /\ pc[c] = "insert"
        /\ pc' = [pc EXCEPT ![c] = "submit"]
        /\ run' = [run EXCEPT ![c] = created + 1]
        /\ status' = [status EXCEPT ![created + 1] = "QUEUED"]
        /\ UNCHANGED <<inflight, snap>>
    BY <1>2 DEF InsertRun
  <2>3. \A p \in Procs : p # c => pc'[p] = pc[p] /\ run'[p] = run[p]
    BY <2>2
  <2>4. pc'[c] = "submit" /\ run'[c] = created + 1
    BY <2>2
  <2>5. \A r \in Runs : /\ Executed(r) => Executed(r)'
                        /\ Reclaiming(r) => Reclaiming(r)'
                        /\ Awaited(r) => Awaited(r)'
    BY <2>2, <2>3, <2>4
  <2>6. \A r : r = created + 1 => Awaited(r)'
    BY <2>4, AwaitedInHand
  <2>7. \A p \in Procs : Holds(p) => Holds(p)' /\ run'[p] = run[p]
    BY <2>2, <2>3
  <2>8. \A d \in Clients : pc'[d] # "resumeUndo"
    BY <2>2, <2>3 DEF Tended
  <2>9. \A r \in Runs : \/ status'[r] = status[r]
                        \/ status'[r] = "QUEUED" /\ Awaited(r)'
    <3> HIDE DEF Awaited
    <3> QED
      BY <2>1, <2>2, <2>6
  <2> HIDE DEF Executed, Reclaiming, Awaited, Holds
  <2> QED
    BY <2>2, <2>5, <2>7, <2>8, <2>9, TendedKept
<1>3. ASSUME NEW r \in Runs, CancelFetch(c, r) PROVE Tended'
  BY <1>3, TendedKept DEF CancelFetch, Tended
<1>4. CASE CancelSet(c)
  BY <1>4, TendedKept DEF CancelSet, Tended
<1>5. ASSUME NEW r \in Runs, ResumeFetch(c, r) PROVE Tended'
  BY <1>5, TendedKept DEF ResumeFetch, Tended
<1>6. CASE ResumeSet(c)
  <2>1. run[c] \in Runs
    BY <1>6 DEF ResumeSet
  <2>2. /\ pc[c] = "resumeSet"
        /\ pc' = [pc EXCEPT ![c] = "submit"]
        /\ status' = [status EXCEPT ![run[c]] = "QUEUED"]
        /\ UNCHANGED <<inflight, snap, run>>
    BY <1>6 DEF ResumeSet
  <2>3. \A p \in Procs : p # c => pc'[p] = pc[p]
    BY <2>2
  <2>4. pc'[c] = "submit"
    BY <2>2
  <2>5. \A r \in Runs : /\ Executed(r) => Executed(r)'
                        /\ Reclaiming(r) => Reclaiming(r)'
                        /\ Awaited(r) => Awaited(r)'
    BY <2>2, <2>3, <2>4
  <2>6. \A r : r = run[c] => Awaited(r)'
    BY <2>2, <2>4, AwaitedInHand
  <2>7. \A p \in Procs : Holds(p) => Holds(p)' /\ run'[p] = run[p]
    BY <2>2, <2>3
  <2>8. \A d \in Clients : pc'[d] # "resumeUndo"
    BY <2>2, <2>3 DEF Tended
  <2>9. \A r \in Runs : \/ status'[r] = status[r]
                        \/ status'[r] = "QUEUED" /\ Awaited(r)'
    <3> HIDE DEF Awaited
    <3> QED
      BY <2>1, <2>2, <2>6
  <2> HIDE DEF Executed, Reclaiming, Awaited, Holds
  <2> QED
    BY <2>2, <2>5, <2>7, <2>8, <2>9, TendedKept
<1>7. CASE ResumeUndo(c)
  BY <1>7 DEF ResumeUndo, Tended
<1> QED
  BY <1>1, <1>2, <1>3, <1>4, <1>5, <1>6, <1>7 DEF Request, ClientStep

\* With a slot taken, every waiting run is awaited.
LEMMA TendedSlots ==
    ASSUME Tended, inflight' # {},
           \A r \in inflight' : \E p \in Procs : Holds(p)' /\ run'[p] = r,
           \A c \in Clients : pc'[c] # "resumeUndo",
           \A r \in Runs : /\ Executed(r) => Executed(r)'
                           /\ Reclaiming(r) => Reclaiming(r)',
           status' = status
    PROVE  Tended'
<1>1. \A r \in Runs : Awaited(r)'
  BY DEF Awaited
<1>2. \A r \in Runs : status'[r] = "RUNNING" => Executed(r)' \/ Reclaiming(r)'
  BY DEF Tended
<1> QED
  BY <1>1, <1>2 DEF Tended

LEMMA TendedSubmit ==
    ASSUME Typing, SlotPerHolder, Tended, NEW p \in Procs, Submit(p)
    PROVE  Tended'
<1> USE ProcessAssumption
    DEF Typing, TypeOK, Procs, Goto, AfterRunning, AfterQueued, rowVars, localVars,
        boundVars
<1>1. CASE SubmitInFlight(p) \/ SubmitBusy(p)
  <2>1. inflight # {}
    <3>1. CASE SubmitInFlight(p)
      BY <3>1 DEF SubmitInFlight, Held
    <3>2. CASE SubmitBusy(p)
      <4>1. ~(Cardinality(inflight) < SIM_WORKERS)
        BY <3>2 DEF SubmitBusy, WorkerFree
      <4>2. inflight = {} => Cardinality(inflight) = 0
        BY FS_EmptySet
      <4> QED
        BY <4>1, <4>2, ConfigAssumption
    <3> QED
      BY <1>1, <3>1, <3>2
  <2>2. /\ pc[p] = "submit"
        /\ pc' = [pc EXCEPT ![p] = pc'[p]]
        /\ pc'[p] \in {"idle", "drain", "free", "reclaim"}
        /\ p = Main => pc'[p] = "reclaim"
        /\ run' = [run EXCEPT ![p] = None]
        /\ UNCHANGED <<inflight, status, snap>>
    BY <1>1 DEF SubmitInFlight, SubmitBusy
  <2>3. \A q \in Procs : q # p => pc'[q] = pc[q] /\ run'[q] = run[q]
    BY <2>2
  <2>4. \A r \in inflight' : \E q \in Procs : Holds(q)' /\ run'[q] = r
    <3>1. \A q \in Procs : Holds(q) => Holds(q)' /\ run'[q] = run[q]
      BY <2>2, <2>3 DEF Holds, JobPCs
    <3> HIDE DEF Procs
    <3> QED
      BY <2>2, <3>1 DEF Tended
  <2>5. \A r \in Runs : /\ Executed(r) => Executed(r)'
                        /\ Reclaiming(r) => Reclaiming(r)'
    BY <2>2, <2>3 DEF Executed, Reclaiming, JobPCs
  <2>6. \A c \in Clients : pc'[c] # "resumeUndo"
    BY <2>2, <2>3 DEF Tended
  <2> QED
    BY <2>1, <2>2, <2>4, <2>5, <2>6, TendedSlots
<1>2. CASE SubmitReserve(p)
  <2>1. /\ pc[p] = "submit"
        /\ pc' = [pc EXCEPT ![p] = "spawn"]
        /\ inflight' = inflight \cup {run[p]}
        /\ UNCHANGED <<run, status, snap>>
    BY <1>2 DEF SubmitReserve
  <2>2. \A q \in Procs : q # p => pc'[q] = pc[q]
    BY <2>1
  <2>3. pc'[p] = "spawn"
    BY <2>1
  <2>4. \A r \in inflight' : \E q \in Procs : Holds(q)' /\ run'[q] = r
    <3>1. \A q \in Procs : Holds(q) => Holds(q)' /\ run'[q] = run[q]
      BY <2>1, <2>2 DEF Holds, JobPCs
    <3>2. Holds(p)' /\ run'[p] = run[p]
      BY <2>1, <2>3 DEF Holds
    <3> HIDE DEF Procs
    <3> QED
      BY <2>1, <3>1, <3>2 DEF Tended
  <2>5. \A r \in Runs : /\ Executed(r) => Executed(r)'
                        /\ Reclaiming(r) => Reclaiming(r)'
    BY <2>1, <2>2, <2>3 DEF Executed, Reclaiming, JobPCs
  <2>6. \A c \in Clients : pc'[c] # "resumeUndo"
    BY <2>2, <2>3 DEF Tended
  <2>7. inflight' # {}
    BY <2>1
  <2> QED
    BY <2>1, <2>4, <2>5, <2>6, <2>7, TendedSlots
<1>3. ASSUME NEW t \in Threads, Spawn(p, t) PROVE Tended'
  <2>1. /\ pc[p] = "spawn"
        /\ pc[t] = "free"
        /\ pc' = [pc EXCEPT ![p] = AfterRunning(p), ![t] = "load"]
        /\ run' = [run EXCEPT ![p] = None, ![t] = run[p]]
        /\ UNCHANGED <<inflight, status, snap>>
    BY <1>3 DEF Spawn
  <2>2. p # t /\ pc'[t] = "load" /\ run'[t] = run[p] /\ pc'[p] = AfterRunning(p)
    BY <2>1
  <2>3. \A q \in Procs : q \notin {p, t} => pc'[q] = pc[q] /\ run'[q] = run[q]
    BY <2>1
  <2>4. \A r \in inflight' : \E q \in Procs : Holds(q)' /\ run'[q] = r
    <3>1. Holds(t)' /\ run'[t] = run[p] /\ ~Holds(t) /\ t \in Procs
      BY <2>1, <2>2 DEF Holds, JobPCs
    <3>2. \A q \in Procs : Holds(q) /\ q # p => Holds(q)' /\ run'[q] = run[q]
      BY <2>3, <3>1 DEF Holds
    <3> HIDE DEF Procs
    <3> QED
      BY <2>1, <3>1, <3>2 DEF Tended
  <2>5. \A r \in Runs : /\ Executed(r) => Executed(r)'
                        /\ Reclaiming(r) => Reclaiming(r)'
    BY <2>1, <2>2, <2>3 DEF Executed, Reclaiming, JobPCs
  <2>6. \A c \in Clients : pc'[c] # "resumeUndo"
    BY <2>2, <2>3 DEF Tended
  <2>7. inflight' # {}
    BY <2>1 DEF SlotPerHolder, Holds
  <2> QED
    BY <2>1, <2>4, <2>5, <2>6, <2>7, TendedSlots
<1> QED
  BY <1>1, <1>2, <1>3 DEF Submit

LEMMA TendedWorker ==
    ASSUME Typing, SlotPerHolder, Tended, NEW t \in Threads,
           JobStep(t) \/ JobRaises(t)
    PROVE  Tended'
<1> USE ProcessAssumption
    DEF Typing, TypeOK, RunInHand, Procs, AtRun, JobPCs, Goto, rowVars, localVars,
        boundVars
<1>1. CASE (JobStep(t) /\ ~Release(t)) \/ JobRaises(t)
  <2>1. /\ pc[t] \in JobPCs \ {"release"}
        /\ pc' = [pc EXCEPT ![t] = pc'[t]]
        /\ pc'[t] \in JobPCs
        /\ UNCHANGED <<inflight, run, snap>>
    BY <1>1 DEF JobStep, Load, Start, SeeCancel, Pass, Checkpoint, SettleCancelled,
                Succeed, RecordFailure, JobRaises
  <2>2. run[t] \in inflight /\ run[t] \in Runs
    BY <2>1 DEF SlotPerHolder, Holds
  <2>3. \A q \in Procs : q # t => pc'[q] = pc[q]
    BY <2>1
  <2>4. \A r \in inflight' : \E q \in Procs : Holds(q)' /\ run'[q] = r
    <3>1. \A q \in Procs : Holds(q) => Holds(q)' /\ run'[q] = run[q]
      BY <2>1, <2>3 DEF Holds
    <3> HIDE DEF Procs
    <3> QED
      BY <2>1, <3>1 DEF Tended
  <2>5. \A r \in Runs : Reclaiming(r) => Reclaiming(r)'
    BY <2>1, <2>3 DEF Reclaiming
  <2>6. \A c \in Clients : pc'[c] # "resumeUndo"
    BY <2>1, <2>3 DEF Tended
  <2>7. \A r \in Runs : r # run[t] => (Executed(r) => Executed(r)')
    BY <2>1, <2>3 DEF Executed
  <2>8. \A r \in Runs : r # run[t] => status'[r] = status[r]
    BY <1>1, <2>2 DEF JobStep, Load, Start, SeeCancel, Pass, Checkpoint, SettleCancelled,
                Succeed, RecordFailure, JobRaises
  <2>9. status'[run[t]] = "RUNNING" => Executed(run[t])'
    <3>1. pc'[t] = "release" => status'[run[t]] # "RUNNING"
      BY <1>1, <2>1, <2>2
      DEF JobStep, Load, Start, SeeCancel, Pass, Checkpoint, SettleCancelled,
                Succeed, RecordFailure, JobRaises
    <3>2. pc'[t] # "release" => Executed(run[t])'
      BY <2>1 DEF Executed
    <3> QED
      BY <3>1, <3>2
  <2>10. \A r \in Runs : Awaited(r)'
    BY <2>1, <2>2 DEF Awaited
  <2>11. \A r \in Runs : status'[r] = "RUNNING" => Executed(r)' \/ Reclaiming(r)'
    <3> TAKE r \in Runs
    <3>1. CASE r = run[t]
      BY <2>1, <2>9, <3>1 DEF Executed
    <3>2. CASE r # run[t]
      BY <2>5, <2>7, <2>8, <3>2 DEF Tended
    <3> QED
      BY <3>1, <3>2
  <2> QED
    BY <2>4, <2>6, <2>10, <2>11 DEF Tended
<1>2. CASE Release(t)
  <2>1. /\ pc[t] = "release"
        /\ pc' = [pc EXCEPT ![t] = "drain"]
        /\ run' = [run EXCEPT ![t] = None]
        /\ inflight' = inflight \ {run[t]}
        /\ UNCHANGED <<status, snap>>
    BY <1>2 DEF Release, AfterRelease
  <2>2. \A q \in Procs : q # t => pc'[q] = pc[q] /\ run'[q] = run[q]
    BY <2>1
  <2>3. \A r \in inflight' : \E q \in Procs : Holds(q)' /\ run'[q] = r
    <3>1. \A q \in Procs : Holds(q) /\ run[q] # run[t] => Holds(q)' /\ run'[q] = run[q]
      BY <2>1, <2>2 DEF Holds
    <3> HIDE DEF Procs
    <3> QED
      BY <2>1, <3>1 DEF Tended
  <2>4. \A r \in Runs : /\ Executed(r) => Executed(r)'
                        /\ Reclaiming(r) => Reclaiming(r)'
    BY <2>1, <2>2 DEF Executed, Reclaiming
  <2>5. \A c \in Clients : pc'[c] # "resumeUndo"
    BY <2>1, <2>2 DEF Tended
  <2>6. \A r \in Runs : Awaited(r)'
    BY <2>1 DEF Awaited
  <2>7. \A r \in Runs : status'[r] = "RUNNING" => Executed(r)' \/ Reclaiming(r)'
    BY <2>1, <2>4 DEF Tended
  <2> QED
    BY <2>3, <2>5, <2>6, <2>7 DEF Tended
<1> QED
  BY <1>1, <1>2

LEMMA TendedDrain ==
    ASSUME Typing, Tended, NEW t \in Threads, DrainStep(t)
    PROVE  Tended'
<1> USE ProcessAssumption
    DEF Typing, TypeOK, Procs, JobPCs, Goto, rowVars, localVars, boundVars
<1>1. /\ pc[t] \in {"drain", "scan", "pick"}
      /\ pc' = [pc EXCEPT ![t] = pc'[t]]
      /\ pc'[t] \in {"free", "scan", "pick", "submit"}
      /\ run' = [run EXCEPT ![t] = run'[t]]
      /\ snap' = [snap EXCEPT ![t] = snap'[t]]
      /\ UNCHANGED <<inflight, status>>
  BY DEF DrainStep, DrainCheck, DrainScan, DrainPick
<1>2. \A q \in Procs : q # t => pc'[q] = pc[q] /\ run'[q] = run[q]
  BY <1>1
<1>3. \A r \in inflight' : \E q \in Procs : Holds(q)' /\ run'[q] = r
  <2>1. \A q \in Procs : Holds(q) => Holds(q)' /\ run'[q] = run[q]
    BY <1>1, <1>2 DEF Holds
  <2> HIDE DEF Procs
  <2> QED
    BY <1>1, <2>1 DEF Tended
<1>4. \A r \in Runs : /\ Executed(r) => Executed(r)'
                      /\ Reclaiming(r) => Reclaiming(r)'
  BY <1>1, <1>2 DEF Executed, Reclaiming
<1>5. \A c \in Clients : pc'[c] # "resumeUndo"
  BY <1>1, <1>2 DEF Tended
<1>6. \A r \in Runs : status[r] = "QUEUED" => Awaited(r)' \/ Reclaiming(r)'
  <2> TAKE r \in Runs
  <2> SUFFICES ASSUME status[r] = "QUEUED" PROVE Awaited(r)' \/ Reclaiming(r)'
    OBVIOUS
  <2>1. CASE DrainCheck(t)
    <3>1. CASE WorkerFree
      BY <2>1, <3>1 DEF DrainCheck, Awaited
    <3>2. CASE ~WorkerFree
      <4>1. inflight = {} => Cardinality(inflight) = 0
        BY FS_EmptySet
      <4>2. inflight # {}
        BY <3>2, <4>1, ConfigAssumption DEF WorkerFree
      <4> QED
        BY <1>1, <4>2 DEF Awaited
    <3> QED
      BY <3>1, <3>2
  <2>2. CASE DrainScan(t)
    BY <2>2 DEF DrainScan, Awaited
  <2>3. CASE DrainPick(t)
    <3>1. CASE pc'[t] = "submit"
      BY <3>1 DEF Awaited
    <3>2. CASE pc'[t] # "submit"
      <4>1. pc[t] = "pick" /\ snap[t] \subseteq inflight /\ pc'[t] = "free" /\ run' = run
        BY <2>3, <3>2 DEF DrainPick
      <4>2. CASE inflight # {}
        BY <1>1, <4>2 DEF Awaited
      <4>3. CASE inflight = {}
        <5>1. snap[t] = {}
          BY <4>1, <4>3
        <5>2. Awaited(r) => Awaited(r)'
          BY <1>1, <1>2, <4>1, <4>3, <5>1 DEF Awaited
        <5> QED
          BY <1>4, <5>2 DEF Tended
      <4> QED
        BY <4>2, <4>3
    <3> QED
      BY <3>1, <3>2
  <2> QED
    BY <2>1, <2>2, <2>3 DEF DrainStep
<1>7. \A r \in Runs : status'[r] = "RUNNING" => Executed(r)' \/ Reclaiming(r)'
  BY <1>1, <1>4 DEF Tended
<1> QED
  BY <1>1, <1>3, <1>5, <1>6, <1>7 DEF Tended

LEMMA TendedMain ==
    ASSUME Typing, RowsInHand, Tended, MainStep
    PROVE  Tended'
<1> USE ProcessAssumption
    DEF Typing, TypeOK, Procs, JobPCs, Goto, rowVars, localVars, boundVars
<1>1. /\ pc[Main] \in {"boot", "reclaim"}
      /\ pc' = [pc EXCEPT ![Main] = pc'[Main]]
      /\ pc'[Main] \in {"reclaim", "submit", "serving"}
      /\ run' = [run EXCEPT ![Main] = run'[Main]]
      /\ snap' = [snap EXCEPT ![Main] = snap'[Main]]
      /\ UNCHANGED inflight
  BY DEF MainStep, ReclaimScan, ReclaimNext, ReclaimDone
<1>2. \A q \in Procs : q # Main => pc'[q] = pc[q] /\ run'[q] = run[q]
  BY <1>1
<1>3. \A r \in inflight' : \E q \in Procs : Holds(q)' /\ run'[q] = r
  <2>1. \A q \in Procs : Holds(q) => Holds(q)' /\ run'[q] = run[q]
    BY <1>1, <1>2 DEF Holds
  <2> HIDE DEF Procs
  <2> QED
    BY <1>1, <2>1 DEF Tended
<1>4. \A r \in Runs : Executed(r) => Executed(r)'
  BY <1>1, <1>2 DEF Executed
<1>5. \A c \in Clients : pc'[c] # "resumeUndo"
  BY <1>1, <1>2 DEF Tended
<1>6. \A r \in Runs : Awaited(r) => Awaited(r)'
  BY <1>1, <1>2 DEF Awaited
<1>7. \A r \in Runs : /\ status'[r] = "RUNNING" => Executed(r)' \/ Reclaiming(r)'
                      /\ status'[r] = "QUEUED" => Awaited(r)' \/ Reclaiming(r)'
  <2> TAKE r \in Runs
  <2>1. CASE ReclaimScan
    BY <2>1 DEF ReclaimScan, Reclaimable, Reclaiming
  <2>2. CASE ReclaimNext
    <3>1. PICK q \in snap[Main] : /\ status' = [status EXCEPT ![q] = "QUEUED"]
                                  /\ snap' = [snap EXCEPT ![Main] = @ \ {q}]
                                  /\ run' = [run EXCEPT ![Main] = q]
                                  /\ pc' = [pc EXCEPT ![Main] = "submit"]
                                  /\ pc[Main] = "reclaim"
      BY <2>2 DEF ReclaimNext
    <3>2. CASE r = q
      <4>1. status'[r] = "QUEUED" /\ pc'[Main] = "submit" /\ run'[Main] = r
        BY <3>1, <3>2
      <4> QED
        BY <4>1 DEF Awaited
    <3>3. CASE r # q
      <4>1. status'[r] = status[r]
        BY <3>1, <3>3
      <4>2. Reclaiming(r) => Reclaiming(r)'
        BY <3>1, <3>3 DEF Reclaiming
      <4> QED
        BY <1>4, <1>6, <4>1, <4>2 DEF Tended
    <3> QED
      BY <3>2, <3>3
  <2>3. CASE ReclaimDone
    <3>1. ~Reclaiming(r) /\ status' = status
      BY <2>3 DEF ReclaimDone, Reclaiming
    <3> QED
      BY <1>4, <1>6, <3>1 DEF Tended
  <2> QED
    BY <2>1, <2>2, <2>3 DEF MainStep
<1> QED
  BY <1>3, <1>5, <1>7 DEF Tended

LEMMA TendedCrash ==
    ASSUME Crash
    PROVE  Tended'
<1>1. inflight' = {} /\ pc'[Main] = "boot"
  BY DEF Crash, Rest, Procs
<1>2. \A c \in Clients : pc'[c] = "idle"
  BY ProcessAssumption DEF Crash, Rest, Procs
<1> QED
  BY <1>1, <1>2 DEF Tended, Reclaiming

LEMMA ResponsibleStep ==
    Typing /\ SlotPerHolder /\ RowsInHand /\ Responsible /\ [Next]_vars => Responsible'
<1> SUFFICES ASSUME Typing, SlotPerHolder, RowsInHand, Responsible, [Next]_vars, Calm'
             PROVE  Tended'
  BY DEF Responsible
<1>0. TypeOK
  BY DEF Typing
<1>1. UNCHANGED faults => Tended
  BY DEF Responsible, Calm, Suffered
<1>2. ASSUME NEW c \in Clients, Request(c) \/ ClientStep(c) PROVE Tended'
  <2>1. UNCHANGED faults
    BY <1>2 DEF Request, Admit, CancelFetch, ResumeFetch, ClientStep, InsertRun,
                CancelSet, ResumeSet, ResumeUndo, boundVars
  <2> QED
    BY <1>1, <1>2, <2>1, TendedRoutes
<1>3. ASSUME NEW p \in Procs, Submit(p) PROVE Tended'
  <2>1. UNCHANGED faults
    BY <1>3 DEF Submit, SubmitInFlight, SubmitBusy, SubmitReserve, Spawn, boundVars
  <2> QED
    BY <1>1, <1>3, <2>1, TendedSubmit
<1>4. ASSUME NEW t \in Threads, JobStep(t) PROVE Tended'
  <2>1. UNCHANGED faults
    BY <1>4 DEF JobStep, Load, Start, SeeCancel, Pass, Checkpoint, SettleCancelled,
                Succeed, RecordFailure, Release, boundVars
  <2> QED
    BY <1>1, <1>4, <2>1, TendedWorker
<1>5. ASSUME NEW t \in Threads, DrainStep(t) PROVE Tended'
  <2>1. UNCHANGED faults
    BY <1>5 DEF DrainStep, DrainCheck, DrainScan, DrainPick, boundVars
  <2> QED
    BY <1>1, <1>5, <2>1, TendedDrain
<1>6. CASE MainStep
  <2>1. UNCHANGED faults
    BY <1>6 DEF MainStep, ReclaimScan, ReclaimNext, ReclaimDone, boundVars
  <2> QED
    BY <1>1, <1>6, <2>1, TendedMain
<1>7. ASSUME NEW t \in Threads, JobRaises(t) PROVE Tended'
  <2>1. Calm
    BY <1>0, <1>7, FaultRecords DEF JobRaises, Calm
  <2> QED
    BY <1>7, <2>1, TendedWorker DEF Responsible
<1>8. ASSUME NEW t \in Threads, FailureUnrecorded(t) \/ DrainRaises(t) PROVE FALSE
  BY <1>0, <1>8, FaultRecords DEF FailureUnrecorded, DrainRaises, Calm
<1>9. ASSUME NEW p \in Procs, SpawnRaises(p) PROVE FALSE
  BY <1>0, <1>9, FaultRecords DEF SpawnRaises, Calm
<1>10. CASE Crash
  BY <1>10, TendedCrash
<1>11. CASE Wait \/ UNCHANGED vars
  BY <1>1, <1>11
  DEF Wait, vars, rowVars, localVars, boundVars, Tended, Holds, Executed, Reclaiming, Awaited
<1> QED
  BY <1>2, <1>3, <1>4, <1>5, <1>6, <1>7, <1>8, <1>9, <1>10, <1>11 DEF Next, FaultStep

\* However requests, drains, crashes and restarts interleave, the answer "queued" and the
\* drain of a finishing worker never miss each other.
THEOREM NothingIsStranded == Spec => []NothingStranded
<1> DEFINE Inv == Typing /\ SlotPerHolder /\ RowsInHand /\ Responsible
<1>1. Init => Inv
  BY TypingInit, SlotsInit, RowsInit, TendedInit DEF Responsible
<1>2. Inv /\ [Next]_vars => Inv'
  BY TypingStep, SlotsStep, RowsStep, ResponsibleStep
<1>3. Inv => NothingStranded
  <2> SUFFICES ASSUME Inv, Quiet, Calm, NEW r \in Runs
               PROVE  status[r] \in Terminal \cup {"ABSENT"}
    BY DEF NothingStranded, Calm
  <2>1. Tended
    BY DEF Responsible
  <2>2. \A p \in Procs : pc[p] \in {"idle", "free", "serving"}
    BY DEF Quiet, Serving, Procs
  <2>3. inflight = {}
    BY <2>1, <2>2 DEF Tended, Holds, JobPCs, Typing, TypeOK
  <2>4. ~Reclaiming(r) /\ ~Executed(r) /\ ~Awaited(r)
    BY <2>2, <2>3 DEF Reclaiming, Executed, Awaited, JobPCs, Procs
  <2>5. status[r] \notin {"RUNNING", "QUEUED", "CANCELLING"}
    BY <2>1, <2>4 DEF Tended, RowsInHand
  <2> QED
    BY <2>5 DEF Typing, TypeOK, Statuses, InBacklog
<1> HIDE DEF Inv
<1> QED
  BY <1>1, <1>2, <1>3, PTL DEF Spec

----------------------------------------------------------------------------
(* The backlog bound. *)

\* The indices of the failures.
Failed == {i \in DOMAIN faults : faults[i] = "job"}

LEMMA FailedFinite == TypeOK => IsFiniteSet(Failed)
<1> SUFFICES ASSUME TypeOK PROVE IsFiniteSet(Failed)
  OBVIOUS
<1>1. DOMAIN faults = 1..Len(faults) /\ Len(faults) \in Int
  BY DEF TypeOK
<1>2. IsFiniteSet(1..Len(faults))
  BY <1>1, FS_Interval
<1>3. Failed \in SUBSET (1..Len(faults))
  BY <1>1 DEF Failed
<1> QED
  BY <1>2, <1>3, FS_Subset

LEMMA FailuresType == TypeOK => Failures \in Nat
<1>1. Failures = Cardinality(Failed)
  BY DEF Failures, Failed
<1> QED
  BY <1>1, FailedFinite, FS_CardinalityType

\* A failed pass counts one more; the other faults do not count.
LEMMA FailuresCount ==
    ASSUME TypeOK, NEW kind, Fault(kind)
    PROVE  Failures' = IF kind = "job" THEN Failures + 1 ELSE Failures
<1> DEFINE n == Len(faults) + 1
<1>1. /\ faults \in Seq(FaultKinds)
      /\ faults' = Append(faults, kind)
      /\ kind \in FaultKinds
  BY DEF TypeOK, Fault
<1>2. /\ DOMAIN faults = 1..Len(faults)
      /\ DOMAIN faults' = 1..n
      /\ Len(faults) \in Nat
  BY <1>1
<1>3. /\ \A i \in 1..Len(faults) : faults'[i] = faults[i]
      /\ faults'[n] = kind
  BY <1>1, <1>2
<1>4. 1..n = (1..Len(faults)) \cup {n} /\ n \notin 1..Len(faults)
  BY <1>2
<1>5. Failed' = IF kind = "job" THEN Failed \cup {n} ELSE Failed
  BY <1>2, <1>3, <1>4 DEF Failed
<1>6. IsFiniteSet(Failed) /\ n \notin Failed
  BY <1>2, <1>4, FailedFinite DEF Failed
<1>7. Cardinality(Failed \cup {n}) = Cardinality(Failed) + 1
  BY <1>6, FS_AddElement
<1>8. Failures = Cardinality(Failed) /\ Failures' = Cardinality(Failed')
  BY DEF Failures, Failed
<1> QED
  BY <1>5, <1>7, <1>8

LEMMA FiniteCounts ==
    /\ IsFiniteSet(Runs)
    /\ IsFiniteSet(Clients) /\ Cardinality(Clients) \in Nat
    /\ \A S \in SUBSET Runs : IsFiniteSet(S) /\ Cardinality(S) \in Nat
    /\ \A S \in SUBSET Clients : /\ IsFiniteSet(S)
                                 /\ Cardinality(S) \in Nat
                                 /\ Cardinality(S) <= Cardinality(Clients)
<1>1. IsFiniteSet(Runs)
  BY BoundAssumption, FS_Interval DEF Runs
<1>2. IsFiniteSet(Clients)
  <2>1. Clients \in SUBSET (Clients \cup Threads)
    OBVIOUS
  <2> QED
    BY <2>1, ProcessAssumption, FS_Subset
<1>3. Cardinality(Clients) \in Nat
  BY <1>2, FS_CardinalityType
<1>4. \A S \in SUBSET Runs : IsFiniteSet(S) /\ Cardinality(S) \in Nat
  BY <1>1, FS_Subset, FS_CardinalityType
<1>5. \A S \in SUBSET Clients : /\ IsFiniteSet(S)
                                /\ Cardinality(S) \in Nat
                                /\ Cardinality(S) <= Cardinality(Clients)
  BY <1>2, FS_Subset, FS_CardinalityType
<1> QED
  BY <1>1, <1>2, <1>3, <1>4, <1>5

\* The two sums of the invariant.
Charged(X) == Cardinality(X) <= requests + Failures
Within(X) == Cardinality(Counted(X)) + Cardinality(Inserting)
                 <= SIM_QUEUE_MAX + (Cardinality(Clients) - 1)

LEMMA AdmissionInvDef ==
    AdmissionInv <=> \E X \in SUBSET Runs : Charged(X) /\ Untouched(X) /\ Within(X)
BY DEF AdmissionInv, Charged, Within

LEMMA AdmissionInit == Init => AdmissionInv
<1> SUFFICES ASSUME Init PROVE AdmissionInv
  OBVIOUS
<1>1. /\ \A r \in Runs : status[r] = "ABSENT" /\ ~cancelReq[r]
      /\ \A c \in Clients : pc[c] = "idle" /\ prev[c] = None
      /\ \A t \in Threads : pc[t] = "free"
      /\ snap[Main] = {} /\ requests = 0 /\ faults = << >>
  BY ProcessAssumption DEF Init, Rest, Procs
<1>2. Charged({})
  <2>1. {i \in DOMAIN faults : faults[i] = "job"} = {}
    BY <1>1
  <2>2. Cardinality({}) = 0
    BY FS_EmptySet
  <2> QED
    <3>1. Failures = 0
      BY <2>1, <2>2 DEF Failures
    <3> QED
      BY <1>1, <2>2, <3>1 DEF Charged
<1>3. Untouched({})
  BY <1>1 DEF Untouched
<1>4. Within({})
  <2>1. Counted({}) = {} /\ Inserting = {}
    BY <1>1 DEF Counted, Inserting, InBacklog
  <2>2. Cardinality({}) = 0
    BY FS_EmptySet
  <2>3. Cardinality(Clients) \in Nat \ {0}
    <3>1. Cardinality(Clients) = 0 <=> Clients = {}
      BY FiniteCounts, FS_EmptySet
    <3> QED
      BY <3>1, FiniteCounts, ProcessAssumption
  <2> QED
    <3>1. Cardinality(Counted({})) = 0 /\ Cardinality(Inserting) = 0
      BY <2>1, <2>2
    <3> QED
      BY <2>3, <3>1, ConfigAssumption DEF Within
<1> QED
  BY <1>2, <1>3, <1>4, AdmissionInvDef

\* Rows may be added to X, each for a request or a failure that is counted.
LEMMA ChargedKept ==
    ASSUME TypeOK, NEW X \in SUBSET Runs, Charged(X),
           requests' = requests, Failures' = Failures
    PROVE  Charged(X)'
BY DEF Charged

LEMMA ChargedMore ==
    ASSUME TypeOK, NEW X \in SUBSET Runs, Charged(X), NEW r \in Runs,
           requests' + Failures' = requests + Failures + 1
    PROVE  Charged(X \cup {r})'
<1>1. Cardinality(X \cup {r}) <= Cardinality(X) + 1
  BY FiniteCounts, FS_AddElement
<1>2. Cardinality(X) \in Nat /\ Cardinality(X \cup {r}) \in Nat
  BY FiniteCounts
<1>3. requests \in Nat /\ Failures \in Nat
  BY FailuresType DEF TypeOK
<1> QED
  BY <1>1, <1>2, <1>3 DEF Charged

LEMMA UntouchedMore ==
    ASSUME NEW X \in SUBSET Runs, Untouched(X), NEW r \in Runs
    PROVE  Untouched(X \cup {r})
BY DEF Untouched

\* A step after which no more runs and requests count stays within the bound.
LEMMA WithinKept ==
    ASSUME Typing, NEW X \in SUBSET Runs, NEW Y \in SUBSET Runs, X \subseteq Y,
           Within(X), Counted(Y)' \subseteq Counted(Y), Inserting' \subseteq Inserting
    PROVE  Within(Y)'
<1>1. Counted(Y)' \subseteq Counted(X) /\ Counted(X) \in SUBSET Runs
  BY DEF Counted
<1>2. Inserting \in SUBSET Clients
  BY DEF Inserting
<1>3. /\ Cardinality(Counted(Y)') <= Cardinality(Counted(X))
      /\ Cardinality(Inserting') <= Cardinality(Inserting)
  BY <1>1, <1>2, FiniteCounts, FS_Subset
<1>4. /\ Cardinality(Counted(X)) \in Nat /\ Cardinality(Counted(Y)') \in Nat
      /\ Cardinality(Inserting) \in Nat /\ Cardinality(Inserting') \in Nat
      /\ Cardinality(Clients) \in Nat
  BY <1>1, <1>2, FiniteCounts
<1> QED
  BY <1>3, <1>4, ConfigAssumption DEF Within

\* A step keeps the rows outside Y as they are meant to be, and counts no more runs.
Keeps(Y) == /\ Untouched(Y)'
            /\ Counted(Y)' \subseteq Counted(Y)
            /\ Inserting' \subseteq Inserting

LEMMA KeepsRoutes ==
    ASSUME Typing, NEW Y \in SUBSET Runs, Untouched(Y), NEW c \in Clients,
           \/ \E r \in Y : CancelFetch(c, r) \/ ResumeFetch(c, r)
           \/ CancelSet(c) \/ ResumeSet(c) \/ ResumeUndo(c)
    PROVE  Keeps(Y)
<1> USE ProcessAssumption
    DEF Typing, TypeOK, RunInHand, Procs, AtRun, JobPCs, Goto, Serving, rowVars,
        localVars, boundVars
<1>1. ASSUME NEW r \in Y, CancelFetch(c, r) \/ ResumeFetch(c, r) PROVE Keeps(Y)
  <2>1. /\ pc[c] = "idle" /\ prev[c] = None
        /\ UNCHANGED <<status, cancelReq, snap>>
        /\ run' = [run EXCEPT ![c] = r]
        /\ pc' = [pc EXCEPT ![c] = pc'[c]]
        /\ pc'[c] \in {"cancelSet", "resumeSet"}
        /\ prev' = [prev EXCEPT ![c] = prev'[c]]
        /\ pc'[c] = "cancelSet" => prev' = prev
    BY <1>1 DEF CancelFetch, ResumeFetch, Untouched
  <2>2. Untouched(Y)'
    BY <2>1 DEF Untouched
  <2>3. Counted(Y)' \subseteq Counted(Y) /\ Inserting' \subseteq Inserting
    BY <2>1 DEF Counted, Inserting
  <2> QED
    BY <2>2, <2>3 DEF Keeps
<1>2. CASE CancelSet(c)
  <2>1. run[c] \in Y
    BY <1>2 DEF CancelSet, Untouched
  <2>2. Untouched(Y)'
    BY <1>2, <2>1 DEF CancelSet, Untouched
  <2>3. Counted(Y)' \subseteq Counted(Y) /\ Inserting' \subseteq Inserting
    BY <1>2 DEF CancelSet, Counted, Inserting
  <2> QED
    BY <2>2, <2>3 DEF Keeps
<1>3. CASE ResumeSet(c)
  <2>1. run[c] \in Y
    BY <1>3 DEF ResumeSet, Untouched
  <2>2. Untouched(Y)'
    BY <1>3, <2>1 DEF ResumeSet, Untouched
  <2>3. Counted(Y)' \subseteq Counted(Y) /\ Inserting' \subseteq Inserting
    BY <1>3, <2>1 DEF ResumeSet, Counted, Inserting
  <2> QED
    BY <2>2, <2>3 DEF Keeps
<1>4. CASE ResumeUndo(c)
  <2>1. run[c] \in Y
    BY <1>4 DEF ResumeUndo, Untouched
  <2>2. Untouched(Y)'
    BY <1>4, <2>1 DEF ResumeUndo, Untouched
  <2>3. Counted(Y)' \subseteq Counted(Y) /\ Inserting' \subseteq Inserting
    BY <1>4, <2>1 DEF ResumeUndo, Counted, Inserting
  <2> QED
    BY <2>2, <2>3 DEF Keeps
<1> QED
  BY <1>1, <1>2, <1>3, <1>4

LEMMA KeepsSubmit ==
    ASSUME Typing, RowsInHand, NEW Y \in SUBSET Runs, Untouched(Y), NEW p \in Procs,
           Submit(p) \/ SpawnRaises(p)
    PROVE  Keeps(Y)
<1> USE ProcessAssumption
    DEF Typing, TypeOK, RunInHand, Procs, AtRun, JobPCs, Goto, Serving, AfterRunning,
        AfterQueued, AfterRaise, ClearPrev, rowVars, localVars, boundVars
<1>1. CASE SubmitInFlight(p) \/ SubmitBusy(p)
  <2>1. /\ pc[p] = "submit"
        /\ UNCHANGED <<status, cancelReq, snap>>
        /\ run' = [run EXCEPT ![p] = None]
        /\ pc' = [pc EXCEPT ![p] = pc'[p]]
        /\ pc'[p] \in {"idle", "drain", "free", "reclaim"}
        /\ prev' = IF p \in Clients THEN [prev EXCEPT ![p] = None] ELSE prev
    BY <1>1 DEF SubmitInFlight, SubmitBusy
  <2>2. Untouched(Y)'
    BY <2>1 DEF Untouched
  <2>3. Counted(Y)' \subseteq Counted(Y) /\ Inserting' \subseteq Inserting
    BY <2>1 DEF Counted, Inserting
  <2> QED
    BY <2>2, <2>3 DEF Keeps
<1>2. CASE SubmitReserve(p)
  <2>1. Untouched(Y)'
    BY <1>2 DEF SubmitReserve, Untouched
  <2>2. Counted(Y)' \subseteq Counted(Y) /\ Inserting' \subseteq Inserting
    BY <1>2 DEF SubmitReserve, Counted, Inserting
  <2> QED
    BY <2>1, <2>2 DEF Keeps
<1>3. ASSUME NEW t \in Threads, Spawn(p, t) PROVE Keeps(Y)
  <2>1. /\ pc[p] = "spawn" /\ pc[t] = "free" /\ p # t
        /\ UNCHANGED <<status, cancelReq, snap>>
        /\ run' = [run EXCEPT ![p] = None, ![t] = run[p]]
        /\ pc' = [pc EXCEPT ![p] = AfterRunning(p), ![t] = "load"]
        /\ prev' = IF p \in Clients THEN [prev EXCEPT ![p] = None] ELSE prev
    BY <1>3 DEF Spawn
  <2>2. Untouched(Y)'
    BY <2>1 DEF Untouched
  <2>3. Counted(Y)' \subseteq Counted(Y) /\ Inserting' \subseteq Inserting
    BY <2>1 DEF Counted, Inserting
  <2> QED
    BY <2>2, <2>3 DEF Keeps
<1>4. CASE SpawnRaises(p)
  <2>1. /\ pc[p] = "spawn"
        /\ UNCHANGED <<status, cancelReq, snap, prev>>
        /\ pc' = [pc EXCEPT ![p] = AfterRaise(p)]
        /\ run' = IF AfterRaise(p) = "resumeUndo" THEN run
                  ELSE [run EXCEPT ![p] = None]
    BY <1>4 DEF SpawnRaises
  <2>2. Untouched(Y)'
    BY <2>1 DEF Untouched
  <2>3. Counted(Y)' \subseteq Counted(Y) /\ Inserting' \subseteq Inserting
    BY <2>1 DEF Counted, Inserting
  <2> QED
    BY <2>2, <2>3 DEF Keeps
<1> QED
  BY <1>1, <1>2, <1>3, <1>4 DEF Submit

LEMMA KeepsWorker ==
    ASSUME Typing, SlotPerHolder, RowsInHand, NEW Y \in SUBSET Runs, Untouched(Y),
           NEW t \in Threads,
           \/ JobStep(t) \/ DrainStep(t) \/ FailureUnrecorded(t) \/ DrainRaises(t)
           \/ JobRaises(t) /\ run[t] \in Y
    PROVE  Keeps(Y)
<1> USE ProcessAssumption
    DEF Typing, TypeOK, RunInHand, Procs, AtRun, JobPCs, Goto, Serving, rowVars,
        localVars, boundVars
<1>1. CASE Load(t)
  <2>1. Untouched(Y)'
    BY <1>1 DEF Load, Untouched
  <2>2. Counted(Y)' \subseteq Counted(Y) /\ Inserting' \subseteq Inserting
    BY <1>1 DEF Load, Counted, Inserting
  <2> QED
    BY <2>1, <2>2 DEF Keeps
<1>2. CASE Start(t)
  <2>1. run[t] \in Runs /\ status[run[t]] \notin {"ABSENT", "CANCELLING"}
    BY <1>2 DEF Start, RowsInHand
  <2>2. run[t] \notin Y => status[run[t]] \in InBacklog
    BY <1>2, <2>1 DEF Start, Untouched, Statuses, Terminal, InBacklog
  <2>3. Untouched(Y)'
    BY <1>2, <2>1 DEF Start, Untouched
  <2>4. Counted(Y)' \subseteq Counted(Y) /\ Inserting' \subseteq Inserting
    BY <1>2, <2>1, <2>2 DEF Start, Counted, Inserting
  <2> QED
    BY <2>3, <2>4 DEF Keeps
<1>3. CASE SeeCancel(t) \/ Pass(t) \/ Checkpoint(t)
  <2>1. /\ UNCHANGED <<status, cancelReq, snap, prev, run>>
        /\ pc' = [pc EXCEPT ![t] = pc'[t]]
        /\ pc'[t] \in {"settle", "check", "checkpoint"}
        /\ pc'[t] = "settle" => run[t] \in Y
    BY <1>3 DEF SeeCancel, Pass, Checkpoint, Untouched
  <2>2. Untouched(Y)'
    BY <2>1 DEF Untouched
  <2>3. Counted(Y)' \subseteq Counted(Y) /\ Inserting' \subseteq Inserting
    BY <2>1 DEF Counted, Inserting
  <2> QED
    BY <2>2, <2>3 DEF Keeps
<1>4. CASE SettleCancelled(t) \/ RecordFailure(t)
  <2>1. /\ run[t] \in Y
        /\ UNCHANGED <<cancelReq, snap, prev, run>>
        /\ pc' = [pc EXCEPT ![t] = "release"]
        /\ \E s \in Terminal : status' = [status EXCEPT ![run[t]] = s]
    BY <1>4 DEF SettleCancelled, RecordFailure, Untouched, Terminal
  <2>2. Untouched(Y)'
    BY <2>1 DEF Untouched
  <2>3. Counted(Y)' \subseteq Counted(Y) /\ Inserting' \subseteq Inserting
    BY <2>1 DEF Counted, Inserting
  <2> QED
    BY <2>2, <2>3 DEF Keeps
<1>5. CASE Succeed(t)
  <2>1. run[t] \in Runs /\ pc[t] = "check"
    BY <1>5 DEF Succeed
  <2>2. \A u \in Threads \ {t} : pc[u] = "start" => run[u] # run[t]
    BY <2>1 DEF SlotPerHolder, Holds
  <2>3. Untouched(Y)'
    BY <1>5, <2>1, <2>2 DEF Succeed, Untouched
  <2>4. Counted(Y)' \subseteq Counted(Y) /\ Inserting' \subseteq Inserting
    BY <1>5, <2>1 DEF Succeed, Counted, Inserting, InBacklog
  <2> QED
    BY <2>3, <2>4 DEF Keeps
<1>6. CASE Release(t) \/ DrainStep(t)
  <2>1. /\ UNCHANGED <<status, cancelReq, prev>>
        /\ run' = [run EXCEPT ![t] = run'[t]]
        /\ snap' = [snap EXCEPT ![t] = snap'[t]]
        /\ pc' = [pc EXCEPT ![t] = pc'[t]]
        /\ pc'[t] \in {"drain", "free", "scan", "pick", "submit"}
    BY <1>6 DEF Release, AfterRelease, DrainStep, DrainCheck, DrainScan, DrainPick
  <2>2. Untouched(Y)'
    BY <2>1 DEF Untouched
  <2>3. Counted(Y)' \subseteq Counted(Y) /\ Inserting' \subseteq Inserting
    BY <2>1 DEF Counted, Inserting
  <2> QED
    BY <2>2, <2>3 DEF Keeps
<1>7. CASE \/ FailureUnrecorded(t) \/ DrainRaises(t)
           \/ JobRaises(t) /\ run[t] \in Y
  <2>1. /\ UNCHANGED <<status, cancelReq, prev, run, snap>>
        /\ pc' = [pc EXCEPT ![t] = pc'[t]]
        /\ pc'[t] \in {"fail", "release", "free"}
        /\ pc'[t] = "fail" => run[t] \in Y
    BY <1>7 DEF FailureUnrecorded, DrainRaises, JobRaises
  <2>2. Untouched(Y)'
    BY <2>1 DEF Untouched
  <2>3. Counted(Y)' \subseteq Counted(Y) /\ Inserting' \subseteq Inserting
    BY <2>1 DEF Counted, Inserting
  <2> QED
    BY <2>2, <2>3 DEF Keeps
<1> QED
  BY <1>1, <1>2, <1>3, <1>4, <1>5, <1>6, <1>7 DEF JobStep

LEMMA KeepsMain ==
    ASSUME Typing, RowsInHand, NEW Y \in SUBSET Runs, Untouched(Y), MainStep \/ Crash
    PROVE  Keeps(Y)
<1> USE ProcessAssumption
    DEF Typing, TypeOK, RunInHand, Procs, AtRun, JobPCs, Goto, Serving, rowVars,
        localVars, boundVars
<1>1. CASE ReclaimScan
  <2>1. status' = status
    BY <1>1 DEF ReclaimScan, RowsInHand
  <2>2. Untouched(Y)'
    BY <1>1, <2>1 DEF ReclaimScan, Untouched
  <2>3. Counted(Y)' \subseteq Counted(Y) /\ Inserting' \subseteq Inserting
    BY <1>1, <2>1 DEF ReclaimScan, Reclaimable, Counted, Inserting, InBacklog
  <2> QED
    BY <2>2, <2>3 DEF Keeps
<1>2. CASE ReclaimNext
  <2>1. PICK r \in snap[Main] :
           /\ status' = [status EXCEPT ![r] = "QUEUED"]
           /\ cancelReq' = [cancelReq EXCEPT ![r] = FALSE]
           /\ snap' = [snap EXCEPT ![Main] = @ \ {r}]
           /\ run' = [run EXCEPT ![Main] = r]
           /\ pc' = [pc EXCEPT ![Main] = "submit"]
           /\ prev' = prev /\ pc[Main] = "reclaim" /\ r \in Runs
    BY <1>2 DEF ReclaimNext
  <2>2. Untouched(Y)'
    BY <2>1 DEF Untouched
  <2>3. Counted(Y)' \subseteq Counted(Y) /\ Inserting' \subseteq Inserting
    BY <2>1 DEF Counted, Inserting
  <2> QED
    BY <2>2, <2>3 DEF Keeps
<1>3. CASE ReclaimDone
  <2>1. Untouched(Y)'
    BY <1>3 DEF ReclaimDone, Untouched
  <2>2. Counted(Y)' \subseteq Counted(Y) /\ Inserting' \subseteq Inserting
    BY <1>3 DEF ReclaimDone, Counted, Inserting
  <2> QED
    BY <2>1, <2>2 DEF Keeps
<1>4. CASE Crash
  <2>1. /\ \A c \in Clients : pc'[c] = "idle" /\ prev'[c] = None
        /\ \A t \in Threads : pc'[t] = "free"
        /\ snap'[Main] = {} /\ status' = status /\ cancelReq' = cancelReq
    BY <1>4 DEF Crash, Rest
  <2>2. Untouched(Y)'
    BY <2>1 DEF Untouched
  <2>3. Counted(Y)' \subseteq Counted(Y) /\ Inserting' \subseteq Inserting
    BY <2>1 DEF Counted, Inserting
  <2> QED
    BY <2>2, <2>3 DEF Keeps
<1> QED
  BY <1>1, <1>2, <1>3, <1>4 DEF MainStep

\* The admission test leaves room for the request it admits, and for every other one.
LEMMA WithinAdmit ==
    ASSUME Typing, NEW X \in SUBSET Runs, NEW c \in Clients, Within(X), Admit(c)
    PROVE  Within(X)'
<1>1. /\ pc[Main] = "serving"
      /\ pc' = [pc EXCEPT ![c] = "insert"]
      /\ UNCHANGED <<status, snap>>
      /\ Backlog < SIM_QUEUE_MAX
  BY DEF Admit, Serving, RoomInBacklog, Goto, rowVars, localVars
<1>2. pc'[Main] = "serving"
  BY <1>1, ProcessAssumption DEF Typing, TypeOK, Procs
<1>3. Counted(X)' \subseteq {r \in Runs : status[r] \in InBacklog}
  BY <1>1, <1>2 DEF Counted, Serving
<1>4. Cardinality(Counted(X)') <= Backlog
  BY <1>3, FiniteCounts, FS_Subset DEF Backlog
<1>5. Cardinality(Counted(X)') \in Nat /\ Backlog \in Nat
  BY <1>3, FiniteCounts DEF Backlog
<1>6. /\ Cardinality(Inserting') \in Nat
      /\ Cardinality(Inserting') <= Cardinality(Clients)
      /\ Cardinality(Clients) \in Nat
  BY FiniteCounts DEF Inserting
<1> QED
  BY <1>1, <1>4, <1>5, <1>6, ConfigAssumption DEF Within

\* An insert turns a request that counts into a run that counts.
LEMMA WithinInsert ==
    ASSUME Typing, NEW X \in SUBSET Runs, NEW c \in Clients, Within(X), InsertRun(c)
    PROVE  Within(X)'
<1>1. /\ pc[c] = "insert"
      /\ pc' = [pc EXCEPT ![c] = "submit"]
      /\ status' = [status EXCEPT ![created + 1] = "QUEUED"]
      /\ snap' = snap
      /\ created + 1 \in Runs
  BY BoundAssumption DEF InsertRun, Goto, Typing, TypeOK, Runs
<1>2. pc'[Main] = pc[Main]
  BY <1>1, ProcessAssumption DEF Typing, TypeOK, Procs
<1>3. Counted(X)' \subseteq Counted(X) \cup {created + 1}
  BY <1>1, <1>2 DEF Counted, Serving, Typing, TypeOK
<1>4. c \in Inserting /\ Inserting' = Inserting \ {c}
  BY <1>1, ProcessAssumption DEF Inserting, Typing, TypeOK, Procs
<1>5. Counted(X) \in SUBSET Runs /\ Inserting \in SUBSET Clients
  BY DEF Counted, Inserting
<1>6. /\ IsFiniteSet(Counted(X)) /\ Cardinality(Counted(X)) \in Nat
      /\ IsFiniteSet(Inserting) /\ Cardinality(Inserting) \in Nat
      /\ Cardinality(Clients) \in Nat
  BY <1>5, FiniteCounts
<1>7. /\ IsFiniteSet(Counted(X) \cup {created + 1})
      /\ Cardinality(Counted(X) \cup {created + 1}) <= Cardinality(Counted(X)) + 1
  <2>1. /\ IsFiniteSet(Counted(X) \cup {created + 1})
        /\ \/ Cardinality(Counted(X) \cup {created + 1}) = Cardinality(Counted(X))
           \/ Cardinality(Counted(X) \cup {created + 1}) = Cardinality(Counted(X)) + 1
    <3>1. IsFiniteSet(Counted(X))
      BY <1>6
    <3> QED
      BY <3>1, FS_AddElement
  <2> QED
    BY <1>6, <2>1
<1>8. /\ Cardinality(Counted(X)') <= Cardinality(Counted(X) \cup {created + 1})
      /\ Cardinality(Counted(X)') \in Nat
      /\ Cardinality(Counted(X) \cup {created + 1}) \in Nat
  <2>1. /\ IsFiniteSet(Counted(X)')
        /\ Cardinality(Counted(X)') <= Cardinality(Counted(X) \cup {created + 1})
    BY <1>3, <1>7, FS_Subset
  <2> QED
    BY <1>7, <2>1, FS_CardinalityType
<1>9. Cardinality(Inserting') = Cardinality(Inserting) - 1
  BY <1>4, <1>6, FS_RemoveElement
<1> QED
  BY <1>6, <1>7, <1>8, <1>9, ConfigAssumption DEF Within

LEMMA UntouchedAdmission ==
    ASSUME Typing, NEW X \in SUBSET Runs, Untouched(X), NEW c \in Clients,
           Admit(c) \/ InsertRun(c)
    PROVE  Untouched(X)'
<1> USE ProcessAssumption DEF Typing, TypeOK, Procs, Goto, rowVars, localVars
<1>1. CASE Admit(c)
  BY <1>1 DEF Admit, Untouched
<1>2. CASE InsertRun(c)
  BY <1>2 DEF InsertRun, Untouched
<1> QED
  BY <1>1, <1>2

\* A step that keeps the rows outside X, and counts no request and no failure.
LEMMA AdmissionKept ==
    ASSUME Typing, NEW X \in SUBSET Runs, Charged(X), Within(X), Keeps(X),
           requests' = requests, Failures' = Failures
    PROVE  AdmissionInv'
<1>1. Charged(X)'
  BY ChargedKept DEF Typing
<1>2. Within(X)'
  BY WithinKept DEF Keeps
<1>3. Untouched(X)'
  BY DEF Keeps
<1> QED
  BY <1>1, <1>2, <1>3 DEF AdmissionInv, Charged, Within

\* A step that touches one more row, for a request or a failure that is counted.
LEMMA AdmissionMore ==
    ASSUME Typing, NEW X \in SUBSET Runs, Charged(X), Within(X), NEW r \in Runs,
           Keeps(X \cup {r}), requests' + Failures' = requests + Failures + 1
    PROVE  AdmissionInv'
<1> DEFINE Y == X \cup {r}
<1>0. Y \in SUBSET Runs
  OBVIOUS
<1>1. Charged(Y)'
  BY ChargedMore DEF Typing
<1>2. Within(Y)'
  BY <1>0, WithinKept DEF Keeps
<1>3. Untouched(Y)'
  BY DEF Keeps
<1> HIDE DEF Y
<1> QED
  BY <1>0, <1>1, <1>2, <1>3 DEF AdmissionInv, Charged, Within

LEMMA AdmissionStep ==
    Typing /\ SlotPerHolder /\ RowsInHand /\ AdmissionInv /\ [Next]_vars => AdmissionInv'
<1> SUFFICES ASSUME Typing, SlotPerHolder, RowsInHand, AdmissionInv, [Next]_vars
             PROVE  AdmissionInv'
  OBVIOUS
<1>0. PICK X \in SUBSET Runs : Charged(X) /\ Untouched(X) /\ Within(X)
  BY AdmissionInvDef
<1>1. TypeOK /\ Failures \in Nat /\ requests \in Nat
  BY FailuresType DEF Typing, TypeOK
<1>2. UNCHANGED faults => Failures' = Failures
  BY DEF Failures
<1>3. ASSUME NEW c \in Clients, Admit(c) \/ InsertRun(c) PROVE AdmissionInv'
  <2>1. UNCHANGED <<requests, faults>>
    BY <1>3 DEF Admit, InsertRun, boundVars
  <2>2. Charged(X)'
    BY <1>0, <1>1, <1>2, <2>1, ChargedKept
  <2>3. Within(X)'
    BY <1>0, <1>3, WithinAdmit, WithinInsert
  <2>4. Untouched(X)'
    BY <1>0, <1>3, UntouchedAdmission
  <2> QED
    BY <2>2, <2>3, <2>4 DEF AdmissionInv, Charged, Within
<1>4. ASSUME NEW c \in Clients, NEW r \in Runs, CancelFetch(c, r) \/ ResumeFetch(c, r)
      PROVE  AdmissionInv'
  <2>1. requests' = requests + 1 /\ UNCHANGED faults
    BY <1>4 DEF CancelFetch, ResumeFetch
  <2>2. Keeps(X \cup {r})
    BY <1>0, <1>4, UntouchedMore, KeepsRoutes
  <2> QED
    BY <1>0, <1>1, <1>2, <2>1, <2>2, AdmissionMore
<1>5. ASSUME NEW c \in Clients, CancelSet(c) \/ ResumeSet(c) \/ ResumeUndo(c)
      PROVE  AdmissionInv'
  <2>1. UNCHANGED <<requests, faults>>
    BY <1>5 DEF CancelSet, ResumeSet, ResumeUndo, boundVars
  <2>2. Keeps(X)
    BY <1>0, <1>5, KeepsRoutes
  <2> QED
    BY <1>0, <1>2, <2>1, <2>2, AdmissionKept
<1>6. ASSUME NEW p \in Procs, Submit(p) \/ SpawnRaises(p) PROVE AdmissionInv'
  <2>1. requests' = requests
    BY <1>6 DEF Submit, SubmitInFlight, SubmitBusy, SubmitReserve, Spawn, SpawnRaises,
                boundVars
  <2>2. Failures' = Failures
    <3>1. CASE Submit(p)
      BY <1>2, <3>1
      DEF Submit, SubmitInFlight, SubmitBusy, SubmitReserve, Spawn, boundVars
    <3>2. CASE SpawnRaises(p)
      BY <1>1, <3>2, FailuresCount DEF SpawnRaises
    <3> QED
      BY <1>6, <3>1, <3>2
  <2>3. Keeps(X)
    BY <1>0, <1>6, KeepsSubmit
  <2> QED
    BY <1>0, <2>1, <2>2, <2>3, AdmissionKept
<1>7. ASSUME NEW t \in Threads, JobRaises(t) PROVE AdmissionInv'
  <2>1. requests' = requests /\ Failures' = Failures + 1
    BY <1>1, <1>7, FailuresCount DEF JobRaises
  <2>2. run[t] \in Runs
    BY <1>7 DEF JobRaises, Typing, RunInHand, AtRun, Procs
  <2>3. Keeps(X \cup {run[t]})
    BY <1>0, <1>7, <2>2, UntouchedMore, KeepsWorker
  <2> QED
    BY <1>0, <1>1, <2>1, <2>2, <2>3, AdmissionMore
<1>8. ASSUME NEW t \in Threads,
             JobStep(t) \/ DrainStep(t) \/ FailureUnrecorded(t) \/ DrainRaises(t)
      PROVE  AdmissionInv'
  <2>1. requests' = requests
    BY <1>8 DEF JobStep, Load, Start, SeeCancel, Pass, Checkpoint, SettleCancelled,
                Succeed, RecordFailure, Release, DrainStep, DrainCheck, DrainScan,
                DrainPick, FailureUnrecorded, DrainRaises, boundVars
  <2>2. Failures' = Failures
    <3>1. CASE JobStep(t) \/ DrainStep(t)
      BY <1>2, <3>1
      DEF JobStep, Load, Start, SeeCancel, Pass, Checkpoint, SettleCancelled,
          Succeed, RecordFailure, Release, DrainStep, DrainCheck, DrainScan, DrainPick,
          boundVars
    <3>2. CASE FailureUnrecorded(t) \/ DrainRaises(t)
      BY <1>1, <3>2, FailuresCount DEF FailureUnrecorded, DrainRaises
    <3> QED
      BY <1>8, <3>1, <3>2
  <2>3. Keeps(X)
    BY <1>0, <1>8, KeepsWorker
  <2> QED
    BY <1>0, <2>1, <2>2, <2>3, AdmissionKept
<1>9. CASE MainStep \/ Crash
  <2>1. requests' = requests
    BY <1>9 DEF MainStep, ReclaimScan, ReclaimNext, ReclaimDone, Crash, boundVars
  <2>2. Failures' = Failures
    <3>1. CASE MainStep
      BY <1>2, <3>1 DEF MainStep, ReclaimScan, ReclaimNext, ReclaimDone, boundVars
    <3>2. CASE Crash
      BY <1>1, <3>2, FailuresCount DEF Crash
    <3> QED
      BY <1>9, <3>1, <3>2
  <2>3. Keeps(X)
    BY <1>0, <1>9, KeepsMain
  <2> QED
    BY <1>0, <2>1, <2>2, <2>3, AdmissionKept
<1>10. CASE Wait \/ UNCHANGED vars
  <2>1. UNCHANGED vars
    BY <1>10 DEF Wait
  <2>2. Keeps(X)
    BY <1>0, <2>1 DEF vars, rowVars, localVars, Keeps, Untouched, Counted, Inserting, Serving
  <2> QED
    BY <1>0, <1>2, <2>1, <2>2, AdmissionKept DEF vars, boundVars
<1> QED
  BY <1>3, <1>4, <1>5, <1>6, <1>7, <1>8, <1>9, <1>10
  DEF Next, FaultStep, Request, ClientStep

\* What exceeds the backlog bound is accounted for, whatever the number of requests that
\* pass the admission test at once, of restarts and of workers: see OverAdmissionBounded.
THEOREM BacklogIsBounded == Spec => []OverAdmissionBounded
<1> DEFINE Inv == Typing /\ SlotPerHolder /\ RowsInHand /\ AdmissionInv
<1>1. Init => Inv
  BY TypingInit, SlotsInit, RowsInit, AdmissionInit
<1>2. Inv /\ [Next]_vars => Inv'
  BY TypingStep, SlotsStep, RowsStep, AdmissionStep
<1>3. Inv => OverAdmissionBounded
  <2> SUFFICES ASSUME Inv PROVE OverAdmissionBounded
    OBVIOUS
  <2>1. PICK X \in SUBSET Runs : Charged(X) /\ Untouched(X) /\ Within(X)
    BY AdmissionInvDef
  <2> DEFINE B == {r \in Runs : status[r] \in InBacklog}
             C == Counted(X)
  <2>2. B \subseteq X \cup C /\ C \in SUBSET Runs /\ Inserting \in SUBSET Clients
    BY DEF Counted, Inserting
  <2> HIDE DEF B, C
  <2>3. /\ IsFiniteSet(X) /\ Cardinality(X) \in Nat
        /\ IsFiniteSet(C) /\ Cardinality(C) \in Nat
        /\ Cardinality(X \cap C) \in Nat
        /\ Cardinality(Inserting) \in Nat /\ Cardinality(Clients) \in Nat
    BY <2>2, FiniteCounts
  <2>4. /\ IsFiniteSet(X \cup C)
        /\ Cardinality(X \cup C) = Cardinality(X) + Cardinality(C) - Cardinality(X \cap C)
    BY <2>3, FS_Union
  <2>5. Cardinality(B) <= Cardinality(X \cup C) /\ IsFiniteSet(B)
    BY <2>2, <2>4, FS_Subset
  <2>6. Cardinality(B) \in Nat /\ Cardinality(X \cup C) \in Nat
    BY <2>4, <2>5, FS_CardinalityType
  <2>7. requests \in Nat /\ Failures \in Nat
    BY FailuresType DEF Typing, TypeOK
  <2>8. Cardinality(X) <= requests + Failures
    BY <2>1 DEF Charged
  <2>9. Cardinality(C) + Cardinality(Inserting)
           <= SIM_QUEUE_MAX + (Cardinality(Clients) - 1)
    BY <2>1 DEF Within, C
  <2>10. Cardinality(B) <= SIM_QUEUE_MAX + (Cardinality(Clients) - 1) + requests + Failures
    BY <2>3, <2>4, <2>5, <2>6, <2>7, <2>8, <2>9, ConfigAssumption
  <2> QED
    BY <2>10 DEF OverAdmissionBounded, Backlog, B
<1> HIDE DEF Inv
<1> QED
  BY <1>1, <1>2, <1>3, PTL DEF Spec
============================================================================
