--------------------------- MODULE AgentRunProofs ---------------------------
(***************************************************************************)
(* Theorems about the gateway, for every number of request threads, keys,   *)
(* attempts, retries, requests and replies.                                 *)
(***************************************************************************)
EXTENDS AgentRunProps, FiniteSetTheorems, TLAPS

TypeOK ==
    /\ status \in [Runs -> {"ABSENT"} \cup Executable \cup Ended]
    /\ agent \in [Runs -> AllStyles \cup {None}]
    /\ mode \in [Runs -> Modes \cup {None}]
    /\ key \in [Runs -> (AllStyles \X Keys) \cup {None}]
    /\ created \in 0..MaxRequests
    /\ llm \in [Runs -> SUBSET LlmRows]
    /\ published \subseteq [run : Runs, resp : Responses \cup {None},
                           label : {"LLM_PROPOSED", "DETERMINISTIC_PROPOSED"}]
    /\ h \in [Callers -> Handlers]
    /\ issued \in 0..MaxIssued

\* Before its run exists, and after its result does.
Before == {"idle", "lookup", "insert"}
After == {"accepted", "prove", "noProof", "write", "publish"}

\* What a handler holds at each place, of n runs that exist.
Local(l, n) ==
    /\ l.pc \in Before => l.run = None
    /\ l.pc \notin Before => l.run \in 1..n
    /\ l.pc # "idle" =>
          /\ l.style \in AllStyles /\ l.mode \in Modes /\ l.attempt >= 1
          /\ Permits(l.style, l.mode) /\ (l.key # None => TakesKey(l.style))
    /\ l.pc = "lookup" => l.key # None
    /\ l.pc \in {"record", "judge"} => l.answer \in Answers /\ l.resp \in Responses
    /\ l.pc = "execFail" => l.exc \in Failures
    /\ l.pc = "raised" => l.exc \in Errors
    /\ l.pc \notin Before \cup After => l.mode = "LIVE"
    /\ l.pc \in After /\ l.mode = "LIVE" => l.answer = "good" /\ l.resp \in Responses
    /\ l.pc # "idle" /\ l.mode # "LIVE" => l.resp = None
    /\ l.pc = "reopen" => l.transport_try < max_transport_retries
    /\ l.pc = "publish" => l.style \notin {"corroborate", "explain"}
    /\ l.pc = "prove" => l.style = "corroborate"
    /\ l.pc \in {"noProof", "write"} => l.style # "explain"

Others(c) == \A d \in Callers : d # c => h'[d] = h[d]

\* What a step of its handler leaves of its locals.
SameRequest(m, u) == m.style = u.style /\ m.mode = u.mode /\ m.key = u.key
SameTry(m, u) == m.attempt = u.attempt /\ m.transport_try = u.transport_try
SameReply(m, u) == m.answer = u.answer /\ m.resp = u.resp
SameCall(m, u) == SameTry(m,u) /\ SameReply(m, u) /\ m.asked = u.asked

\* Rows come in the order of their numbers, and stay.
Existing ==
    \A r \in Runs :
        /\ r > created => status[r] = "ABSENT" /\ key[r] = None /\ llm[r] = {}
        /\ r <= created => status[r] # "ABSENT" /\ agent[r] \in AllStyles /\ mode[r] \in Modes

Typed == TypeOK /\ Existing /\ \A c \in Callers : Local(h[c], created)

\* What the step of one handler keeps.
Stepped(c) == /\ TypeOK' /\ Existing' /\ Others(c)
              /\ Local(h'[c], created') /\ created' >= created

----------------------------------------------------------------------------
(* What each assignment to a handler makes of it. *)

LEMMA WhenGoto ==
    ASSUME h \in [Callers -> Handlers], NEW c \in Callers, NEW l \in PCs, Goto(c, l)
    PROVE  /\ h' \in [Callers -> Handlers] /\ Others(c)
           /\ h'[c].pc = l /\ h'[c].run = h[c].run /\ h'[c].exc = h[c].exc
           /\ SameRequest(h'[c], h[c]) /\ SameCall(h'[c], h[c])
BY DEF Goto, Handlers, Others, SameRequest, SameTry, SameReply, SameCall

LEMMA WhenRun ==
    ASSUME h \in [Callers -> Handlers], NEW c \in Callers, NEW r \in Runs, HasRun(c, r)
    PROVE  /\ h' \in [Callers -> Handlers] /\ Others(c)
           /\ h'[c].pc = IF h[c].mode = "LIVE" THEN "enter" ELSE "accepted"
           /\ h'[c].run = r /\ h'[c].exc = h[c].exc
           /\ SameRequest(h'[c], h[c]) /\ SameCall(h'[c], h[c])
<1> DEFINE l == IF h[c].mode = "LIVE" THEN "enter" ELSE "accepted"
<1>1. l \in PCs
  BY DEF PCs
<1>2. h' = [h EXCEPT ![c].run = r, ![c].pc = l]
  BY DEF HasRun
<1> HIDE DEF l
<1>3. /\ h' \in [Callers -> Handlers] /\ Others(c)
      /\ h'[c].pc = l
           /\ h'[c].run = r /\ h'[c].exc = h[c].exc
           /\ SameRequest(h'[c], h[c]) /\ SameCall(h'[c], h[c])
  BY <1>1, <1>2 DEF Handlers, Others, SameRequest, SameTry, SameReply, SameCall
<1> QED
  BY <1>3 DEF l

LEMMA Limit == SpendLimit \in Nat
BY GatewayAssumption DEF SpendLimit

LEMMA CountedTyped ==
    ASSUME NEW n \in 0..(SpendLimit + 1)
    PROVE  Counted(n) \in 0..(SpendLimit + 1)
BY Limit DEF Counted

LEMMA WhenRaised ==
    ASSUME h \in [Callers -> Handlers], NEW c \in Callers, NEW l \in PCs, NEW e \in Errors,
           Raise(c, e, l)
    PROVE  /\ h' \in [Callers -> Handlers] /\ Others(c)
           /\ h'[c].pc = l /\ h'[c].run = h[c].run /\ h'[c].exc = e
           /\ SameRequest(h'[c], h[c]) /\ SameTry(h'[c], h[c]) /\ h'[c].asked = h[c].asked
<1> DEFINE m == [h[c] EXCEPT !.pc = l, !.exc = e, !.answer = None, !.resp = None]
<1>1. h' = [h EXCEPT ![c] = m]
  BY Zenon DEF Raise
<1>2. /\ m \in Handlers /\ m.pc = l /\ m.run = h[c].run /\ m.exc = e
      /\ SameRequest(m, h[c]) /\ SameTry(m, h[c]) /\ m.asked = h[c].asked
  BY DEF Handlers, SameRequest, SameTry
<1> HIDE DEF m
<1> QED
  BY <1>1, <1>2 DEF Others

LEMMA WhenCalled ==
    ASSUME h \in [Callers -> Handlers], NEW c \in Callers, NEW l \in PCs, NEW e \in Errors,
           Raises(c, l, e)
    PROVE  /\ h' \in [Callers -> Handlers] /\ Others(c)
           /\ h'[c].pc = l /\ h'[c].run = h[c].run /\ h'[c].exc = e
           /\ SameRequest(h'[c], h[c]) /\ SameTry(h'[c], h[c])
           /\ h'[c].asked = Counted(h[c].asked)
<1> DEFINE n == Counted(h[c].asked)
           m == [h[c] EXCEPT !.pc = l, !.exc = e, !.asked = n]
<1>1. h' = [h EXCEPT ![c] = m]
  BY Zenon DEF Raises
<1>2. n \in 0..(SpendLimit + 1)
  BY CountedTyped DEF Handlers
<1> HIDE DEF n
<1>3. /\ m \in Handlers /\ m.pc = l /\ m.run = h[c].run /\ m.exc = e
      /\ SameRequest(m, h[c]) /\ SameTry(m, h[c]) /\ m.asked = n
  BY <1>2 DEF Handlers, SameRequest, SameTry
<1>4. h' \in [Callers -> Handlers] /\ Others(c) /\ h'[c] = m
  <2> HIDE DEF m
  <2> QED
    BY <1>1, <1>3 DEF Others
<1> QED
  BY <1>3, <1>4 DEF n

LEMMA WhenAnswered ==
    ASSUME h \in [Callers -> Handlers], NEW c \in Callers,
           NEW answer \in Answers, NEW resp \in Responses,
           Answered(c, answer, resp)
    PROVE  /\ h' \in [Callers -> Handlers] /\ Others(c)
           /\ h'[c].pc = "record" /\ h'[c].run = h[c].run /\ h'[c].exc = h[c].exc
           /\ h'[c].answer = answer /\ h'[c].resp = resp
           /\ SameRequest(h'[c], h[c]) /\ SameTry(h'[c], h[c])
           /\ h'[c].asked = Counted(h[c].asked)
<1> DEFINE n == Counted(h[c].asked)
           m == [h[c] EXCEPT !.pc = "record", !.answer = answer, !.resp = resp, !.asked = n]
<1>1. h' = [h EXCEPT ![c] = m]
  BY Zenon DEF Answered
<1>2. n \in 0..(SpendLimit + 1) /\ "record" \in PCs
  BY CountedTyped DEF Handlers, PCs
<1> HIDE DEF n
<1>3. /\ m \in Handlers /\ m.pc = "record" /\ m.run = h[c].run /\ m.exc = h[c].exc
      /\ m.answer = answer /\ m.resp = resp
      /\ SameRequest(m, h[c]) /\ SameTry(m, h[c]) /\ m.asked = n
  BY <1>2 DEF Handlers, SameRequest, SameTry
<1>4. h' \in [Callers -> Handlers] /\ Others(c) /\ h'[c] = m
  <2> HIDE DEF m
  <2> QED
    BY <1>1, <1>3 DEF Others
<1> QED
  BY <1>3, <1>4 DEF n

LEMMA WhenReopened ==
    ASSUME h \in [Callers -> Handlers], NEW c \in Callers, h[c].transport_try < max_transport_retries,
           Reopened(c)
    PROVE  /\ h' \in [Callers -> Handlers] /\ Others(c)
           /\ h'[c].pc = "enter" /\ h'[c].run = h[c].run
           /\ SameRequest(h'[c], h[c]) /\ h'[c].attempt = h[c].attempt
           /\ h'[c].transport_try = h[c].transport_try + 1
           /\ h'[c].asked = h[c].asked
<1>1. h[c].transport_try \in 0..max_transport_retries /\ "enter" \in PCs
  BY DEF Handlers, PCs
<1>2. h[c].transport_try + 1 \in 0..max_transport_retries
  BY <1>1, GatewayAssumption
<1> QED
  BY <1>1, <1>2 DEF Reopened, Handlers, Others, SameRequest

LEMMA WhenRejected ==
    ASSUME h \in [Callers -> Handlers], NEW c \in Callers, h[c].attempt < max_attempts,
           Reattempts(c)
    PROVE  /\ h' \in [Callers -> Handlers] /\ Others(c)
           /\ h'[c].pc = "enter" /\ h'[c].run = h[c].run
           /\ SameRequest(h'[c], h[c]) /\ h'[c].attempt = h[c].attempt + 1
           /\ h'[c].transport_try = 0
           /\ h'[c].asked = h[c].asked
<1>1. h[c].attempt \in 0..max_attempts /\ "enter" \in PCs
  BY DEF Handlers, PCs
<1>2. h[c].attempt + 1 \in 0..max_attempts /\ 0 \in 0..max_transport_retries
  BY <1>1, GatewayAssumption
<1> QED
  BY <1>1, <1>2 DEF Reattempts, Handlers, Others, SameRequest

LEMMA IdleHandler == Idle \in Handlers
BY Limit, GatewayAssumption DEF Idle, Handlers, PCs

LEMMA WhenFinished ==
    ASSUME h \in [Callers -> Handlers], NEW c \in Callers, Finish(c)
    PROVE  h' \in [Callers -> Handlers] /\ Others(c) /\ h'[c] = Idle
BY IdleHandler DEF Finish, Others

LEMMA WhenSubmitted ==
    ASSUME h \in [Callers -> Handlers], NEW c \in Callers, Submit(c)
    PROVE  /\ h' \in [Callers -> Handlers] /\ Others(c)
           /\ h'[c].pc \in {"insert", "lookup"} /\ (h'[c].pc = "lookup" => h'[c].key # None)
           /\ h'[c].style \in AllStyles /\ h'[c].mode \in Modes
           /\ Permits(h'[c].style, h'[c].mode) /\ (h'[c].key # None => TakesKey(h'[c].style))
           /\ h'[c].run = None /\ h'[c].resp = None
           /\ h'[c].attempt = 1 /\ h'[c].transport_try = 0 /\ h'[c].asked = 0
<1>1. PICK style \in Styles, m \in Modes, k \in Keys \cup {None} :
          /\ Permits(style, m)
          /\ k # None => TakesKey(style)
          /\ h' = [h EXCEPT ![c] =
                     [Idle EXCEPT !.pc = IF k = None THEN "insert" ELSE "lookup",
                                  !.style = style, !.mode = m, !.key = k, !.attempt = 1]]
  BY DEF Submit
<1> DEFINE first == IF k = None THEN "insert" ELSE "lookup"
           l == [Idle EXCEPT !.pc = first, !.style = style, !.mode = m, !.key = k,
                             !.attempt = 1]
<1>2. h' = [h EXCEPT ![c] = l]
  BY <1>1
<1>3. first \in PCs /\ 1 \in 0..max_attempts /\ Styles \subseteq AllStyles
  BY GatewayAssumption DEF PCs
<1>4. /\ Idle \in Handlers /\ Idle.run = None /\ Idle.resp = None
      /\ Idle.transport_try = 0 /\ Idle.asked = 0
  BY IdleHandler DEF Idle
<1> HIDE DEF first
<1>5. /\ l \in Handlers /\ l.pc = first /\ l.style = style /\ l.mode = m /\ l.key = k
      /\ l.run = None /\ l.resp = None
      /\ l.attempt = 1 /\ l.transport_try = 0 /\ l.asked = 0
  BY <1>3, <1>4 DEF Handlers
<1>6. h' \in [Callers -> Handlers] /\ Others(c) /\ h'[c] = l
  <2> HIDE DEF l
  <2> QED
    BY <1>2, <1>5 DEF Others
<1>7. first \in {"insert", "lookup"} /\ (first = "lookup" => k # None)
  BY DEF first
<1> QED
  BY <1>1, <1>3, <1>5, <1>6, <1>7

----------------------------------------------------------------------------
(* The range of each step. *)

LEMMA StatusSet ==
    ASSUME TypeOK, NEW c \in Callers, NEW s \in Executable \cup Ended, SetStatus(c, s)
    PROVE  status' \in [Runs -> {"ABSENT"} \cup Executable \cup Ended]
BY DEF TypeOK, SetStatus

LEMMA RunsOf == ASSUME TypeOK PROVE created \in Nat /\ 1..created \subseteq Runs
BY GatewayAssumption DEF TypeOK, Runs

\* A step that leaves the tables alone, or sets the status of its own run.
LEMMA TablesKept ==
    ASSUME Typed, UNCHANGED <<status, agent, mode, key, created, llm, published>>,
           h' \in [Callers -> Handlers], issued' \in 0..MaxIssued
    PROVE  TypeOK' /\ Existing' /\ created' >= created
BY RunsOf DEF Typed, TypeOK, Existing

LEMMA StatusKept ==
    ASSUME Typed, NEW c \in Callers, NEW s \in Executable \cup Ended, SetStatus(c, s),
           Run(c) \in 1..created, UNCHANGED <<agent, mode, key, created, llm, published, issued>>,
           h' \in [Callers -> Handlers]
    PROVE  TypeOK' /\ Existing' /\ created' >= created
<1>1. status' \in [Runs -> {"ABSENT"} \cup Executable \cup Ended]
  BY StatusSet DEF Typed
<1>2. \A r \in Runs : status'[r] = status[r] \/ (r <= created /\ status'[r] # "ABSENT")
  <2>1. s # "ABSENT" /\ Run(c) <= created
    BY RunsOf DEF Executable, Ended, Typed
  <2>2. \A r \in Runs : status'[r] = IF r = Run(c) THEN s ELSE status[r]
    BY DEF SetStatus, Typed, TypeOK
  <2> QED
    BY <2>1, <2>2
<1> QED
  BY <1>1, <1>2, RunsOf DEF Typed, TypeOK, Existing

LEMMA KeyStored ==
    ASSUME Typed, NEW c \in Callers, h[c].pc # "idle"
    PROVE  /\ h[c].key # None => StoredKey(c) \in AllStyles \X Keys /\ StoredKey(c) # None
           /\ h[c].key = None <=> StoredKey(c) = None
<1>1. h[c].style \in AllStyles /\ h[c].key \in Keys \cup {None}
  BY DEF Typed, TypeOK, Local, Handlers
<1> QED
  BY <1>1, GatewayAssumption DEF StoredKey

LEMMA SubmitTyped ==
    ASSUME Typed, NEW c \in Callers, Submit(c)
    PROVE  Stepped(c)
<1>1. /\ UNCHANGED <<status, agent, mode, key, created, llm, published, issued>>
      /\ h' \in [Callers -> Handlers] /\ Others(c)
  BY WhenSubmitted DEF Typed, TypeOK, Submit, rowVars
<1>2. Local(h'[c], created)
  BY WhenSubmitted DEF Typed, TypeOK, Local, Before, After
<1> QED
  BY <1>1, <1>2, TablesKept DEF Stepped, Typed, TypeOK

\* A handler that is given its run goes on to the call, or to a rule's result.
LEMMA GivenRun ==
    ASSUME Typed, NEW c \in Callers, NEW n \in Nat, NEW r \in 1..n, 1..n \subseteq Runs,
           h[c].pc \in {"lookup", "insert"}, HasRun(c, r)
    PROVE  h' \in [Callers -> Handlers] /\ Others(c) /\ Local(h'[c], n)
<1>1. /\ h[c].style \in AllStyles /\ h[c].mode \in Modes /\ h[c].attempt >= 1
      /\ Permits(h[c].style, h[c].mode) /\ (h[c].key # None => TakesKey(h[c].style))
      /\ h[c].mode # "LIVE" => h[c].resp = None
  BY DEF Typed, Local
<1> QED
  BY <1>1, WhenRun DEF Typed, TypeOK, Local, Before, After, SameRequest, SameCall, SameTry, SameReply

LEMMA KeyFound ==
    ASSUME Typed, NEW c \in Callers, h[c].pc \in {"lookup", "insert"}, h[c].key # None,
           NEW r \in Runs, key[r] = StoredKey(c), HasRun(c, r)
    PROVE  h' \in [Callers -> Handlers] /\ Others(c) /\ Local(h'[c], created)
<1>1. created \in Nat /\ 1..created \subseteq Runs /\ Runs \subseteq Nat \ {0}
  BY RunsOf DEF Runs, Typed
<1>2. StoredKey(c) # None
  BY KeyStored
<1>3. r \in 1..created
  BY <1>1, <1>2 DEF Typed, Existing
<1> QED
  BY <1>1, <1>3, GivenRun

LEMMA LookupKeyTyped ==
    ASSUME Typed, NEW c \in Callers, LookupKey(c)
    PROVE  Stepped(c)
<1>1. /\ UNCHANGED <<status, agent, mode, key, created, llm, published, issued>>
      /\ h[c].pc = "lookup" /\ h[c].key # None
  BY DEF LookupKey, At, Typed, Local, rowVars, boundVars
<1>2. ASSUME Goto(c, "insert")
      PROVE  h' \in [Callers -> Handlers] /\ Others(c) /\ Local(h'[c], created)
  BY <1>1, <1>2, WhenGoto DEF Typed, TypeOK, Local, Before, After, PCs, SameRequest, SameCall,
     SameTry, SameReply
<1>3. h' \in [Callers -> Handlers] /\ Others(c) /\ Local(h'[c], created)
  BY <1>1, <1>2, KeyFound DEF LookupKey
<1> QED
  BY <1>1, <1>3, TablesKept DEF Stepped, Typed, TypeOK

LEMMA InsertConflictTyped ==
    ASSUME Typed, NEW c \in Callers, InsertConflict(c)
    PROVE  Stepped(c)
<1>1. /\ UNCHANGED <<status, agent, mode, key, created, llm, published, issued>>
      /\ h[c].pc = "insert" /\ StoredKey(c) # None
  BY DEF InsertConflict, Unused, At, rowVars, boundVars
<1>2. h' \in [Callers -> Handlers] /\ Others(c) /\ Local(h'[c], created)
  BY <1>1, KeyStored, KeyFound DEF InsertConflict
<1> QED
  BY <1>1, <1>2, TablesKept DEF Stepped, Typed, TypeOK

LEMMA InsertRunTyped ==
    ASSUME Typed, NEW c \in Callers, InsertRun(c)
    PROVE  Stepped(c)
<1> DEFINE r == created + 1
<1>1. /\ created' = r /\ r \in Runs /\ r \in Nat /\ 1..r \subseteq Runs /\ r \in 1..r
      /\ r \in 0..MaxRequests
  BY GatewayAssumption DEF InsertRun, Typed, TypeOK, Runs
<1>2. h[c].pc = "insert" /\ HasRun(c, r) /\ UNCHANGED <<llm, published, issued>>
  BY DEF InsertRun, At, boundVars
<1>3. h' \in [Callers -> Handlers] /\ Others(c) /\ Local(h'[c], r)
  <2> HIDE DEF r
  <2> QED
    BY <1>1, <1>2, GivenRun
<1>4. h[c].style \in AllStyles /\ h[c].mode \in Modes
      /\ StoredKey(c) \in (AllStyles \X Keys) \cup {None}
  BY <1>2, KeyStored DEF Typed, Local
<1>5. /\ status' = [status EXCEPT ![r] = "QUEUED"] /\ agent' = [agent EXCEPT ![r] = h[c].style]
      /\ mode' = [mode EXCEPT ![r] = h[c].mode] /\ key' = [key EXCEPT ![r] = StoredKey(c)]
  BY DEF InsertRun
<1>6. TypeOK'
  BY <1>1, <1>2, <1>3, <1>4, <1>5 DEF Typed, TypeOK, Executable
<1>7. Existing'
  <2>1. created \in Nat /\ Runs \subseteq Nat
    BY DEF Typed, TypeOK, Runs
  <2> QED
    BY <1>1, <1>2, <1>4, <1>5, <2>1 DEF Typed, TypeOK, Existing
<1> QED
  BY <1>1, <1>3, <1>6, <1>7, RunsOf DEF Stepped, Typed
\* The run of a handler that has one.
LEMMA RunHeld ==
    ASSUME Typed, NEW c \in Callers, h[c].pc \notin Before
    PROVE  Run(c) \in 1..created /\ Run(c) \in Runs
BY RunsOf DEF Typed, Local, Run

\* A handler that is done holds nothing.
LEMMA Done ==
    ASSUME Typed, NEW c \in Callers, Finish(c)
    PROVE  h' \in [Callers -> Handlers] /\ Others(c) /\ Local(h'[c], created)
BY WhenFinished DEF Typed, TypeOK, Local, Idle, Before, After

LEMMA EnterExecuteTyped ==
    ASSUME Typed, NEW c \in Callers, EnterExecute(c)
    PROVE  Stepped(c)
<1>1. UNCHANGED <<status, agent, mode, key, created, llm, published, issued>> /\ h[c].pc = "enter"
  BY DEF EnterExecute, At, rowVars, boundVars
<1>2. CASE Goto(c, "call")
  BY <1>1, <1>2, WhenGoto, TablesKept DEF Stepped, Typed, TypeOK, Local, Before, After, PCs, SameRequest, SameCall,
     SameTry, SameReply
<1>3. CASE Raise(c, "mode", "raised")
  BY <1>1, <1>3, WhenRaised, TablesKept DEF Stepped, Typed, TypeOK, Local, Before, After, PCs, Errors, SameRequest, SameCall,
     SameTry, SameReply
<1> QED
  BY <1>2, <1>3 DEF EnterExecute

LEMMA CallFailsTyped ==
    ASSUME Typed, NEW c \in Callers, CallFails(c)
    PROVE  Stepped(c)
<1>1. UNCHANGED <<status, agent, mode, key, created, llm, published, issued>> /\ h[c].pc = "call"
  BY DEF CallFails, At, rowVars, boundVars
<1>2. PICK e \in Failures : Raises(c, "execFail", e)
  BY DEF CallFails
<1> QED
  BY <1>1, <1>2, WhenCalled, TablesKept DEF Stepped, Typed, TypeOK, Local, Before, After, PCs, Errors, SameRequest, SameCall,
     SameTry, SameReply

LEMMA CallAnswersTyped ==
    ASSUME Typed, NEW c \in Callers, CallAnswers(c)
    PROVE  Stepped(c)
<1>1. /\ UNCHANGED <<status, agent, mode, key, created, llm, published>> /\ h[c].pc = "call"
      /\ issued' = issued + 1 /\ issued' \in 0..MaxIssued /\ issued' \in Responses
  BY GatewayAssumption DEF CallAnswers, Issue, At, rowVars, Typed, TypeOK, Responses
<1>2. PICK answer \in Answers : Answered(c, answer, issued + 1)
  BY DEF CallAnswers
<1> QED
  BY <1>1, <1>2, WhenAnswered, TablesKept DEF Stepped, Typed, TypeOK, Local, Before, After, PCs, SameRequest, SameCall,
     SameTry, SameReply

LEMMA CallIgnoresToolTyped ==
    ASSUME Typed, NEW c \in Callers, CallIgnoresTool(c)
    PROVE  Stepped(c)
<1>1. /\ UNCHANGED <<status, agent, mode, key, created, llm, published>> /\ h[c].pc = "call"
      /\ issued' \in 0..MaxIssued /\ Raises(c, "raised", "invalid")
  BY GatewayAssumption DEF CallIgnoresTool, Issue, At, rowVars, Typed, TypeOK
<1> QED
  BY <1>1, WhenCalled, TablesKept DEF Stepped, Typed, TypeOK, Local, Before, After, PCs, Errors, SameRequest, SameCall,
     SameTry, SameReply

LEMMA CallReplayedTyped ==
    ASSUME Typed, NEW c \in Callers, CallReplayed(c)
    PROVE  Stepped(c)
<1>1. UNCHANGED <<status, agent, mode, key, created, llm, published, issued>> /\ h[c].pc = "call"
  BY DEF CallReplayed, At, rowVars, boundVars
<1>2. PICK row \in LlmRun : Answered(c, row.answer, row.resp)
  BY DEF CallReplayed
<1>3. row.answer \in Answers /\ row.resp \in Responses
  BY <1>2 DEF LlmRun, Typed, TypeOK, LlmRows
<1> QED
  BY <1>1, <1>2, <1>3, WhenAnswered, TablesKept DEF Stepped, Typed, TypeOK, Local, Before, After, PCs, SameRequest, SameCall,
     SameTry, SameReply

LEMMA ExecuteFailsTyped ==
    ASSUME Typed, NEW c \in Callers, ExecuteFails(c)
    PROVE  Stepped(c)
<1>1. /\ UNCHANGED <<agent, mode, key, created, llm, published, issued>>
      /\ h[c].pc = "execFail" /\ SetStatus(c, "FAILED")
  BY DEF ExecuteFails, At, boundVars
<1>2. h' \in [Callers -> Handlers] /\ Others(c) /\ Local(h'[c], created)
  <2>1. h[c].exc \in Errors
    BY <1>1 DEF Typed, Local, Errors
  <2>2. CASE Goto(c, "reopen") /\ RetriesLeft(c)
    BY <1>1, <2>1, <2>2, WhenGoto DEF Typed, TypeOK, Local, Before, After, PCs, RetriesLeft, SameRequest, SameCall,
     SameTry, SameReply
  <2>3. CASE Goto(c, "raised")
    BY <1>1, <2>1, <2>3, WhenGoto DEF Typed, TypeOK, Local, Before, After, PCs, SameRequest, SameCall,
     SameTry, SameReply
  <2> QED
    BY <2>2, <2>3 DEF ExecuteFails
<1> QED
  BY <1>1, <1>2, RunHeld, StatusKept DEF Stepped, Before, Ended

LEMMA ReopenForRetryTyped ==
    ASSUME Typed, NEW c \in Callers, ReopenForRetry(c)
    PROVE  Stepped(c)
<1>1. /\ UNCHANGED <<agent, mode, key, created, llm, published, issued>>
      /\ h[c].pc = "reopen" /\ SetStatus(c, "RUNNING") /\ Reopened(c)
  BY DEF ReopenForRetry, At, boundVars
<1>2. h' \in [Callers -> Handlers] /\ Others(c) /\ Local(h'[c], created)
  BY <1>1, WhenReopened DEF Typed, TypeOK, Local, Before, After, PCs, SameRequest, SameCall,
     SameTry, SameReply
<1> QED
  BY <1>1, <1>2, RunHeld, StatusKept DEF Stepped, Before, Executable

LEMMA JudgeTruncatedTyped ==
    ASSUME Typed, NEW c \in Callers, JudgeTruncated(c)
    PROVE  Stepped(c)
<1>1. UNCHANGED <<status, agent, mode, key, created, llm, published, issued>> /\ h[c].pc = "judge" /\ Goto(c, "giveUp")
  BY DEF JudgeTruncated, At, rowVars, boundVars
<1> QED
  BY <1>1, WhenGoto, TablesKept DEF Stepped, Typed, TypeOK, Local, Before, After, PCs, SameRequest, SameCall,
     SameTry, SameReply

LEMMA GiveUpTyped ==
    ASSUME Typed, NEW c \in Callers, GiveUp(c)
    PROVE  Stepped(c)
<1>1. /\ UNCHANGED <<agent, mode, key, created, llm, published, issued>>
      /\ h[c].pc = "giveUp" /\ SetStatus(c, "FAILED") /\ Raise(c, "invalid", "raised")
  BY DEF GiveUp, At, boundVars
<1>2. h' \in [Callers -> Handlers] /\ Others(c) /\ Local(h'[c], created)
  BY <1>1, WhenRaised DEF Typed, TypeOK, Local, Before, After, PCs, Errors, SameRequest, SameCall,
     SameTry, SameReply
<1> QED
  BY <1>1, <1>2, RunHeld, StatusKept DEF Stepped, Before, Ended

\* The ways to end with the run marked, or left as it is.
LEMMA EndingTyped ==
    ASSUME Typed, NEW c \in Callers,
           HandlerFails(c) \/ HandlerRefuses(c) \/ SucceedRefuses(c)
    PROVE  Stepped(c)
<1>1. /\ UNCHANGED <<agent, mode, key, created, llm, published, issued>>
      /\ h[c].pc \notin Before /\ SetStatus(c, "FAILED") /\ Finish(c)
  BY DEF HandlerFails, HandlerRefuses, SucceedRefuses, At, Before, boundVars
<1> QED
  BY <1>1, Done, RunHeld, StatusKept DEF Stepped, Ended

LEMMA HandlerPropagatesTyped ==
    ASSUME Typed, NEW c \in Callers, HandlerPropagates(c)
    PROVE  Stepped(c)
<1>1. UNCHANGED <<status, agent, mode, key, created, llm, published, issued>> /\ Finish(c)
  BY DEF HandlerPropagates, rowVars, boundVars
<1> QED
  BY <1>1, Done, TablesKept DEF Stepped, Typed, TypeOK

LEMMA SucceedReadsTyped ==
    ASSUME Typed, NEW c \in Callers, SucceedReads(c)
    PROVE  Stepped(c)
<1>1. /\ UNCHANGED <<status, agent, mode, key, created, llm, published, issued>>
      /\ h[c].pc \in {"prove", "accepted"} /\ h[c].style # "explain"
  BY DEF SucceedReads, At, rowVars, boundVars
<1>2. PICK l \in {"noProof", "write"} : Goto(c, l)
  BY DEF SucceedReads
<1> QED
  BY <1>1, <1>2, WhenGoto, TablesKept DEF Stepped, Typed, TypeOK, Local, Before, After, PCs, SameRequest, SameCall,
     SameTry, SameReply

LEMMA SucceedWritesTyped ==
    ASSUME Typed, NEW c \in Callers, SucceedWrites(c)
    PROVE  Stepped(c)
<1>1. /\ UNCHANGED <<agent, mode, key, created, llm, published, issued>>
      /\ h[c].pc = "write" /\ SetStatus(c, "SUCCEEDED")
  BY DEF SucceedWrites, At, boundVars
<1>2. h' \in [Callers -> Handlers] /\ Others(c) /\ Local(h'[c], created)
  <2>1. CASE Finish(c)
    BY <2>1, Done
  <2>2. CASE h[c].style # "corroborate" /\ Goto(c, "publish")
    BY <1>1, <2>2, WhenGoto DEF Typed, TypeOK, Local, Before, After, PCs, SameRequest, SameCall,
     SameTry, SameReply
  <2> QED
    BY <2>1, <2>2 DEF SucceedWrites
<1> QED
  BY <1>1, <1>2, RunHeld, StatusKept DEF Stepped, Before, Ended
\* A row of llm_run is added, or its verdict set.
LEMMA RowsKept ==
    ASSUME Typed, NEW r \in 1..created, NEW rows \in SUBSET LlmRows,
           llm' = [llm EXCEPT ![r] = rows],
           UNCHANGED <<status, agent, mode, key, created, published, issued>>,
           h' \in [Callers -> Handlers]
    PROVE  TypeOK' /\ Existing' /\ created' >= created
<1>1. created \in Nat /\ r \in Runs /\ r <= created
  BY RunsOf DEF Typed
<1> QED
  BY <1>1 DEF Typed, TypeOK, Existing

LEMMA VerdictKept ==
    ASSUME Typed, NEW c \in Callers, NEW verdict \in {"ACCEPTED", "REJECTED"},
           h[c].pc \notin Before, RecordVerdict(c, verdict),
           UNCHANGED <<status, agent, mode, key, created, published, issued>>,
           h' \in [Callers -> Handlers]
    PROVE  TypeOK' /\ Existing' /\ created' >= created
<1>1. CASE UNCHANGED llm
  BY <1>1, TablesKept DEF Typed, TypeOK
<1>2. ASSUME NEW row \in llm[Run(c)],
             llm' = [llm EXCEPT ![Run(c)] = (@ \ {row}) \cup {[row EXCEPT !.verdict = verdict]}]
      PROVE  TypeOK' /\ Existing' /\ created' >= created
  <2>1. Run(c) \in 1..created /\ llm[Run(c)] \subseteq LlmRows
    BY RunHeld DEF Typed, TypeOK
  <2>2. [row EXCEPT !.verdict = verdict] \in LlmRows
    BY <1>2, <2>1 DEF LlmRows
  <2> DEFINE rows == (llm[Run(c)] \ {row}) \cup {[row EXCEPT !.verdict = verdict]}
  <2>3. rows \in SUBSET LlmRows
    BY <2>1, <2>2
  <2>4. llm' = [llm EXCEPT ![Run(c)] = rows]
    BY <1>2
  <2> HIDE DEF rows
  <2> QED
    BY <2>1, <2>3, <2>4, RowsKept
<1> QED
  BY <1>1, <1>2 DEF RecordVerdict

LEMMA RecordReplyTyped ==
    ASSUME Typed, NEW c \in Callers, RecordReply(c)
    PROVE  Stepped(c)
<1>1. /\ UNCHANGED <<status, agent, mode, key, created, published, issued>>
      /\ h[c].pc = "record" /\ h[c].answer \in Answers /\ h[c].resp \in Responses
  BY DEF RecordReply, At, Typed, Local, boundVars
<1>2. CASE Raise(c, "liveness", "execFail") /\ UNCHANGED llm
  BY <1>1, <1>2, WhenRaised, TablesKept DEF Stepped, Typed, TypeOK, Local, Before, After, PCs, Errors, Failures,
     SameRequest, SameCall,
     SameTry, SameReply
<1>3. CASE h[c].resp \notin Recorded
  <2> DEFINE row == [resp |-> h[c].resp, answer |-> h[c].answer, verdict |-> "UNJUDGED"]
             rows == llm[Run(c)] \cup {row}
  <2>1. llm' = [llm EXCEPT ![Run(c)] = rows] /\ Goto(c, "judge")
    BY <1>3 DEF RecordReply
  <2>2. h' \in [Callers -> Handlers] /\ Others(c) /\ Local(h'[c], created)
    <3> HIDE DEF rows
    <3> QED
      BY <1>1, <2>1, WhenGoto DEF Typed, TypeOK, Local, Before, After, PCs, SameRequest, SameCall,
     SameTry, SameReply
  <2>3. Run(c) \in 1..created /\ llm[Run(c)] \subseteq LlmRows
    BY <1>1, RunHeld DEF Before, Typed, TypeOK
  <2>4. rows \in SUBSET LlmRows
    BY <1>1, <2>3 DEF LlmRows
  <2> HIDE DEF rows
  <2> QED
    BY <1>1, <2>1, <2>2, <2>3, <2>4, RowsKept DEF Stepped
<1> QED
  BY <1>2, <1>3 DEF RecordReply

LEMMA JudgeAcceptsTyped ==
    ASSUME Typed, NEW c \in Callers, JudgeAccepts(c)
    PROVE  Stepped(c)
<1>1. /\ UNCHANGED <<status, agent, mode, key, created, published, issued>>
      /\ h[c].pc = "judge" /\ h[c].answer = "good" /\ h[c].resp \in Responses
      /\ RecordVerdict(c, "ACCEPTED") /\ Goto(c, "accepted")
  BY DEF JudgeAccepts, Accepts, At, Typed, Local, boundVars
<1>2. h' \in [Callers -> Handlers] /\ Others(c) /\ Local(h'[c], created)
  BY <1>1, WhenGoto DEF Typed, TypeOK, Local, Before, After, PCs, SameRequest, SameCall,
     SameTry, SameReply
<1> QED
  BY <1>1, <1>2, VerdictKept DEF Stepped, Before

LEMMA JudgeRejectsTyped ==
    ASSUME Typed, NEW c \in Callers, JudgeRejects(c)
    PROVE  Stepped(c)
<1>1. /\ UNCHANGED <<status, agent, mode, key, created, published, issued>>
      /\ h[c].pc = "judge" /\ RecordVerdict(c, "REJECTED")
  BY DEF JudgeRejects, At, boundVars
<1>2. h' \in [Callers -> Handlers] /\ Others(c) /\ Local(h'[c], created)
  <2>1. CASE AttemptsLeft(c) /\ Reattempts(c)
    <3>1. h[c].attempt >= 1 /\ h[c].attempt \in Nat
      BY <1>1 DEF Typed, TypeOK, Local, Handlers
    <3> QED
      BY <1>1, <2>1, <3>1, WhenRejected DEF Typed, TypeOK, Local, Before, After, PCs, AttemptsLeft, SameRequest, SameCall,
     SameTry, SameReply
  <2>2. CASE Goto(c, "giveUp")
    BY <1>1, <2>2, WhenGoto DEF Typed, TypeOK, Local, Before, After, PCs, SameRequest, SameCall,
     SameTry, SameReply
  <2> QED
    BY <2>1, <2>2 DEF JudgeRejects
<1> QED
  BY <1>1, <1>2, VerdictKept DEF Stepped, Before

\* The three ways to publish.
LEMMA PublishingTyped ==
    ASSUME Typed, NEW c \in Callers, PublishFirst(c) \/ ReturnExplanation(c) \/ PublishLast(c)
    PROVE  Stepped(c)
<1>1. /\ UNCHANGED <<status, agent, mode, key, created, llm, issued>>
      /\ h[c].pc \in {"accepted", "publish"} /\ Publish(c)
  BY DEF PublishFirst, ReturnExplanation, PublishLast, Publish, At, boundVars
<1>2. h' \in [Callers -> Handlers] /\ Others(c) /\ Local(h'[c], created)
  <2>1. CASE Finish(c)
    BY <2>1, Done
  <2>2. CASE h[c].style = "corroborate" /\ Goto(c, "prove")
    BY <1>1, <2>2, WhenGoto DEF Typed, TypeOK, Local, Before, After, PCs, SameRequest, SameCall,
     SameTry, SameReply
  <2> QED
    BY <2>1, <2>2 DEF PublishFirst, ReturnExplanation, PublishLast
<1>3. published' \subseteq [run : Runs, resp : Responses \cup {None},
                           label : {"LLM_PROPOSED", "DETERMINISTIC_PROPOSED"}]
  <2>1. Run(c) \in Runs /\ h[c].resp \in Responses \cup {None}
    BY <1>1, RunHeld DEF Before, Typed, TypeOK, Handlers
  <2> QED
    BY <1>1, <2>1 DEF Publish, Typed, TypeOK
<1>4. Typed /\ h' \in [Callers -> Handlers]
  BY <1>2
<1> QED
  BY <1>1, <1>2, <1>3 DEF Stepped, Typed, TypeOK, Existing

LEMMA HandlerTyped ==
    ASSUME Typed, NEW c \in Callers, Submit(c) \/ Handle(c)
    PROVE  Stepped(c)
BY SubmitTyped, LookupKeyTyped, InsertRunTyped, InsertConflictTyped, EnterExecuteTyped,
   CallFailsTyped, CallAnswersTyped, CallIgnoresToolTyped, CallReplayedTyped, ExecuteFailsTyped,
   ReopenForRetryTyped, RecordReplyTyped, JudgeTruncatedTyped, JudgeAcceptsTyped,
   JudgeRejectsTyped, GiveUpTyped, EndingTyped, HandlerPropagatesTyped, PublishingTyped,
   SucceedReadsTyped, SucceedWritesTyped DEF Handle

LEMMA TypedStep ==
    ASSUME Typed, [Next]_vars
    PROVE  Typed'
<1>1. ASSUME NEW c \in Callers, Submit(c) \/ Handle(c) PROVE Typed'
  <2>1. Stepped(c)
    BY <1>1, HandlerTyped
  <2>2. ASSUME NEW d \in Callers, d # c PROVE Local(h'[d], created')
    <3>1. h'[d] = h[d] /\ Local(h[d], created) /\ 1..created \subseteq 1..created'
      BY <2>1, <2>2, RunsOf DEF Stepped, Others, Typed, TypeOK
    <3> QED
      BY <3>1 DEF Local
  <2> QED
    BY <2>1, <2>2 DEF Stepped, Typed
<1>2. CASE Crash
  <2>1. /\ UNCHANGED <<status, agent, mode, key, created, llm, published, issued>>
        /\ h' \in [Callers -> Handlers] /\ \A c \in Callers : h'[c] = Idle
    BY <1>2, IdleHandler DEF Crash, rowVars
  <2>2. Local(Idle, created)
    BY DEF Local, Idle, Before, After
  <2> QED
    BY <2>1, <2>2, TablesKept DEF Typed, TypeOK
<1>3. CASE UNCHANGED vars
  BY <1>3, TablesKept DEF vars, rowVars, boundVars, Typed, TypeOK
<1> QED
  BY <1>1, <1>2, <1>3 DEF Next

LEMMA TypedInvariant == Spec => []Typed
<1>1. Init => Typed
  <2> SUFFICES ASSUME Init PROVE Typed
    OBVIOUS
  <2>1. TypeOK
    BY IdleHandler, GatewayAssumption DEF Init, TypeOK
  <2>2. Existing
    BY GatewayAssumption DEF Init, Existing, Runs
  <2>3. Local(Idle, created)
    BY DEF Local, Idle, Before, After
  <2> QED
    BY <2>1, <2>2, <2>3 DEF Init, Typed
<1> QED
  BY <1>1, TypedStep, PTL DEF Spec

\* Every table and every handler keeps to its range, in every instance.
THEOREM TypeCorrect == Spec => []TypeOK
<1>1. Typed => TypeOK
  BY DEF Typed
<1> QED
  BY <1>1, TypedInvariant, PTL
----------------------------------------------------------------------------
(* Keys: a stored key is on one row, a handler's row carries its key, and a *)
(* row without a key has the handler that inserted it and no other.         *)

KeysApart == \A r, s \in Runs : key[r] = key[s] /\ key[r] # None => r = s

KeyOwner == \A r \in Runs : key[r] # None => key[r][1] = agent[r]

Matches(u, K, A, M) ==
    u.pc \notin Before =>
        /\ K[u.run] = IF u.key = None THEN None ELSE <<u.style, u.key>>
        /\ A[u.run] = u.style
        /\ K[u.run] = None => M[u.run] = u.mode

Alone ==
    \A c, d \in Callers :
        c # d /\ h[c].pc \notin Before /\ h[d].pc \notin Before /\ h[c].run = h[d].run
            => key[h[c].run] # None

KeyInv ==
    /\ KeysApart /\ KeyOwner /\ Alone
    /\ \A c \in Callers : Matches(h[c], key, agent, mode)

\* The steps of a handler that has its run.
Works(c) ==
    \/ EnterExecute(c)
    \/ CallFails(c) \/ CallAnswers(c) \/ CallIgnoresTool(c) \/ CallReplayed(c)
    \/ ExecuteFails(c) \/ ReopenForRetry(c) \/ RecordReply(c)
    \/ JudgeTruncated(c) \/ JudgeAccepts(c) \/ JudgeRejects(c) \/ GiveUp(c)
    \/ HandlerFails(c) \/ HandlerPropagates(c) \/ HandlerRefuses(c)
    \/ PublishFirst(c) \/ ReturnExplanation(c) \/ PublishLast(c)
    \/ SucceedReads(c) \/ SucceedRefuses(c) \/ SucceedWrites(c)

\* They leave its request and its run as they are, or are its last.
Continues(c) ==
    /\ h[c].pc \notin Before
    /\ Others(c)
    /\ \/ h'[c] = Idle
       \/ /\ h'[c].pc \notin Before /\ h'[c].run = h[c].run
          /\ SameRequest(h'[c], h[c])

LEMMA Continue ==
    ASSUME Typed, NEW c \in Callers, Works(c)
    PROVE  Continues(c) /\ UNCHANGED <<agent, mode, key, created>>
<1>0. h \in [Callers -> Handlers]
  BY DEF Typed, TypeOK
<1> DEFINE On == \E l \in PCs \ Before : Goto(c, l)
           Over == Finish(c)
           Raised == \E e \in Errors, l \in PCs \ Before : Raise(c, e, l)
<1>1. ASSUME h[c].pc \notin Before, On \/ Over \/ Raised PROVE Continues(c)
  BY <1>0, <1>1, WhenGoto, WhenFinished, WhenRaised DEF Continues
<1>2. /\ h[c].pc \notin Before
      /\ UNCHANGED <<agent, mode, key, created>>
  BY DEF Works, EnterExecute, CallFails, CallAnswers, CallIgnoresTool, CallReplayed, ExecuteFails,
     ReopenForRetry, RecordReply, JudgeTruncated, JudgeAccepts, JudgeRejects, GiveUp, HandlerFails,
     HandlerPropagates, HandlerRefuses, PublishFirst, ReturnExplanation, PublishLast, SucceedReads,
     SucceedRefuses, SucceedWrites, At, Before, Issue, Publish, rowVars, boundVars
<1>3. CASE JudgeTruncated(c) \/ JudgeAccepts(c) \/ GiveUp(c) \/ HandlerFails(c)
           \/ HandlerPropagates(c) \/ HandlerRefuses(c) \/ PublishFirst(c) \/ ReturnExplanation(c)
           \/ PublishLast(c) \/ SucceedRefuses(c) \/ SucceedWrites(c) \/ EnterExecute(c)
           \/ ExecuteFails(c) \/ RecordReply(c) \/ SucceedReads(c)
  <2>1. On \/ Over \/ Raised
    BY <1>3 DEF JudgeTruncated, JudgeAccepts, GiveUp, HandlerFails,
       HandlerPropagates, HandlerRefuses, PublishFirst, ReturnExplanation, PublishLast,
       SucceedRefuses, SucceedWrites, EnterExecute, ExecuteFails, RecordReply, SucceedReads,
       Errors, Failures, PCs, Before
  <2> QED
    BY <1>1, <1>2, <2>1
<1>4. ASSUME NEW e \in Errors, NEW l \in {"execFail", "raised"}, Raises(c, l, e)
      PROVE  Continues(c)
  BY <1>0, <1>2, <1>4, WhenCalled DEF Continues, PCs, Before
<1>5. ASSUME NEW answer \in Answers, NEW resp \in Responses, Answered(c, answer, resp)
      PROVE  Continues(c)
  BY <1>0, <1>2, <1>5, WhenAnswered DEF Continues, Before
<1>6. CASE CallFails(c) \/ CallIgnoresTool(c)
  BY <1>2, <1>4, <1>6 DEF CallFails, CallIgnoresTool, Errors
<1>7. CASE CallAnswers(c)
  <2>1. issued + 1 \in Responses
    BY <1>7, GatewayAssumption DEF CallAnswers, Issue, Typed, TypeOK, Responses
  <2> QED
    BY <1>2, <1>5, <1>7, <2>1 DEF CallAnswers
<1>8. CASE CallReplayed(c)
  BY <1>2, <1>5, <1>8 DEF CallReplayed, LlmRun, Typed, TypeOK, LlmRows
<1>9. CASE ReopenForRetry(c)
  <2>1. h[c].transport_try < max_transport_retries /\ Reopened(c)
    BY <1>9 DEF ReopenForRetry, At, Typed, Local
  <2> QED
    BY <1>0, <1>2, <2>1, WhenReopened DEF Continues, Before
<1>10. CASE JudgeRejects(c)
  <2>1. CASE Reattempts(c) /\ h[c].attempt < max_attempts
    BY <1>0, <1>2, <2>1, WhenRejected DEF Continues, Before
  <2>2. CASE Goto(c, "giveUp")
    BY <1>0, <1>2, <2>2, WhenGoto DEF Continues, PCs, Before
  <2> QED
    BY <1>10, <2>1, <2>2 DEF JudgeRejects, AttemptsLeft
<1> QED
  BY <1>2, <1>3, <1>6, <1>7, <1>8, <1>9, <1>10 DEF Works

LEMMA KeyKept ==
    ASSUME Typed, KeyInv, NEW c \in Callers, UNCHANGED <<agent, mode, key>>, Others(c),
           h'[c].pc \notin Before =>
              /\ h[c].pc \notin Before /\ h'[c].run = h[c].run
              /\ SameRequest(h'[c], h[c])
    PROVE  KeyInv'
<1>1. \A d \in Callers : Matches(h'[d], key', agent', mode')
  <2>1. Matches(h'[c], key', agent', mode')
    BY DEF KeyInv, Matches, SameRequest
  <2> QED
    BY <2>1 DEF KeyInv, Others
<1>2. KeysApart' /\ KeyOwner'
  BY DEF KeyInv, KeysApart, KeyOwner
<1>3. Alone'
  BY DEF KeyInv, Alone, Others
<1> QED
  BY <1>1, <1>2, <1>3 DEF KeyInv

LEMMA KeyTaken ==
    ASSUME Typed, KeyInv, NEW c \in Callers, h[c].pc \in {"lookup", "insert"},
           h[c].key # None, UNCHANGED <<agent, mode, key>>,
           NEW r \in Runs, key[r] = StoredKey(c), HasRun(c, r)
    PROVE  KeyInv'
<1>1. /\ Others(c) /\ h'[c].run = r /\ SameRequest(h'[c], h[c])
      /\ h'[c].pc \notin Before
  BY WhenRun DEF Typed, TypeOK, Before
<1>2. StoredKey(c) = <<h[c].style, h[c].key>> /\ StoredKey(c) # None
  BY KeyStored DEF StoredKey
<1>3. agent[r] = h[c].style
  BY <1>2 DEF KeyInv, KeyOwner
<1>4. \A d \in Callers : Matches(h'[d], key', agent', mode')
  <2>1. Matches(h'[c], key', agent', mode')
    BY <1>1, <1>2, <1>3 DEF Matches, SameRequest
  <2> QED
    BY <1>1, <2>1 DEF KeyInv, Others
<1>5. KeysApart' /\ KeyOwner'
  BY DEF KeyInv, KeysApart, KeyOwner
<1>6. Alone'
  BY <1>1, <1>2 DEF KeyInv, Alone, Others
<1> QED
  BY <1>4, <1>5, <1>6 DEF KeyInv

LEMMA KeyInserted ==
    ASSUME Typed, KeyInv, NEW c \in Callers, InsertRun(c)
    PROVE  KeyInv'
<1> DEFINE r == created + 1
<1>1. /\ r \in Runs /\ created \in Nat /\ Runs \subseteq Nat /\ h[c].pc = "insert"
      /\ Unused(StoredKey(c)) /\ HasRun(c, r)
  BY GatewayAssumption DEF InsertRun, At, Typed, TypeOK, Runs
<1>2. /\ agent' = [agent EXCEPT ![r] = h[c].style] /\ mode' = [mode EXCEPT ![r] = h[c].mode]
      /\ key' = [key EXCEPT ![r] = StoredKey(c)]
  BY DEF InsertRun
<1>3. \A d \in Callers : h[d].pc \notin Before => h[d].run \in Runs /\ h[d].run # r
  BY <1>1, RunsOf DEF Typed, Local
<1> HIDE DEF r
<1>4. /\ Others(c) /\ h'[c].run = r /\ SameRequest(h'[c], h[c]) /\ h'[c].pc \notin Before
  BY <1>1, WhenRun DEF Typed, TypeOK, Before
<1>5. \A s \in Runs : /\ key'[s] = IF s = r THEN StoredKey(c) ELSE key[s]
                      /\ agent'[s] = IF s = r THEN h[c].style ELSE agent[s]
                      /\ mode'[s] = IF s = r THEN h[c].mode ELSE mode[s]
  BY <1>1, <1>2 DEF Typed, TypeOK
<1>6. ASSUME NEW d \in Callers PROVE Matches(h'[d], key', agent', mode')
  <2>1. CASE d = c
    BY <1>1, <1>4, <1>5, <2>1 DEF Matches, SameRequest, StoredKey
  <2>2. CASE d # c
    BY <1>3, <1>4, <1>5, <2>2 DEF KeyInv, Matches, Others
  <2> QED
    BY <2>1, <2>2
<1>7. KeysApart'
  BY <1>1, <1>5 DEF KeyInv, KeysApart, Unused
<1>8. KeyOwner'
  <2>1. StoredKey(c) # None => StoredKey(c)[1] = h[c].style
    BY DEF StoredKey
  <2> QED
    BY <1>5, <2>1 DEF KeyInv, KeyOwner
<1>9. Alone'
  <2>1. ASSUME NEW d \in Callers, NEW e \in Callers, d # e, h'[d].pc \notin Before,
               h'[e].pc \notin Before, h'[d].run = h'[e].run
        PROVE  key'[h'[d].run] # None
    <3>1. d # c /\ e # c
      BY <1>3, <1>4, <2>1 DEF Others
    <3> QED
      BY <1>3, <1>4, <1>5, <2>1, <3>1 DEF KeyInv, Alone, Others
  <2> QED
    BY <2>1 DEF Alone
<1> QED
  BY <1>6, <1>7, <1>8, <1>9 DEF KeyInv

LEMMA KeyStep ==
    ASSUME Typed, KeyInv, [Next]_vars
    PROVE  KeyInv'
<1>1. ASSUME NEW c \in Callers, Works(c) PROVE KeyInv'
  BY <1>1, Continue, KeyKept DEF Continues, Idle, Before
<1>2. ASSUME NEW c \in Callers, Submit(c) PROVE KeyInv'
  <2>1. h'[c].pc \in Before /\ Others(c) /\ UNCHANGED <<agent, mode, key>>
    BY <1>2, WhenSubmitted DEF Typed, TypeOK, Submit, Before, rowVars
  <2> QED
    BY <2>1, KeyKept
<1>3. ASSUME NEW c \in Callers, LookupKey(c) PROVE KeyInv'
  <2>1. /\ h[c].pc = "lookup" /\ h[c].key # None /\ UNCHANGED <<agent, mode, key>>
    BY <1>3 DEF LookupKey, At, Typed, Local, rowVars
  <2>2. CASE Goto(c, "insert")
    <3>1. Others(c) /\ h'[c].pc \in Before
      BY <2>2, WhenGoto DEF Typed, TypeOK, PCs, Before
    <3> QED
      BY <2>1, <3>1, KeyKept
  <2> QED
    BY <1>3, <2>1, <2>2, KeyTaken DEF LookupKey
<1>4. ASSUME NEW c \in Callers, InsertConflict(c) PROVE KeyInv'
  <2>1. /\ h[c].pc = "insert" /\ StoredKey(c) # None /\ UNCHANGED <<agent, mode, key>>
    BY <1>4 DEF InsertConflict, Unused, At, rowVars
  <2>2. h[c].key # None
    BY <2>1, KeyStored
  <2> QED
    BY <1>4, <2>1, <2>2, KeyTaken DEF InsertConflict
<1>5. CASE Crash
  <2>1. UNCHANGED <<agent, mode, key>> /\ \A c \in Callers : h'[c].pc \in Before
    BY <1>5 DEF Crash, Idle, Before, rowVars
  <2> QED
    BY <2>1 DEF KeyInv, KeysApart, KeyOwner, Alone, Matches
<1>6. CASE UNCHANGED vars
  BY <1>6 DEF vars, rowVars, KeyInv, KeysApart, KeyOwner, Alone, Matches
<1> QED
  BY <1>1, <1>2, <1>3, <1>4, <1>5, <1>6, KeyInserted DEF Next, Handle, Works

LEMMA KeyInvariant == Spec => []KeyInv
<1>1. Init => KeyInv
  BY DEF Init, KeyInv, KeysApart, KeyOwner, Alone, Matches, Idle, Before
<1> QED
  BY <1>1, KeyStep, TypedInvariant, PTL DEF Spec

\* SameKeySameRun in every instance.
THEOREM OneRunPerKey == Spec => []SameKeySameRun
<1>1. ASSUME Typed, KeyInv PROVE SameKeySameRun
  <2>1. ASSUME NEW c \in Callers, Run(c) # None
        PROVE  h[c].pc \notin Before /\ Run(c) \in Runs /\ key[Run(c)] = StoredKey(c)
    <3>1. h[c].pc \notin Before
      BY <1>1, <2>1 DEF Typed, Local, Run
    <3> QED
      BY <1>1, <3>1, RunHeld DEF KeyInv, Matches, Run, StoredKey
  <2>2. ASSUME NEW c \in Callers, NEW d \in Callers, Run(c) # None, Run(d) # None,
               StoredKey(c) # None, StoredKey(c) = StoredKey(d)
        PROVE  Run(c) = Run(d)
    BY <1>1, <2>1, <2>2 DEF KeyInv, KeysApart
  <2> QED
    BY <2>2 DEF SameKeySameRun
<1> QED
  BY <1>1, TypedInvariant, KeyInvariant, PTL
----------------------------------------------------------------------------
(* Evidence: a reply that is recorded belongs to one run, and to one handler *)
(* or one published result at a time.                                       *)

\* A handler whose recorded reply may still be published.
Holding(u) ==
    /\ u.mode = "LIVE"
    /\ \/ u.pc \in {"judge", "accepted"}
       \/ u.pc \in {"noProof", "write", "publish"} /\ u.style # "corroborate"

Backed(L, r, i, answer) ==
    \E row \in L[r] : row.resp = i /\ row.answer = answer /\ row.verdict # "REJECTED"

RowsApart ==
    \A r, s \in Runs : \A x \in llm[r], y \in llm[s] : x.resp = y.resp => r = s /\ x = y

HoldersBacked ==
    \A c \in Callers : Holding(h[c]) => Backed(llm, h[c].run, h[c].resp, h[c].answer)

HoldersApart ==
    \A c, d \in Callers : c # d /\ Holding(h[c]) /\ Holding(h[d]) => h[c].resp # h[d].resp

PublishedBacked ==
    \A p \in published :
        /\ p.resp # None => p.label = "LLM_PROPOSED"
        /\ p.label = "LLM_PROPOSED" => Backed(llm, p.run, p.resp, "good")

PublishedApart ==
    \A p \in published : \A c \in Callers : Holding(h[c]) => p.resp # h[c].resp

Evidence ==
    /\ RowsApart /\ HoldersBacked /\ HoldersApart /\ PublishedBacked /\ PublishedApart
    /\ EvidenceUsedOnce

LEMMA EvidenceKept ==
    ASSUME Evidence, NEW c \in Callers, UNCHANGED <<llm, published>>, Others(c),
           Holding(h'[c]) =>
              /\ Holding(h[c]) /\ h'[c].run = h[c].run
              /\ h'[c].resp = h[c].resp /\ h'[c].answer = h[c].answer
    PROVE  Evidence'
<1>1. RowsApart' /\ PublishedBacked' /\ EvidenceUsedOnce'
  BY DEF Evidence, RowsApart, PublishedBacked, EvidenceUsedOnce
<1>2. ASSUME NEW d \in Callers, Holding(h'[d])
      PROVE  /\ Holding(h[d]) /\ h'[d].run = h[d].run
             /\ h'[d].resp = h[d].resp /\ h'[d].answer = h[d].answer
  BY <1>2 DEF Others
<1>3. HoldersBacked' /\ HoldersApart' /\ PublishedApart'
  BY <1>2 DEF Evidence, HoldersBacked, HoldersApart, PublishedApart
<1> QED
  BY <1>1, <1>3 DEF Evidence

\* The reply of the handler at work is new to llm_run.
LEMMA EvidenceRecorded ==
    ASSUME Typed, Evidence, NEW c \in Callers, RecordReply(c), h[c].resp \notin Recorded
    PROVE  Evidence'
<1> DEFINE r == Run(c)
           i == h[c].resp
           row == [resp |-> h[c].resp, answer |-> h[c].answer, verdict |-> "UNJUDGED"]
<1>1. /\ h[c].pc = "record" /\ r \in Runs /\ i \in Responses /\ UNCHANGED published
      /\ llm' = [llm EXCEPT ![r] = @ \cup {row}] /\ Goto(c, "judge")
  BY RunHeld DEF RecordReply, At, Typed, Local, Before
<1>2. \A s \in Runs : \A x \in llm[s] : x.resp # i
  BY DEF Recorded, LlmRun
<1>3. /\ Others(c) /\ h'[c].run = r /\ h'[c].resp = i /\ h'[c].answer = h[c].answer
  BY <1>1, WhenGoto DEF Typed, TypeOK, PCs, Run, SameCall, SameReply
<1>4. row.resp = i /\ row.answer = h[c].answer /\ row.verdict # "REJECTED"
  OBVIOUS
<1> HIDE DEF row
<1>5. \A s \in Runs : llm'[s] = IF s = r THEN llm[s] \cup {row} ELSE llm[s]
  BY <1>1 DEF Typed, TypeOK
<1>6. \A j, a : \A s \in Runs : Backed(llm, s, j, a) => Backed(llm', s, j, a) /\ j # i
  BY <1>2, <1>5 DEF Backed
<1>7. \A d \in Callers : Holding(h[d]) => h[d].run \in Runs
  BY RunHeld DEF Holding, Before, Run
<1>8. \A p \in published : p.run \in Runs /\ p.resp # i
  <2>1. \A p \in published : p.run \in Runs
    BY DEF Typed, TypeOK
  <2> QED
    BY <1>1, <1>6, <2>1, GatewayAssumption DEF Evidence, PublishedBacked, Responses
<1>9. RowsApart'
  <2>1. ASSUME NEW s \in Runs, NEW t \in Runs, NEW x \in llm'[s], NEW y \in llm'[t],
               x.resp = y.resp
        PROVE  s = t /\ x = y
    <3>1. x \in llm[s] \/ (s = r /\ x = row)
      BY <1>5, <2>1
    <3>2. y \in llm[t] \/ (t = r /\ y = row)
      BY <1>5, <2>1
    <3> QED
      BY <1>2, <1>4, <2>1, <3>1, <3>2 DEF Evidence, RowsApart
  <2> QED
    BY <2>1 DEF RowsApart
<1>10. HoldersBacked'
  BY <1>1, <1>3, <1>4, <1>5, <1>6, <1>7 DEF Evidence, HoldersBacked, Others, Backed
<1>11. ASSUME NEW d \in Callers, d # c, Holding(h[d]) PROVE h[d].resp # i
  BY <1>6, <1>7, <1>11 DEF Evidence, HoldersBacked
<1>12. HoldersApart'
  BY <1>3, <1>11 DEF Evidence, HoldersApart, Others
<1>13. PublishedBacked'
  BY <1>1, <1>6, <1>8 DEF Evidence, PublishedBacked
<1>14. PublishedApart' /\ EvidenceUsedOnce'
  BY <1>1, <1>3, <1>8 DEF Evidence, PublishedApart, EvidenceUsedOnce, Others
<1> QED
  BY <1>9, <1>10, <1>12, <1>13, <1>14 DEF Evidence

\* The verdict goes on the row of the handler's own reply.
LEMMA EvidenceJudged ==
    ASSUME Typed, Evidence, NEW c \in Callers, NEW verdict \in {"ACCEPTED", "REJECTED"},
           h[c].pc = "judge", RecordVerdict(c, verdict), UNCHANGED published, Others(c),
           Holding(h'[c]) =>
              /\ verdict = "ACCEPTED" /\ h'[c].run = h[c].run
              /\ h'[c].resp = h[c].resp /\ h'[c].answer = h[c].answer
    PROVE  Evidence'
<1>1. /\ Run(c) \in Runs /\ Run(c) = h[c].run /\ h[c].resp \in Responses /\ Holding(h[c])
  BY RunHeld DEF Typed, Local, Before, After, Run, Holding
<1>2. CASE UNCHANGED llm
  BY <1>1, <1>2, EvidenceKept
<1>3. ASSUME NEW row \in llm[Run(c)], row.resp = h[c].resp,
             llm' = [llm EXCEPT ![Run(c)] = (@ \ {row}) \cup {[row EXCEPT !.verdict = verdict]}]
      PROVE  Evidence'
  <2> DEFINE judged == [row EXCEPT !.verdict = verdict]
  <2>1. row \in LlmRows
    BY <1>1, <1>3 DEF Typed, TypeOK
  <2>2. /\ judged.resp = h[c].resp /\ judged.answer = row.answer /\ judged.verdict = verdict
    BY <1>3, <2>1 DEF LlmRows
  <2> HIDE DEF judged
  <2>3. \A s \in Runs : llm'[s] = IF s = Run(c) THEN (llm[s] \ {row}) \cup {judged} ELSE llm[s]
    BY <1>1, <1>3 DEF Typed, TypeOK, judged
  <2>4. ASSUME NEW s \in Runs, NEW j, NEW a, Backed(llm, s, j, a), j # h[c].resp
        PROVE  Backed(llm', s, j, a)
    BY <1>3, <2>3, <2>4 DEF Backed
  <2>5. \A d \in Callers : Holding(h[d]) => h[d].run \in Runs
    BY RunHeld DEF Holding, Before, Run
  <2>6. RowsApart'
    <3>1. ASSUME NEW s \in Runs, NEW t \in Runs, NEW x \in llm'[s], NEW y \in llm'[t],
                 x.resp = y.resp
          PROVE  s = t /\ x = y
      <4>1. (x \in llm[s] /\ (s = Run(c) => x # row)) \/ (s = Run(c) /\ x = judged)
        BY <2>3, <3>1
      <4>2. (y \in llm[t] /\ (t = Run(c) => y # row)) \/ (t = Run(c) /\ y = judged)
        BY <2>3, <3>1
      <4>3. \A u \in Runs : \A z \in llm[u] : z.resp = h[c].resp => u = Run(c) /\ z = row
        BY <1>1, <1>3 DEF Evidence, RowsApart
      <4> QED
        BY <2>2, <3>1, <4>1, <4>2, <4>3 DEF Evidence, RowsApart
    <3> QED
      BY <3>1 DEF RowsApart
  <2>7. ASSUME NEW d \in Callers, d # c, Holding(h[d])
        PROVE  Backed(llm', h[d].run, h[d].resp, h[d].answer)
    BY <1>1, <2>4, <2>5, <2>7 DEF Evidence, HoldersBacked, HoldersApart
  <2>8. verdict = "ACCEPTED" => Backed(llm', h[c].run, h[c].resp, h[c].answer)
    <3>1. PICK x \in llm[Run(c)] : x.resp = h[c].resp /\ x.answer = h[c].answer
      BY <1>1 DEF Evidence, HoldersBacked, Backed
    <3>2. x = row
      BY <1>1, <1>3, <3>1 DEF Evidence, RowsApart
    <3> QED
      BY <1>1, <2>2, <2>3, <3>1, <3>2 DEF Backed
  <2>9. HoldersBacked'
    BY <2>7, <2>8 DEF HoldersBacked, Others
  <2>10. HoldersApart' /\ PublishedApart'
    BY <1>1 DEF Evidence, HoldersApart, PublishedApart, Others
  <2>11. PublishedBacked' /\ EvidenceUsedOnce'
    <3>1. \A p \in published : p.run \in Runs /\ p.resp # h[c].resp
      BY <1>1 DEF Typed, TypeOK, Evidence, PublishedApart
    <3> QED
      BY <2>4, <3>1 DEF Evidence, PublishedBacked, EvidenceUsedOnce
  <2> QED
    BY <2>6, <2>9, <2>10, <2>11 DEF Evidence
<1> QED
  BY <1>2, <1>3 DEF RecordVerdict

LEMMA EvidencePublished ==
    ASSUME Typed, Evidence, NEW c \in Callers, Publish(c), UNCHANGED llm, Others(c),
           h[c].pc = "accepted" \/ h[c].pc = "publish", ~Holding(h'[c])
    PROVE  Evidence'
<1> DEFINE p == [run |-> Run(c), resp |-> h[c].resp,
                 label |-> IF h[c].mode = "LIVE" THEN "LLM_PROPOSED" ELSE "DETERMINISTIC_PROPOSED"]
<1>1. published' = published \cup {p}
  BY DEF Publish
<1>2. /\ p.run = h[c].run /\ p.resp = h[c].resp
      /\ p.label = IF h[c].mode = "LIVE" THEN "LLM_PROPOSED" ELSE "DETERMINISTIC_PROPOSED"
  BY DEF Run
<1> HIDE DEF p
<1>3. CASE h[c].mode = "LIVE"
  <2>1. Holding(h[c]) /\ h[c].answer = "good" /\ h[c].resp # None
    BY <1>3, GatewayAssumption DEF Holding, Typed, Local, After, Responses
  <2>2. PublishedBacked'
    BY <1>1, <1>2, <1>3, <2>1 DEF Evidence, PublishedBacked, HoldersBacked
  <2>3. EvidenceUsedOnce'
    BY <1>1, <1>2, <2>1 DEF Evidence, PublishedApart, EvidenceUsedOnce
  <2>4. PublishedApart' /\ HoldersApart' /\ HoldersBacked' /\ RowsApart'
    BY <1>1, <1>2, <2>1 DEF Evidence, PublishedApart, HoldersApart, HoldersBacked, RowsApart, Others
  <2> QED
    BY <2>2, <2>3, <2>4 DEF Evidence
<1>4. CASE h[c].mode # "LIVE"
  <2>1. p.resp = None /\ p.label = "DETERMINISTIC_PROPOSED"
    BY <1>2, <1>4 DEF Typed, Local
  <2>2. \A d \in Callers : Holding(h[d]) => h[d].resp # None
    BY GatewayAssumption DEF Holding, Typed, Local, After, Responses
  <2>3. PublishedBacked' /\ EvidenceUsedOnce' /\ RowsApart'
    BY <1>1, <2>1 DEF Evidence, PublishedBacked, EvidenceUsedOnce, RowsApart
  <2>4. PublishedApart' /\ HoldersApart' /\ HoldersBacked'
    BY <1>1, <2>1, <2>2 DEF Evidence, PublishedApart, HoldersApart, HoldersBacked, Others
  <2> QED
    BY <2>3, <2>4 DEF Evidence
<1> QED
  BY <1>3, <1>4

\* The steps that leave llm_run and the results as they are.
LEMMA Quiet ==
    ASSUME Typed, Evidence, NEW c \in Callers, Submit(c) \/ Handle(c),
           ~RecordReply(c), ~JudgeAccepts(c), ~JudgeRejects(c),
           ~PublishFirst(c), ~ReturnExplanation(c), ~PublishLast(c)
    PROVE  Evidence'
<1>0. h \in [Callers -> Handlers]
  BY DEF Typed, TypeOK
<1>1. UNCHANGED <<llm, published>>
  BY DEF Handle, Submit, LookupKey, InsertRun, InsertConflict, EnterExecute, CallFails,
     CallAnswers, CallIgnoresTool, CallReplayed, ExecuteFails, ReopenForRetry, JudgeTruncated,
     GiveUp, HandlerFails, HandlerPropagates, HandlerRefuses, SucceedReads, SucceedRefuses,
     SucceedWrites, Issue, rowVars, boundVars
<1>2. ASSUME h'[c].pc \notin {"judge", "accepted", "noProof", "write", "publish"}, Others(c)
      PROVE  Evidence'
  BY <1>1, <1>2, EvidenceKept DEF Holding
<1>3. CASE Submit(c)
  BY <1>0, <1>2, <1>3, WhenSubmitted
<1>4. ASSUME NEW r \in Runs, HasRun(c, r) PROVE Evidence'
  BY <1>0, <1>1, <1>4, WhenRun, EvidenceKept DEF Holding, SameRequest
<1>5. CASE LookupKey(c)
  BY <1>0, <1>2, <1>4, <1>5, WhenGoto DEF LookupKey, PCs
<1>6. CASE InsertConflict(c)
  BY <1>4, <1>6 DEF InsertConflict
<1>7. CASE InsertRun(c)
  <2>1. created + 1 \in Runs
    BY <1>7, GatewayAssumption DEF InsertRun, Typed, TypeOK, Runs
  <2> QED
    BY <1>4, <1>7, <2>1 DEF InsertRun
<1>8. CASE Finish(c)
  BY <1>0, <1>2, <1>8, WhenFinished DEF Idle
<1>9. ASSUME NEW l \in PCs \ {"judge", "accepted", "noProof", "write", "publish"}, Goto(c, l)
      PROVE  Evidence'
  BY <1>0, <1>2, <1>9, WhenGoto
<1>10. ASSUME NEW l \in {"execFail", "raised"}, NEW e \in Errors, Raise(c, e, l) \/ Raises(c, l, e)
       PROVE  Evidence'
  BY <1>0, <1>2, <1>10, WhenRaised, WhenCalled DEF PCs
<1>11. ASSUME NEW answer \in Answers, NEW resp \in Responses, Answered(c, answer, resp)
       PROVE  Evidence'
  BY <1>0, <1>2, <1>11, WhenAnswered
<1>12. CASE EnterExecute(c) \/ ExecuteFails(c) \/ JudgeTruncated(c) \/ GiveUp(c)
  BY <1>9, <1>10, <1>12 DEF EnterExecute, ExecuteFails, JudgeTruncated, GiveUp, PCs, Errors
<1>13. CASE HandlerFails(c) \/ HandlerPropagates(c) \/ HandlerRefuses(c) \/ SucceedRefuses(c)
  BY <1>8, <1>13 DEF HandlerFails, HandlerPropagates, HandlerRefuses, SucceedRefuses
<1>14. CASE CallFails(c) \/ CallIgnoresTool(c)
  BY <1>10, <1>14 DEF CallFails, CallIgnoresTool, Errors
<1>15. CASE CallAnswers(c)
  <2>1. issued + 1 \in Responses
    BY <1>15, GatewayAssumption DEF CallAnswers, Issue, Typed, TypeOK, Responses
  <2> QED
    BY <1>11, <1>15, <2>1 DEF CallAnswers
<1>16. CASE CallReplayed(c)
  BY <1>11, <1>16 DEF CallReplayed, LlmRun, Typed, TypeOK, LlmRows
<1>17. CASE ReopenForRetry(c)
  <2>1. h[c].transport_try < max_transport_retries /\ Reopened(c)
    BY <1>17 DEF ReopenForRetry, At, Typed, Local
  <2> QED
    BY <1>0, <1>2, <2>1, WhenReopened
<1>18. CASE SucceedReads(c)
  <2>1. PICK l \in {"noProof", "write"} : Goto(c, l)
    BY <1>18 DEF SucceedReads
  <2>2. h[c].style # "corroborate" => h[c].pc = "accepted"
    BY <1>18 DEF SucceedReads, At
  <2> QED
    BY <1>0, <1>1, <2>1, <2>2, WhenGoto, EvidenceKept DEF Holding, PCs, SameRequest, SameCall,
     SameTry, SameReply
<1>19. CASE SucceedWrites(c)
  <2>1. CASE Goto(c, "publish") /\ h[c].style # "corroborate"
    BY <1>0, <1>1, <1>19, <2>1, WhenGoto, EvidenceKept DEF SucceedWrites, At, Holding, PCs,
       SameRequest, SameCall,
     SameTry, SameReply
  <2> QED
    BY <1>8, <1>19, <2>1 DEF SucceedWrites
<1> QED
  BY <1>3, <1>5, <1>6, <1>7, <1>12, <1>13, <1>14, <1>15, <1>16, <1>17, <1>18, <1>19 DEF Handle

LEMMA EvidenceStep ==
    ASSUME Typed, Evidence, [Next]_vars
    PROVE  Evidence'
<1>0. h \in [Callers -> Handlers]
  BY DEF Typed, TypeOK
<1>1. ASSUME NEW c \in Callers, RecordReply(c) PROVE Evidence'
  <2>1. CASE h[c].resp \notin Recorded
    BY <1>1, <2>1, EvidenceRecorded
  <2>2. CASE h[c].resp \in Recorded
    <3>1. Raise(c, "liveness", "execFail") /\ UNCHANGED <<llm, published>>
      BY <1>1, <2>2 DEF RecordReply
    <3>2. Others(c) /\ h'[c].pc = "execFail"
      BY <1>0, <3>1, WhenRaised DEF Errors, Failures, PCs
    <3> QED
      BY <3>1, <3>2, EvidenceKept DEF Holding
  <2> QED
    BY <2>1, <2>2
<1>2. ASSUME NEW c \in Callers, JudgeAccepts(c) PROVE Evidence'
  BY <1>0, <1>2, EvidenceJudged, WhenGoto DEF JudgeAccepts, At, PCs, SameRequest, SameCall,
     SameTry, SameReply
<1>3. ASSUME NEW c \in Callers, JudgeRejects(c) PROVE Evidence'
  <2>1. Others(c) /\ h'[c].pc \in {"enter", "giveUp"}
    BY <1>0, <1>3, WhenGoto, WhenRejected DEF JudgeRejects, AttemptsLeft, PCs
  <2> QED
    BY <1>3, <2>1, EvidenceJudged DEF JudgeRejects, At, Holding
<1>4. ASSUME NEW c \in Callers, PublishFirst(c) \/ ReturnExplanation(c) \/ PublishLast(c)
      PROVE  Evidence'
  <2>1. /\ Publish(c) /\ UNCHANGED llm /\ (h[c].pc = "accepted" \/ h[c].pc = "publish")
        /\ Finish(c) \/ Goto(c, "prove")
    BY <1>4 DEF PublishFirst, ReturnExplanation, PublishLast, Publish, At
  <2>2. Others(c) /\ h'[c].pc \in {"idle", "prove"}
    BY <1>0, <2>1, WhenFinished, WhenGoto DEF Idle, PCs
  <2> QED
    BY <2>1, <2>2, EvidencePublished DEF Holding
<1>5. CASE Crash
  <2>1. UNCHANGED <<llm, published>> /\ \A c \in Callers : h'[c] = Idle
    BY <1>5 DEF Crash, rowVars
  <2>2. ~Holding(Idle)
    BY DEF Holding, Idle
  <2> QED
    BY <2>1, <2>2 DEF Evidence, RowsApart, HoldersBacked, HoldersApart, PublishedBacked,
       PublishedApart, EvidenceUsedOnce
<1>6. CASE UNCHANGED vars
  BY <1>6 DEF vars, rowVars, Evidence, RowsApart, HoldersBacked, HoldersApart, PublishedBacked,
     PublishedApart, EvidenceUsedOnce
<1> QED
  BY <1>1, <1>2, <1>3, <1>4, <1>5, <1>6, Quiet DEF Next, Handle

LEMMA EvidenceInvariant == Spec => []Evidence
<1>1. Init => Evidence
  BY DEF Init, Evidence, RowsApart, HoldersBacked, HoldersApart, PublishedBacked,
     PublishedApart, EvidenceUsedOnce, Holding, Idle
<1> QED
  BY <1>1, EvidenceStep, TypedInvariant, PTL DEF Spec

\* PublishedPassedTheGate in every instance.
THEOREM OnlyAcceptedIsPublished == Spec => []PublishedPassedTheGate
<1>1. Evidence => PublishedPassedTheGate
  BY DEF Evidence, PublishedBacked, Backed, PublishedPassedTheGate
<1> QED
  BY <1>1, EvidenceInvariant, PTL

\* EvidenceUsedOnce in every instance.
THEOREM NoReplyUsedTwice == Spec => []EvidenceUsedOnce
<1>1. Evidence => EvidenceUsedOnce
  BY DEF Evidence
<1> QED
  BY <1>1, EvidenceInvariant, PTL
----------------------------------------------------------------------------
(* Where each step leads, and what it makes of the handler's counts. *)

SameCounts(m, u) == SameTry(m, u) /\ m.asked = u.asked
OneMoreCall(m, u) == SameTry(m, u) /\ m.asked = Counted(u.asked)

LEMMA PlacesFirst ==
    ASSUME Typed, NEW c \in Callers
    PROVE  /\ Submit(c) =>
                 /\ h'[c].pc \in {"insert", "lookup"}
                 /\ h'[c].attempt = 1 /\ h'[c].transport_try = 0 /\ h'[c].asked = 0
           /\ LookupKey(c) =>
                 h'[c].pc \in {"insert", "enter", "accepted"} /\ SameCounts(h'[c], h[c])
           /\ InsertRun(c) \/ InsertConflict(c) =>
                 h'[c].pc \in {"enter", "accepted"} /\ SameCounts(h'[c], h[c])
<1>0. h \in [Callers -> Handlers]
  BY DEF Typed, TypeOK
<1>1. ASSUME NEW r \in Runs, HasRun(c, r)
      PROVE  h'[c].pc \in {"enter", "accepted"} /\ SameCounts(h'[c], h[c])
  BY <1>0, <1>1, WhenRun DEF SameCounts, SameCall
<1>2. Goto(c, "insert") => h'[c].pc = "insert" /\ SameCounts(h'[c], h[c])
  BY <1>0, WhenGoto DEF PCs, SameCounts, SameCall
<1>3. InsertRun(c) => created + 1 \in Runs
  BY GatewayAssumption DEF InsertRun, Typed, TypeOK, Runs
<1>4. LookupKey(c) =>
         h'[c].pc \in {"insert", "enter", "accepted"} /\ SameCounts(h'[c], h[c])
  BY <1>1, <1>2 DEF LookupKey
<1>5. InsertRun(c) \/ InsertConflict(c) =>
         h'[c].pc \in {"enter", "accepted"} /\ SameCounts(h'[c], h[c])
  BY <1>1, <1>3 DEF InsertRun, InsertConflict
<1> QED
  BY <1>0, <1>4, <1>5, WhenSubmitted

LEMMA PlacesCall ==
    ASSUME Typed, NEW c \in Callers
    PROVE  /\ EnterExecute(c) =>
                 /\ SameCounts(h'[c], h[c])
                 /\ h'[c].pc = "call" \/ (h'[c].pc = "raised" /\ h'[c].exc = "mode")
           /\ CallFails(c) => h'[c].pc = "execFail" /\ OneMoreCall(h'[c], h[c])
           /\ CallAnswers(c) \/ CallReplayed(c) =>
                 h'[c].pc = "record" /\ OneMoreCall(h'[c], h[c])
           /\ CallIgnoresTool(c) =>
                 h'[c].pc = "raised" /\ h'[c].exc = "invalid" /\ OneMoreCall(h'[c], h[c])
           /\ ExecuteFails(c) => h'[c].pc \in {"reopen", "raised"} /\ SameCounts(h'[c], h[c])
           /\ ReopenForRetry(c) =>
                 /\ h'[c].pc = "enter" /\ h'[c].attempt = h[c].attempt
                 /\ h'[c].transport_try = h[c].transport_try + 1 /\ h'[c].asked = h[c].asked
           /\ RecordReply(c) => h'[c].pc \in {"judge", "execFail"} /\ SameCounts(h'[c], h[c])
<1>0. h \in [Callers -> Handlers]
  BY DEF Typed, TypeOK
<1>1. ASSUME NEW l \in PCs, Goto(c, l) PROVE h'[c].pc = l /\ SameCounts(h'[c], h[c])
  BY <1>0, <1>1, WhenGoto DEF SameCounts, SameCall
<1>2. ASSUME NEW l \in PCs, NEW e \in Errors, Raise(c, e, l)
      PROVE  h'[c].pc = l /\ h'[c].exc = e /\ SameCounts(h'[c], h[c])
  BY <1>0, <1>2, WhenRaised DEF SameCounts
<1>3. ASSUME NEW l \in PCs, NEW e \in Errors, Raises(c, l, e)
      PROVE  h'[c].pc = l /\ h'[c].exc = e /\ OneMoreCall(h'[c], h[c])
  BY <1>0, <1>3, WhenCalled DEF OneMoreCall
<1>4. ASSUME NEW answer \in Answers, NEW resp \in Responses, Answered(c, answer, resp)
      PROVE  h'[c].pc = "record" /\ OneMoreCall(h'[c], h[c])
  BY <1>0, <1>4, WhenAnswered DEF OneMoreCall
<1>5. EnterExecute(c) =>
         /\ SameCounts(h'[c], h[c])
         /\ h'[c].pc = "call" \/ (h'[c].pc = "raised" /\ h'[c].exc = "mode")
  BY <1>1, <1>2 DEF EnterExecute, PCs, Errors
<1>6. /\ CallFails(c) => h'[c].pc = "execFail" /\ OneMoreCall(h'[c], h[c])
      /\ CallIgnoresTool(c) =>
            h'[c].pc = "raised" /\ h'[c].exc = "invalid" /\ OneMoreCall(h'[c], h[c])
  BY <1>3 DEF CallFails, CallIgnoresTool, PCs, Errors
<1>7. CallAnswers(c) => h'[c].pc = "record" /\ OneMoreCall(h'[c], h[c])
  <2>1. CallAnswers(c) => issued + 1 \in Responses
    BY GatewayAssumption DEF CallAnswers, Issue, Typed, TypeOK, Responses
  <2> QED
    BY <1>4, <2>1 DEF CallAnswers
<1>8. CallReplayed(c) => h'[c].pc = "record" /\ OneMoreCall(h'[c], h[c])
  BY <1>4 DEF CallReplayed, LlmRun, Typed, TypeOK, LlmRows
<1>9. ExecuteFails(c) => h'[c].pc \in {"reopen", "raised"} /\ SameCounts(h'[c], h[c])
  BY <1>1 DEF ExecuteFails, PCs
<1>10. ReopenForRetry(c) =>
          /\ h'[c].pc = "enter" /\ h'[c].attempt = h[c].attempt
          /\ h'[c].transport_try = h[c].transport_try + 1 /\ h'[c].asked = h[c].asked
  BY <1>0, WhenReopened DEF ReopenForRetry, At, Typed, Local
<1>11. RecordReply(c) => h'[c].pc \in {"judge", "execFail"} /\ SameCounts(h'[c], h[c])
  BY <1>1, <1>2 DEF RecordReply, PCs, Errors, Failures
<1> QED
  BY <1>5, <1>6, <1>7, <1>8, <1>9, <1>10, <1>11

LEMMA PlacesLast ==
    ASSUME Typed, NEW c \in Callers
    PROVE  /\ JudgeTruncated(c) => h'[c].pc = "giveUp" /\ SameCounts(h'[c], h[c])
           /\ JudgeAccepts(c) => h'[c].pc = "accepted" /\ SameCounts(h'[c], h[c])
           /\ JudgeRejects(c) =>
                 \/ h'[c].pc = "giveUp" /\ SameCounts(h'[c], h[c])
                 \/ /\ h'[c].pc = "enter" /\ h[c].attempt < max_attempts
                    /\ h'[c].attempt = h[c].attempt + 1 /\ h'[c].transport_try = 0
                    /\ h'[c].asked = h[c].asked
           /\ GiveUp(c) =>
                 h'[c].pc = "raised" /\ h'[c].exc = "invalid" /\ SameCounts(h'[c], h[c])
           /\ PublishFirst(c) => h'[c].pc = "prove" /\ SameCounts(h'[c], h[c])
           /\ SucceedReads(c) => h'[c].pc \in {"noProof", "write"} /\ SameCounts(h'[c], h[c])
           /\ SucceedWrites(c) =>
                 h'[c] = Idle \/ (h'[c].pc = "publish" /\ SameCounts(h'[c], h[c]))
           /\ HandlerFails(c) \/ HandlerPropagates(c) \/ HandlerRefuses(c) \/ SucceedRefuses(c)
              \/ ReturnExplanation(c) \/ PublishLast(c) => h'[c] = Idle
<1>0. h \in [Callers -> Handlers]
  BY DEF Typed, TypeOK
<1>1. ASSUME NEW l \in PCs, Goto(c, l) PROVE h'[c].pc = l /\ SameCounts(h'[c], h[c])
  BY <1>0, <1>1, WhenGoto DEF SameCounts, SameCall
<1>2. Finish(c) => h'[c] = Idle
  BY <1>0, WhenFinished
<1>3. /\ JudgeTruncated(c) => h'[c].pc = "giveUp" /\ SameCounts(h'[c], h[c])
      /\ JudgeAccepts(c) => h'[c].pc = "accepted" /\ SameCounts(h'[c], h[c])
      /\ PublishFirst(c) => h'[c].pc = "prove" /\ SameCounts(h'[c], h[c])
      /\ SucceedReads(c) => h'[c].pc \in {"noProof", "write"} /\ SameCounts(h'[c], h[c])
  BY <1>1 DEF JudgeTruncated, JudgeAccepts, PublishFirst, SucceedReads, PCs
<1>4. JudgeRejects(c) =>
         \/ h'[c].pc = "giveUp" /\ SameCounts(h'[c], h[c])
         \/ /\ h'[c].pc = "enter" /\ h[c].attempt < max_attempts
            /\ h'[c].attempt = h[c].attempt + 1 /\ h'[c].transport_try = 0
            /\ h'[c].asked = h[c].asked
  BY <1>0, <1>1, WhenRejected DEF JudgeRejects, AttemptsLeft, PCs
<1>5. GiveUp(c) => h'[c].pc = "raised" /\ h'[c].exc = "invalid" /\ SameCounts(h'[c], h[c])
  BY <1>0, WhenRaised DEF GiveUp, PCs, Errors, SameCounts
<1>6. SucceedWrites(c) => h'[c] = Idle \/ (h'[c].pc = "publish" /\ SameCounts(h'[c], h[c]))
  BY <1>1, <1>2 DEF SucceedWrites, PCs
<1>7. HandlerFails(c) \/ HandlerPropagates(c) \/ HandlerRefuses(c) \/ SucceedRefuses(c)
         \/ ReturnExplanation(c) \/ PublishLast(c) => h'[c] = Idle
  BY <1>2 DEF HandlerFails, HandlerPropagates, HandlerRefuses, SucceedRefuses, ReturnExplanation,
     PublishLast
<1> QED
  BY <1>3, <1>4, <1>5, <1>6, <1>7

----------------------------------------------------------------------------
(* What a request may spend. *)

Tries == max_transport_retries + 1
\* The calls of the attempts before this one.
Past(u) == (u.attempt - 1) * Tries

Within(u) ==
    /\ u.pc \in Before => u.asked = 0
    /\ u.pc \in {"lookup", "insert"} => u.attempt = 1 /\ u.transport_try = 0
    /\ u.pc \in {"enter", "call"} => u.asked <= Past(u) + u.transport_try
    /\ u.pc \in {"execFail", "reopen", "record", "judge"} =>
          u.asked <= Past(u) + u.transport_try + 1
    /\ u.asked <= SpendLimit

LEMMA LimitReached ==
    ASSUME NEW a \in 1..max_attempts, NEW t \in 0..max_transport_retries
    PROVE  /\ (a - 1) * Tries \in Nat
           /\ (a - 1) * Tries + t + 1 <= SpendLimit
           /\ (a - 1) * Tries + t + 1 <= a * Tries
<1>1. Tries \in Nat /\ t + 1 <= Tries /\ max_attempts \in Nat /\ a \in Nat /\ a <= max_attempts
  BY GatewayAssumption DEF Tries
<1>2. (a - 1) * Tries \in Nat /\ a * Tries = (a - 1) * Tries + Tries
  BY <1>1
<1>3. SpendLimit = a * Tries + (max_attempts - a) * Tries /\ (max_attempts - a) * Tries \in Nat
  <2>1. max_attempts - a \in Nat
    BY <1>1
  <2>2. SpendLimit = max_attempts * Tries
    BY DEF SpendLimit, Tries
  <2> HIDE DEF Tries
  <2> QED
    BY <1>1, <2>1, <2>2
<1> QED
  BY <1>1, <1>2, <1>3

LEMMA HandlerCounts ==
    ASSUME Typed, NEW c \in Callers, h[c].pc # "idle"
    PROVE  /\ h[c].attempt \in 1..max_attempts /\ h[c].asked \in Nat
           /\ h[c].transport_try \in 0..max_transport_retries
BY GatewayAssumption, Limit DEF Typed, TypeOK, Local, Handlers

LEMMA WithinStep ==
    ASSUME Typed, NEW c \in Callers, Within(h[c]), Submit(c) \/ Handle(c)
    PROVE  Within(h'[c])
<1>1. Within(Idle)
  BY Limit DEF Within, Idle, Before
<1>2. CASE Submit(c)
  BY <1>2, PlacesFirst, Limit DEF Within, Before
<1>3. CASE Handle(c)
  <2>0. h[c].pc # "idle"
    BY <1>3 DEF Handle, LookupKey, InsertRun, InsertConflict, EnterExecute, CallFails,
       CallAnswers, CallIgnoresTool, CallReplayed, ExecuteFails, ReopenForRetry, RecordReply,
       JudgeTruncated, JudgeAccepts, JudgeRejects, GiveUp, HandlerFails, HandlerPropagates,
       HandlerRefuses, PublishFirst, ReturnExplanation, PublishLast, SucceedReads,
       SucceedRefuses, SucceedWrites, Issue, At
  <2>1. /\ h[c].attempt \in 1..max_attempts /\ h[c].asked \in Nat
        /\ h[c].transport_try \in 0..max_transport_retries /\ h[c].attempt \in Nat
        /\ h[c].transport_try \in Nat
        /\ Past(h[c]) \in Nat /\ Past(h[c]) + h[c].transport_try + 1 <= SpendLimit
        /\ Past(h[c]) + h[c].transport_try + 1 <= h[c].attempt * Tries
        /\ SpendLimit \in Nat
    BY <2>0, HandlerCounts, LimitReached, Limit DEF Past
  <2>2. SameTry(h'[c], h[c]) => Past(h'[c]) = Past(h[c])
    BY DEF SameTry, Past
  <2>3. CASE LookupKey(c) \/ InsertRun(c) \/ InsertConflict(c)
    BY <2>1, <2>2, <2>3, PlacesFirst
       DEF Within, Before, SameCounts, SameTry, LookupKey, InsertRun, InsertConflict, At
  <2>4. CASE EnterExecute(c)
    BY <2>1, <2>2, <2>4, PlacesCall DEF Within, Before, SameCounts, SameTry, EnterExecute, At
  <2>5. CASE CallFails(c) \/ CallAnswers(c) \/ CallReplayed(c) \/ CallIgnoresTool(c)
    <3>1. h[c].pc = "call" /\ OneMoreCall(h'[c], h[c])
      BY <2>5, PlacesCall DEF CallFails, CallAnswers, CallReplayed, CallIgnoresTool, Issue, At
    <3>2. h'[c].pc \in {"execFail", "record", "raised"}
      BY <2>5, PlacesCall
    <3> QED
      BY <2>1, <2>2, <3>1, <3>2 DEF Within, Before, OneMoreCall, SameTry, Counted
  <2>6. CASE ExecuteFails(c) \/ RecordReply(c)
    BY <2>1, <2>2, <2>6, PlacesCall
       DEF Within, Before, SameCounts, SameTry, ExecuteFails, RecordReply, At
  <2>7. CASE ReopenForRetry(c)
    <3>1. Past(h'[c]) = Past(h[c])
      BY <2>7, PlacesCall DEF Past
    <3> QED
      BY <2>1, <2>7, <3>1, PlacesCall DEF Within, Before, ReopenForRetry, At
  <2>8. CASE JudgeRejects(c)
    <3>1. CASE SameCounts(h'[c], h[c]) /\ h'[c].pc = "giveUp"
      BY <2>1, <3>1 DEF Within, Before, SameCounts
    <3>2. CASE /\ h'[c].pc = "enter" /\ h'[c].attempt = h[c].attempt + 1
               /\ h'[c].transport_try = 0 /\ h'[c].asked = h[c].asked
      <4> DEFINE spare == h[c].attempt * Tries
      <4>1. Past(h'[c]) = spare
        BY <2>1, <3>2 DEF Past
      <4>2. h[c].asked <= Past(h[c]) + h[c].transport_try + 1 /\ h[c].asked <= SpendLimit
        BY <2>8 DEF Within, JudgeRejects, At
      <4>3. Past(h[c]) + h[c].transport_try + 1 <= spare /\ spare \in Nat
        BY <2>1, GatewayAssumption DEF Tries
      <4> HIDE DEF spare
      <4>4. h'[c].asked <= spare
        BY <2>1, <3>2, <4>2, <4>3
      <4>5. h'[c].asked <= Past(h'[c]) + h'[c].transport_try
        BY <3>2, <4>1, <4>3, <4>4
      <4>6. h'[c].asked <= SpendLimit
        BY <3>2, <4>2
      <4> QED
        BY <3>2, <4>5, <4>6 DEF Within, Before
    <3> QED
      BY <2>8, <3>1, <3>2, PlacesLast
  <2>9. CASE JudgeTruncated(c) \/ JudgeAccepts(c) \/ GiveUp(c) \/ PublishFirst(c) \/ SucceedReads(c)
             \/ SucceedWrites(c)
    <3>1. \/ h'[c] = Idle
          \/ /\ h'[c].pc \in {"giveUp", "accepted", "raised", "prove", "noProof", "write", "publish"}
             /\ SameCounts(h'[c], h[c])
      BY <2>9, PlacesLast
    <3> QED
      BY <1>1, <2>1, <3>1 DEF Within, Before, SameCounts
  <2> QED
    BY <1>1, <1>3, <2>3, <2>4, <2>5, <2>6, <2>7, <2>8, <2>9, PlacesLast DEF Handle
<1> QED
  BY <1>2, <1>3

LEMMA WithinInvariant == Spec => [](\A c \in Callers : Within(h[c]))
<1> DEFINE W == \A c \in Callers : Within(h[c])
<1>1. Within(Idle)
  BY Limit DEF Within, Idle, Before
<1>2. Init => W
  BY <1>1 DEF Init
<1>3. ASSUME Typed, W, [Next]_vars PROVE W'
  <2>1. ASSUME NEW c \in Callers, Submit(c) \/ Handle(c) PROVE W'
    <3>1. Within(h'[c]) /\ Others(c)
      BY <1>3, <2>1, WithinStep, HandlerTyped DEF Stepped
    <3> QED
      BY <1>3, <3>1 DEF Others
  <2>2. CASE Crash
    BY <1>1, <2>2 DEF Crash
  <2>3. CASE UNCHANGED vars
    BY <1>3, <2>3 DEF vars
  <2> QED
    BY <1>3, <2>1, <2>2, <2>3 DEF Next
<1> QED
  BY <1>2, <1>3, TypedInvariant, PTL DEF Spec

\* How many rows a handler's own run may have: one for each attempt judged.
Unrecorded == {"enter", "call", "execFail", "reopen", "record"}
Room(u) == IF u.pc \in Unrecorded THEN u.attempt - 1 ELSE u.attempt
Attempted(u, L, K) ==
    u.pc \notin Before /\ K[u.run] = None => Cardinality(L[u.run]) <= Room(u)

Records ==
    /\ \A r \in Runs : IsFiniteSet(llm[r]) /\ (key[r] = None => Cardinality(llm[r]) <= max_attempts)
    /\ \A c \in Callers : Attempted(h[c], llm, key)

LEMMA RoomTyped ==
    ASSUME Typed, NEW c \in Callers, h[c].pc # "idle"
    PROVE  Room(h[c]) \in Nat /\ Room(h[c]) <= max_attempts
BY HandlerCounts, GatewayAssumption DEF Room

LEMMA Added ==
    ASSUME NEW A, NEW x, IsFiniteSet(A)
    PROVE  /\ IsFiniteSet(A \cup {x}) /\ Cardinality(A) \in Nat
           /\ Cardinality(A \cup {x}) \in Nat
           /\ Cardinality(A \cup {x}) <= Cardinality(A) + 1
<1>1. IsFiniteSet(A \cup {x}) /\ Cardinality(A) \in Nat /\ Cardinality(A \cup {x}) \in Nat
  BY FS_AddElement, FS_CardinalityType
<1>2. Cardinality(A \cup {x}) = Cardinality(A) \/ Cardinality(A \cup {x}) = Cardinality(A) + 1
  BY FS_AddElement
<1> QED
  BY <1>1, <1>2

LEMMA RecordsKept ==
    ASSUME Typed, Records, NEW c \in Callers, UNCHANGED <<llm, key>>, Others(c),
           h'[c].pc \notin Before /\ key[h'[c].run] = None =>
              /\ h[c].pc \notin Before /\ h'[c].run = h[c].run
              /\ Room(h'[c]) = Room(h[c]) \/ Room(h'[c]) = Room(h[c]) + 1
    PROVE  Records'
<1>1. \A r \in Runs : Cardinality(llm[r]) \in Nat
  BY FS_CardinalityType DEF Records
<1>2. Attempted(h'[c], llm', key')
  <2> SUFFICES ASSUME h'[c].pc \notin Before, key[h'[c].run] = None
               PROVE  Cardinality(llm[h'[c].run]) <= Room(h'[c])
    BY DEF Attempted
  <2>1. h[c].pc \notin Before /\ h'[c].run = h[c].run /\ h[c].run \in Runs
    BY RunHeld DEF Run
  <2>2. Cardinality(llm[h[c].run]) <= Room(h[c]) /\ Room(h[c]) \in Nat
    BY <2>1, RoomTyped DEF Records, Attempted, Before
  <2> QED
    BY <1>1, <2>1, <2>2
<1> QED
  BY <1>2 DEF Records, Others

\* A step that changes the rows of its own run: no other handler has that run.
LEMMA RecordsChanged ==
    ASSUME Typed, KeyInv, Records, NEW c \in Callers, h[c].pc \notin Before, Others(c),
           UNCHANGED key, NEW S, llm' = [llm EXCEPT ![Run(c)] = S], IsFiniteSet(S),
           h'[c].pc \notin Before, h'[c].run = h[c].run,
           Room(h'[c]) \in Nat, Room(h'[c]) <= max_attempts,
           key[Run(c)] = None => Cardinality(S) <= Room(h'[c])
    PROVE  Records'
<1>1. \A r \in Runs : llm'[r] = IF r = Run(c) THEN S ELSE llm[r]
  BY DEF Typed, TypeOK
<1>2. Run(c) \in Runs /\ Run(c) = h[c].run /\ Cardinality(S) \in Nat /\ max_attempts \in Nat
  BY RunHeld, FS_CardinalityType, GatewayAssumption DEF Run
<1>3. \A r \in Runs :
        IsFiniteSet(llm'[r]) /\ (key'[r] = None => Cardinality(llm'[r]) <= max_attempts)
  BY <1>1, <1>2 DEF Records
<1>4. ASSUME NEW d \in Callers PROVE Attempted(h'[d], llm', key')
  <2>1. CASE d = c
    BY <1>1, <1>2, <2>1 DEF Attempted
  <2>2. CASE d # c
    <3> SUFFICES ASSUME h[d].pc \notin Before, key[h[d].run] = None
                 PROVE  Cardinality(llm'[h[d].run]) <= Room(h[d])
      BY <2>2 DEF Attempted, Others
    <3>1. h[d].run # Run(c)
      BY <1>2, <2>2 DEF KeyInv, Alone
    <3>2. h[d].run \in Runs
      BY RunHeld DEF Run
    <3> QED
      BY <1>1, <3>1, <3>2 DEF Records, Attempted
  <2> QED
    BY <2>1, <2>2
<1> QED
  BY <1>3, <1>4 DEF Records

LEMMA RecordsInserted ==
    ASSUME Typed, Records, NEW c \in Callers, Within(h[c]), InsertRun(c)
    PROVE  Records'
<1> DEFINE r == created + 1
<1>1. /\ r \in Runs /\ Runs \subseteq Nat /\ h[c].pc = "insert" /\ HasRun(c, r)
      /\ llm[r] = {} /\ UNCHANGED llm /\ key' = [key EXCEPT ![r] = StoredKey(c)]
  BY GatewayAssumption DEF InsertRun, At, Typed, TypeOK, Runs, Existing
<1>2. \A d \in Callers : h[d].pc \notin Before => h[d].run \in Runs /\ h[d].run # r
  BY <1>1, RunsOf DEF Typed, Local
<1> HIDE DEF r
<1>3. /\ Others(c) /\ h'[c].run = r /\ h'[c].attempt = 1
      /\ h'[c].pc \in {"enter", "accepted"}
  BY <1>1, WhenRun DEF Typed, TypeOK, SameCall, SameTry, Within
<1>4. \A s \in Runs : s # r => key'[s] = key[s]
  BY <1>1 DEF Typed, TypeOK
<1>5. Cardinality(llm[r]) = 0 /\ max_attempts >= 0
  BY <1>1, FS_EmptySet, GatewayAssumption
<1>6. Attempted(h'[c], llm', key')
  BY <1>1, <1>3, <1>5 DEF Attempted, Room
<1>7. ASSUME NEW d \in Callers, d # c PROVE Attempted(h'[d], llm', key')
  <2>1. h'[d] = h[d] /\ Attempted(h[d], llm, key) /\ llm' = llm
    BY <1>1, <1>3, <1>7 DEF Records, Others
  <2> QED
    BY <1>2, <1>4, <2>1 DEF Attempted
<1>8. \A s \in Runs :
        IsFiniteSet(llm'[s]) /\ (key'[s] = None => Cardinality(llm'[s]) <= max_attempts)
  BY <1>1, <1>4, <1>5 DEF Records
<1> QED
  BY <1>6, <1>7, <1>8 DEF Records

LEMMA RecordsRecorded ==
    ASSUME Typed, KeyInv, Records, NEW c \in Callers, RecordReply(c), h[c].resp \notin Recorded
    PROVE  Records'
<1> DEFINE row == [resp |-> h[c].resp, answer |-> h[c].answer, verdict |-> "UNJUDGED"]
           S == llm[Run(c)] \cup {row}
<1>1. h[c].pc = "record" /\ Run(c) \in Runs /\ Goto(c, "judge") /\ UNCHANGED key
  BY RunHeld DEF RecordReply, At, Before
<1>2. llm' = [llm EXCEPT ![Run(c)] = S]
  BY DEF RecordReply
<1>3. /\ IsFiniteSet(S) /\ Cardinality(S) <= Cardinality(llm[Run(c)]) + 1
      /\ Cardinality(llm[Run(c)]) \in Nat /\ Cardinality(S) \in Nat
  <2>1. IsFiniteSet(llm[Run(c)])
    BY <1>1 DEF Records
  <2> HIDE DEF row
  <2> QED
    BY <2>1, Added
<1> HIDE DEF S
<1>4. /\ Others(c) /\ h'[c].pc = "judge" /\ h'[c].run = h[c].run /\ h'[c].attempt = h[c].attempt
  BY <1>1, WhenGoto DEF Typed, TypeOK, PCs, SameCall, SameTry
<1>5. h[c].attempt \in 1..max_attempts /\ max_attempts \in Nat
  BY <1>1, HandlerCounts, GatewayAssumption
<1>6. /\ Room(h'[c]) = h[c].attempt /\ Room(h[c]) = h[c].attempt - 1
      /\ h[c].pc \notin Before /\ h'[c].pc \notin Before
  BY <1>1, <1>4 DEF Room, Unrecorded, Before
<1>7. key[Run(c)] = None => Cardinality(llm[Run(c)]) <= Room(h[c])
  BY <1>6 DEF Records, Attempted, Run
<1>8. key[Run(c)] = None => Cardinality(S) <= Room(h'[c])
  BY <1>3, <1>5, <1>6, <1>7
<1>9. Room(h'[c]) \in Nat /\ Room(h'[c]) <= max_attempts
  BY <1>5, <1>6
<1> QED
  BY <1>1, <1>2, <1>3, <1>4, <1>6, <1>8, <1>9, RecordsChanged

LEMMA RecordsJudged ==
    ASSUME Typed, KeyInv, Records, NEW c \in Callers, NEW verdict,
           h[c].pc = "judge", RecordVerdict(c, verdict), UNCHANGED key, Others(c),
           h'[c].pc \notin Before, h'[c].run = h[c].run, Room(h'[c]) = Room(h[c])
    PROVE  Records'
<1>1. CASE UNCHANGED llm
  BY <1>1, RecordsKept DEF Before
<1>2. ASSUME NEW row \in llm[Run(c)],
             llm' = [llm EXCEPT ![Run(c)] = (@ \ {row}) \cup {[row EXCEPT !.verdict = verdict]}]
      PROVE  Records'
  <2> DEFINE judged == [row EXCEPT !.verdict = verdict]
             rest == llm[Run(c)] \ {row}
             S == rest \cup {judged}
  <2>1. h[c].pc \notin Before /\ Run(c) \in Runs /\ Run(c) = h[c].run
    BY RunHeld DEF Before, Run
  <2>2. llm' = [llm EXCEPT ![Run(c)] = S]
    BY <1>2
  <2>3. IsFiniteSet(llm[Run(c)]) /\ Cardinality(llm[Run(c)]) \in Nat
    BY <2>1, FS_CardinalityType DEF Records
  <2> HIDE DEF judged
  <2>4. IsFiniteSet(rest) /\ Cardinality(rest) = Cardinality(llm[Run(c)]) - 1
    BY <1>2, <2>3, FS_RemoveElement
  <2> HIDE DEF rest
  <2>5. IsFiniteSet(S) /\ Cardinality(S) <= Cardinality(llm[Run(c)]) /\ Cardinality(S) \in Nat
    <3>1. IsFiniteSet(S) /\ Cardinality(S) \in Nat /\ Cardinality(S) <= Cardinality(rest) + 1
      BY <2>4, Added
    <3> QED
      BY <2>3, <2>4, <3>1
  <2>6. key[Run(c)] = None => Cardinality(llm[Run(c)]) <= Room(h[c])
    BY <2>1 DEF Records, Attempted
  <2>7. Room(h[c]) \in Nat /\ Room(h[c]) <= max_attempts
    BY RoomTyped
  <2> HIDE DEF S
  <2>8. key[Run(c)] = None => Cardinality(S) <= Room(h'[c])
    BY <2>3, <2>5, <2>6, <2>7
  <2> QED
    BY <2>1, <2>2, <2>5, <2>7, <2>8, RecordsChanged
<1> QED
  BY <1>1, <1>2 DEF RecordVerdict

\* The steps that record nothing leave its handler the room it had.
LEMMA RecordsQuiet ==
    ASSUME Typed, Records, NEW c \in Callers, Works(c),
           ~JudgeAccepts(c), ~JudgeRejects(c), ~(RecordReply(c) /\ h[c].resp \notin Recorded)
    PROVE  Records'
<1>1. Continues(c) /\ UNCHANGED key
  BY Continue
<1>2. UNCHANGED llm
  BY DEF Works, EnterExecute, CallFails, CallAnswers, CallIgnoresTool, CallReplayed, ExecuteFails,
     ReopenForRetry, RecordReply, JudgeTruncated, GiveUp, HandlerFails, HandlerPropagates,
     HandlerRefuses, PublishFirst, ReturnExplanation, PublishLast, SucceedReads, SucceedRefuses,
     SucceedWrites, Publish, Issue, rowVars, boundVars
<1>3. h[c].attempt \in 1..max_attempts /\ h[c].attempt \in Nat
  BY <1>1, HandlerCounts, GatewayAssumption DEF Continues, Before
<1> DEFINE Kept == \/ Room(h'[c]) = Room(h[c])
                   \/ Room(h'[c]) = Room(h[c]) + 1
                   \/ h'[c] = Idle
<1>4. ASSUME Kept PROVE Records'
  BY <1>1, <1>2, <1>4, RecordsKept DEF Continues, Idle, Before
<1>5. CASE h'[c].attempt = h[c].attempt
           /\ (h'[c].pc \in Unrecorded => h[c].pc \in Unrecorded)
  <2>1. Kept
    BY <1>3, <1>5 DEF Room
  <2> QED
    BY <1>4, <2>1
<1>6. CASE EnterExecute(c) \/ CallFails(c) \/ CallAnswers(c) \/ CallIgnoresTool(c)
           \/ CallReplayed(c) \/ ExecuteFails(c) \/ ReopenForRetry(c)
  <2>1. h[c].pc \in {"enter", "call", "execFail", "reopen"}
    BY <1>6 DEF EnterExecute, CallFails, CallAnswers, CallIgnoresTool, CallReplayed, ExecuteFails,
       ReopenForRetry, Issue, At
  <2>2. h'[c].attempt = h[c].attempt
    BY <1>6, PlacesCall DEF SameCounts, OneMoreCall, SameTry
  <2> QED
    BY <1>5, <2>1, <2>2 DEF Unrecorded
<1>7. CASE RecordReply(c)
  <2>1. h[c].pc = "record" /\ h'[c].attempt = h[c].attempt
    BY <1>7, PlacesCall DEF RecordReply, At, SameCounts, SameTry
  <2> QED
    BY <1>5, <2>1 DEF Unrecorded
<1>8. CASE JudgeTruncated(c) \/ GiveUp(c) \/ PublishFirst(c) \/ SucceedReads(c) \/ SucceedWrites(c)
  <2>1. h'[c] = Idle \/ (h'[c].pc \notin Unrecorded /\ h'[c].attempt = h[c].attempt)
    BY <1>8, PlacesLast DEF SameCounts, SameTry, Unrecorded
  <2> QED
    BY <1>4, <1>5, <2>1
<1>9. CASE h'[c] = Idle
  BY <1>4, <1>9
<1> QED
  BY <1>6, <1>7, <1>8, <1>9, PlacesLast DEF Works

LEMMA RecordsStep ==
    ASSUME Typed, KeyInv, Records, \A c \in Callers : Within(h[c]), [Next]_vars
    PROVE  Records'
<1>0. h \in [Callers -> Handlers]
  BY DEF Typed, TypeOK
<1>1. ASSUME NEW c \in Callers, JudgeAccepts(c) PROVE Records'
  <2>1. h[c].pc = "judge" /\ RecordVerdict(c, "ACCEPTED") /\ Goto(c, "accepted") /\ UNCHANGED key
    BY <1>1 DEF JudgeAccepts, At
  <2>2. /\ Others(c) /\ h'[c].pc = "accepted" /\ h'[c].run = h[c].run
        /\ h'[c].attempt = h[c].attempt
    BY <1>0, <2>1, WhenGoto DEF PCs, SameCall, SameTry
  <2> QED
    BY <2>1, <2>2, RecordsJudged DEF Room, Unrecorded, Before
<1>2. ASSUME NEW c \in Callers, JudgeRejects(c) PROVE Records'
  <2>1. /\ h[c].pc = "judge" /\ RecordVerdict(c, "REJECTED") /\ UNCHANGED key
        /\ (Reattempts(c) /\ h[c].attempt < max_attempts) \/ Goto(c, "giveUp")
    BY <1>2 DEF JudgeRejects, At, AttemptsLeft
  <2>2. /\ Others(c) /\ h'[c].run = h[c].run
        /\ \/ h'[c].pc = "giveUp" /\ h'[c].attempt = h[c].attempt
           \/ h'[c].pc = "enter" /\ h'[c].attempt = h[c].attempt + 1
    BY <1>0, <2>1, WhenGoto, WhenRejected DEF PCs, SameCall, SameTry
  <2>3. h[c].attempt \in 1..max_attempts /\ h[c].attempt \in Nat
    BY <2>1, HandlerCounts, GatewayAssumption
  <2>4. Room(h'[c]) = Room(h[c]) /\ h'[c].pc \notin Before
    BY <2>1, <2>2, <2>3 DEF Room, Unrecorded, Before
  <2> QED
    BY <2>1, <2>2, <2>4, RecordsJudged
<1>3. ASSUME NEW c \in Callers, Works(c) PROVE Records'
  BY <1>1, <1>2, <1>3, RecordsRecorded, RecordsQuiet
<1>4. ASSUME NEW c \in Callers, Submit(c) PROVE Records'
  <2>1. h'[c].pc \in Before /\ Others(c) /\ UNCHANGED <<llm, key>>
    BY <1>0, <1>4, WhenSubmitted DEF Submit, Before, rowVars
  <2> QED
    BY <2>1, RecordsKept
<1>5. ASSUME NEW c \in Callers, NEW r \in Runs, h[c].pc \in {"lookup", "insert"},
             key[r] = StoredKey(c), StoredKey(c) # None, HasRun(c, r), UNCHANGED <<llm, key>>
      PROVE  Records'
  <2>1. Others(c) /\ h'[c].run = r
    BY <1>0, <1>5, WhenRun
  <2> QED
    BY <1>5, <2>1, RecordsKept
<1>6. ASSUME NEW c \in Callers, LookupKey(c) PROVE Records'
  <2>1. /\ h[c].pc = "lookup" /\ StoredKey(c) # None /\ UNCHANGED <<llm, key>>
    BY <1>6, KeyStored DEF LookupKey, At, Typed, Local, rowVars
  <2>2. CASE Goto(c, "insert")
    <3>1. Others(c) /\ h'[c].pc \in Before
      BY <1>0, <2>2, WhenGoto DEF PCs, Before
    <3> QED
      BY <2>1, <3>1, RecordsKept
  <2> QED
    BY <1>5, <1>6, <2>1, <2>2 DEF LookupKey
<1>7. ASSUME NEW c \in Callers, InsertConflict(c) PROVE Records'
  <2>1. /\ h[c].pc = "insert" /\ StoredKey(c) # None /\ UNCHANGED <<llm, key>>
    BY <1>7 DEF InsertConflict, Unused, At, rowVars
  <2> QED
    BY <1>5, <1>7, <2>1 DEF InsertConflict
<1>8. CASE Crash
  <2>1. UNCHANGED <<llm, key>> /\ \A c \in Callers : h'[c].pc \in Before
    BY <1>8 DEF Crash, Idle, Before, rowVars
  <2> QED
    BY <2>1 DEF Records, Attempted
<1>9. CASE UNCHANGED vars
  BY <1>9 DEF vars, rowVars, Records, Attempted
<1> QED
  BY <1>3, <1>4, <1>6, <1>7, <1>8, <1>9, RecordsInserted DEF Next, Handle, Works

\* SpendBounded in every instance.
THEOREM SpendingEnds == Spec => []SpendBounded
<1>1. Init => Records
  BY FS_EmptySet, GatewayAssumption DEF Init, Records, Attempted, Idle, Before
<1>2. Records /\ (\A c \in Callers : Within(h[c])) => SpendBounded
  BY DEF Records, Within, SpendBounded
<1> QED
  BY <1>1, <1>2, RecordsStep, TypedInvariant, KeyInvariant, WithinInvariant, PTL DEF Spec
----------------------------------------------------------------------------
(* What a run's status says. *)

\* The statuses a step of a handler with a run sets are those of that run.
LEMMA StatusOfOwnRun ==
    ASSUME Typed, NEW c \in Callers, Works(c)
    PROVE  /\ \A r \in Runs : r # Run(c) => status'[r] = status[r]
           /\ \/ UNCHANGED status
              \/ /\ ExecuteFails(c) \/ GiveUp(c) \/ HandlerFails(c) \/ HandlerRefuses(c)
                    \/ SucceedRefuses(c)
                 /\ status'[Run(c)] = "FAILED"
              \/ ReopenForRetry(c) /\ status'[Run(c)] = "RUNNING"
              \/ SucceedWrites(c) /\ status'[Run(c)] = "SUCCEEDED"
<1>0. Run(c) \in Runs
  BY Continue, RunHeld DEF Continues
<1>1. ASSUME NEW s, SetStatus(c, s)
      PROVE  status'[Run(c)] = s /\ \A r \in Runs : r # Run(c) => status'[r] = status[r]
  BY <1>0, <1>1 DEF SetStatus, Typed, TypeOK
<1>2. CASE ExecuteFails(c) \/ GiveUp(c) \/ HandlerFails(c) \/ HandlerRefuses(c) \/ SucceedRefuses(c)
  BY <1>1, <1>2 DEF ExecuteFails, GiveUp, HandlerFails, HandlerRefuses, SucceedRefuses
<1>3. CASE ReopenForRetry(c)
  BY <1>1, <1>3 DEF ReopenForRetry
<1>4. CASE SucceedWrites(c)
  BY <1>1, <1>4 DEF SucceedWrites
<1>5. CASE ~(\/ ExecuteFails(c) \/ GiveUp(c) \/ HandlerFails(c) \/ HandlerRefuses(c)
             \/ SucceedRefuses(c) \/ ReopenForRetry(c) \/ SucceedWrites(c))
  <2>1. UNCHANGED status
    BY <1>5 DEF Works, EnterExecute, CallFails, CallAnswers, CallIgnoresTool, CallReplayed,
       RecordReply, JudgeTruncated, JudgeAccepts, JudgeRejects, HandlerPropagates, PublishFirst,
       ReturnExplanation, PublishLast, SucceedReads, Publish, Issue, rowVars, boundVars
  <2> QED
    BY <2>1
<1> QED
  BY <1>2, <1>3, <1>4, <1>5

LEMMA RowsStay ==
    ASSUME Typed, NEW c \in Callers, Submit(c) \/ Handle(c)
    PROVE  \A r \in Runs : llm[r] # {} => llm'[r] # {}
<1>1. CASE UNCHANGED llm
  BY <1>1
<1>2. CASE RecordReply(c) /\ h[c].resp \notin Recorded
  <2> DEFINE row == [resp |-> h[c].resp, answer |-> h[c].answer, verdict |-> "UNJUDGED"]
  <2>1. llm' = [llm EXCEPT ![Run(c)] = @ \cup {row}]
    BY <1>2 DEF RecordReply
  <2> HIDE DEF row
  <2> QED
    BY <2>1 DEF Typed, TypeOK
<1>3. ASSUME NEW v, RecordVerdict(c, v) PROVE \A r \in Runs : llm[r] # {} => llm'[r] # {}
  <2>1. CASE UNCHANGED llm
    BY <2>1
  <2>2. ASSUME NEW row, NEW judged, llm' = [llm EXCEPT ![Run(c)] = (@ \ {row}) \cup {judged}]
        PROVE  \A r \in Runs : llm[r] # {} => llm'[r] # {}
    BY <2>2 DEF Typed, TypeOK
  <2> QED
    BY <1>3, <2>1, <2>2 DEF RecordVerdict
<1> QED
  BY <1>1, <1>2, <1>3
     DEF Handle, Submit, LookupKey, InsertRun, InsertConflict, EnterExecute, CallFails,
     CallAnswers, CallIgnoresTool, CallReplayed, ExecuteFails, ReopenForRetry, RecordReply,
     JudgeTruncated, JudgeAccepts, JudgeRejects, GiveUp, HandlerFails, HandlerPropagates,
     HandlerRefuses, PublishFirst, ReturnExplanation, PublishLast, SucceedReads, SucceedRefuses,
     SucceedWrites, Publish, Issue, rowVars, boundVars

\* A handler about to write SUCCEEDED has seen the record of a LIVE run.
MayWrite(u, L, M) == u.pc = "write" /\ M[u.run] = "LIVE" => L[u.run] # {}

ProofInv ==
    /\ LiveSuccessHasProof
    /\ \A c \in Callers : MayWrite(h[c], llm, mode)

LEMMA ProofWorks ==
    ASSUME Typed, ProofInv, NEW c \in Callers, Works(c)
    PROVE  ProofInv'
<1>1. /\ Continues(c) /\ UNCHANGED mode
      /\ \A r \in Runs : llm[r] # {} => llm'[r] # {}
  BY Continue, RowsStay DEF Works, Handle
<1>2. Run(c) \in Runs /\ Run(c) = h[c].run
  BY <1>1, RunHeld DEF Continues, Run
<1>3. LiveSuccessHasProof'
  <2>1. SucceedWrites(c) => h[c].pc = "write"
    BY DEF SucceedWrites, At
  <2> QED
    BY <1>1, <1>2, <2>1, StatusOfOwnRun DEF ProofInv, LiveSuccessHasProof, MayWrite
<1>4. MayWrite(h'[c], llm', mode')
  <2> SUFFICES ASSUME h'[c].pc = "write" PROVE mode[h'[c].run] = "LIVE" => llm'[h'[c].run] # {}
    BY <1>1 DEF MayWrite
  <2>1. h'[c].run = h[c].run
    BY <1>1 DEF Continues, Idle
  <2>2. SucceedReads(c)
    BY PlacesCall, PlacesLast DEF Works, Idle
  <2>3. CASE mode[Run(c)] = "LIVE" /\ ~Proven(Run(c))
    BY <2>2, <2>3, WhenGoto DEF SucceedReads, PCs, Typed, TypeOK
  <2>4. CASE ~(mode[Run(c)] = "LIVE" /\ ~Proven(Run(c)))
    BY <1>1, <1>2, <2>1, <2>4 DEF Proven
  <2> QED
    BY <2>3, <2>4
<1>5. ASSUME NEW d \in Callers, d # c PROVE MayWrite(h'[d], llm', mode')
  <2>1. h'[d] = h[d]
    BY <1>1, <1>5 DEF Continues, Others
  <2>2. h[d].pc = "write" => h[d].run \in Runs
    BY RunHeld DEF Before, Run
  <2> QED
    BY <1>1, <2>1, <2>2 DEF ProofInv, MayWrite
<1> QED
  BY <1>3, <1>4, <1>5 DEF ProofInv

LEMMA ProofStep ==
    ASSUME Typed, ProofInv, [Next]_vars
    PROVE  ProofInv'
<1>1. ASSUME NEW c \in Callers, Submit(c) \/ LookupKey(c) \/ InsertConflict(c) PROVE ProofInv'
  <2>1. UNCHANGED <<status, mode, llm>>
    BY <1>1 DEF Submit, LookupKey, InsertConflict, rowVars
  <2>2. Others(c) /\ h'[c].pc # "write"
    BY <1>1, PlacesFirst, HandlerTyped DEF Handle, Stepped
  <2> QED
    BY <2>1, <2>2 DEF ProofInv, LiveSuccessHasProof, MayWrite, Others
<1>2. ASSUME NEW c \in Callers, InsertRun(c) PROVE ProofInv'
  <2> DEFINE r == created + 1
  <2>1. /\ r \in Runs /\ UNCHANGED llm /\ status' = [status EXCEPT ![r] = "QUEUED"]
        /\ mode' = [mode EXCEPT ![r] = h[c].mode]
    BY <1>2, GatewayAssumption DEF InsertRun, Typed, TypeOK, Runs
  <2>2. \A d \in Callers : h[d].pc \notin Before => h[d].run \in Runs /\ h[d].run # r
    BY RunsOf DEF Typed, Local
  <2>3. Others(c) /\ h'[c].pc # "write"
    BY <1>2, PlacesFirst, HandlerTyped DEF Handle, Stepped
  <2> HIDE DEF r
  <2>4. /\ status'[r] = "QUEUED"
        /\ \A s \in Runs : s # r => status'[s] = status[s] /\ mode'[s] = mode[s]
    BY <2>1 DEF Typed, TypeOK
  <2> QED
    BY <2>1, <2>2, <2>3, <2>4 DEF ProofInv, LiveSuccessHasProof, MayWrite, Others, Before
<1>3. CASE Crash
  BY <1>3 DEF Crash, Idle, rowVars, ProofInv, LiveSuccessHasProof, MayWrite
<1>4. CASE UNCHANGED vars
  BY <1>4 DEF vars, rowVars, ProofInv, LiveSuccessHasProof, MayWrite
<1> QED
  BY <1>1, <1>2, <1>3, <1>4, ProofWorks DEF Next, Handle, Works

\* LiveSuccessHasProof in every instance.
THEOREM SuccessIsProven == Spec => []LiveSuccessHasProof
<1>1. Init => ProofInv
  BY DEF Init, ProofInv, LiveSuccessHasProof, MayWrite, Idle
<1>2. ProofInv => LiveSuccessHasProof
  BY DEF ProofInv
<1> QED
  BY <1>1, <1>2, ProofStep, TypedInvariant, PTL DEF Spec

\* A handler that will end its run: what it has raised it catches, and its
\* result is not yet stored.
Ends(u) ==
    /\ u.pc \notin Before \cup {"publish"}
    /\ u.pc = "raised" => u.exc \in Catches(u.style)

Pending(r) == agent[r] \in {"corroborate", "collect"} /\ status[r] \in Executable

SettledInv ==
    /\ crashes \in Nat
    /\ crashes = 0 =>
          \A r \in Runs : Pending(r) => \E c \in Callers : h[c].run = r /\ Ends(h[c])

LEMMA EndsWorks ==
    ASSUME Typed, KeyInv, NEW c \in Callers, Works(c), Ends(h[c]), Pending(Run(c)),
           status'[Run(c)] \in Executable
    PROVE  h'[c].run = h[c].run /\ Ends(h'[c])
<1>0. /\ h[c].pc \notin Before /\ Run(c) \in Runs /\ Run(c) = h[c].run /\ Continues(c)
      /\ h[c].style = agent[Run(c)]
  BY Continue, RunHeld DEF Continues, Run, KeyInv, Matches
<1>1. h[c].style \in {"corroborate", "collect"}
  BY <1>0 DEF Pending
<1>2. ~(\/ ExecuteFails(c) \/ GiveUp(c) \/ HandlerFails(c) \/ HandlerRefuses(c)
        \/ SucceedRefuses(c) \/ SucceedWrites(c))
  BY <1>0 DEF ExecuteFails, GiveUp, HandlerFails, HandlerRefuses, SucceedRefuses, SucceedWrites,
     SetStatus, Typed, TypeOK, Executable
<1>3. ~HandlerPropagates(c) /\ ~ReturnExplanation(c) /\ ~PublishLast(c)
  BY <1>1 DEF HandlerPropagates, ReturnExplanation, PublishLast, Ends, At
<1>4. ASSUME h'[c].pc \notin Before \cup {"publish"},
             h'[c].pc = "raised" =>
                \/ h'[c].exc = "invalid"
                \/ h'[c].exc \in Errors /\ h[c].style = "collect"
      PROVE  h'[c].run = h[c].run /\ Ends(h'[c])
  <2>1. h'[c].run = h[c].run /\ h'[c].style = h[c].style
    BY <1>0, <1>4 DEF Continues, SameRequest, Idle, Before
  <2> QED
    BY <1>1, <1>4, <2>1 DEF Ends, Catches, Errors
<1>5. CASE EnterExecute(c)
  <2>1. h[c].style = "corroborate" => h[c].key = None /\ h[c].mode = "LIVE"
    BY <1>0, <1>5 DEF Typed, Local, TakesKey, EnterExecute, At, Before, After
  <2>2. h[c].style = "corroborate" => mode[Run(c)] = "LIVE"
    BY <1>0, <2>1 DEF KeyInv, Matches
  <2>3. h[c].style = "corroborate" => Goto(c, "call")
    BY <1>5, <2>2 DEF EnterExecute, Pending
  <2>4. h[c].style = "corroborate" => h'[c].pc = "call"
    BY <2>3, WhenGoto DEF Typed, TypeOK, PCs
  <2> QED
    BY <1>1, <1>4, <1>5, <2>4, PlacesCall DEF Before, Errors
<1>6. CASE CallFails(c) \/ CallAnswers(c) \/ CallReplayed(c) \/ CallIgnoresTool(c)
           \/ ReopenForRetry(c) \/ RecordReply(c)
  BY <1>4, <1>6, PlacesCall DEF Before
<1>7. CASE JudgeTruncated(c) \/ JudgeAccepts(c) \/ JudgeRejects(c) \/ PublishFirst(c)
           \/ SucceedReads(c)
  BY <1>4, <1>7, PlacesLast DEF Before
<1> QED
  BY <1>2, <1>3, <1>5, <1>6, <1>7 DEF Works

LEMMA SettledWorks ==
    ASSUME Typed, KeyInv, SettledInv, NEW c \in Callers, Works(c)
    PROVE  SettledInv'
<1>1. /\ Continues(c) /\ UNCHANGED agent /\ Run(c) \in Runs /\ Run(c) = h[c].run
  BY Continue, RunHeld DEF Continues, Run
<1>2. UNCHANGED crashes
  BY DEF Works, EnterExecute, CallFails, CallAnswers, CallIgnoresTool, CallReplayed, ExecuteFails,
     ReopenForRetry, RecordReply, JudgeTruncated, JudgeAccepts, JudgeRejects, GiveUp, HandlerFails,
     HandlerPropagates, HandlerRefuses, PublishFirst, ReturnExplanation, PublishLast, SucceedReads,
     SucceedRefuses, SucceedWrites, Publish, Issue, boundVars
<1>3. ASSUME crashes = 0, NEW r \in Runs, Pending(r)'
      PROVE  \E d \in Callers : h'[d].run = r /\ Ends(h'[d])
  <2>1. CASE Pending(r)
    <3>1. PICK d \in Callers : h[d].run = r /\ Ends(h[d])
      BY <1>3, <2>1 DEF SettledInv
    <3>2. CASE d = c
      <4>1. r = Run(c) /\ status'[Run(c)] \in Executable
        BY <1>1, <1>3, <3>1, <3>2 DEF Pending
      <4> QED
        BY <2>1, <3>1, <3>2, <4>1, EndsWorks
    <3>3. CASE d # c
      BY <1>1, <3>1, <3>3 DEF Continues, Others
    <3> QED
      BY <3>2, <3>3
  <2>2. CASE ~Pending(r)
    <3>1. status'[r] # status[r] /\ status'[r] \in Executable
      BY <1>1, <1>3, <2>2 DEF Pending
    <3>2. r = Run(c) /\ ReopenForRetry(c)
      BY <3>1, StatusOfOwnRun DEF Executable
    <3>3. h'[c].pc = "enter" /\ h'[c].run = r
      BY <1>1, <3>2, PlacesCall DEF Continues, Idle
    <3> QED
      BY <3>3 DEF Ends, Before
  <2> QED
    BY <2>1, <2>2
<1> QED
  BY <1>2, <1>3 DEF SettledInv

LEMMA SettledStep ==
    ASSUME Typed, KeyInv, SettledInv, [Next]_vars
    PROVE  SettledInv'
<1>1. ASSUME NEW c \in Callers, Submit(c) \/ LookupKey(c) \/ InsertConflict(c) PROVE SettledInv'
  <2>1. UNCHANGED <<status, agent, crashes>> /\ h[c].pc \in Before /\ Others(c)
    BY <1>1, HandlerTyped
       DEF Submit, LookupKey, InsertConflict, rowVars, boundVars, Before, At, Handle, Stepped
  <2> QED
    BY <2>1 DEF SettledInv, Pending, Others, Ends
<1>2. ASSUME NEW c \in Callers, InsertRun(c) PROVE SettledInv'
  <2> DEFINE r == created + 1
  <2>1. /\ r \in Runs /\ UNCHANGED crashes /\ status' = [status EXCEPT ![r] = "QUEUED"]
        /\ agent' = [agent EXCEPT ![r] = h[c].style] /\ h[c].pc = "insert" /\ HasRun(c, r)
    BY <1>2, GatewayAssumption DEF InsertRun, Typed, TypeOK, Runs, boundVars, At
  <2> HIDE DEF r
  <2>2. Others(c) /\ h'[c].pc \in {"enter", "accepted"} /\ h'[c].run = r
    BY <2>1, WhenRun DEF Typed, TypeOK
  <2>3. \A s \in Runs : s # r => status'[s] = status[s] /\ agent'[s] = agent[s]
    BY <2>1 DEF Typed, TypeOK
  <2>4. Ends(h'[c])
    BY <2>2 DEF Ends, Before
  <2>5. ASSUME crashes = 0, NEW s \in Runs, Pending(s)', s # r
        PROVE  \E d \in Callers : h'[d].run = s /\ Ends(h'[d])
    <3>1. PICK d \in Callers : h[d].run = s /\ Ends(h[d])
      BY <2>3, <2>5 DEF SettledInv, Pending
    <3>2. d # c
      BY <2>1, <3>1 DEF Ends, Before
    <3> QED
      BY <2>2, <3>1, <3>2 DEF Others
  <2> QED
    BY <2>1, <2>2, <2>4, <2>5 DEF SettledInv
<1>3. CASE Crash
  BY <1>3 DEF Crash, SettledInv
<1>4. CASE UNCHANGED vars
  BY <1>4 DEF vars, rowVars, boundVars, SettledInv, Pending
<1> QED
  BY <1>1, <1>2, <1>3, <1>4, SettledWorks DEF Next, Handle, Works

\* Settled in every instance.
THEOREM RunsEnd == Spec => []Settled
<1>1. Init => SettledInv
  BY DEF Init, SettledInv, Pending, Executable
<1>2. ASSUME Typed, SettledInv PROVE Settled
  <2> SUFFICES ASSUME crashes = 0, NEW r \in Runs, Created(r), ~Handled(r),
                      agent[r] \in {"corroborate", "collect"}, status[r] \notin Ended
               PROVE  FALSE
    BY DEF Settled
  <2>1. Pending(r)
    BY <1>2 DEF Pending, Created, Typed, TypeOK
  <2> QED
    BY <1>2, <2>1 DEF SettledInv, Handled, Run
<1> QED
  BY <1>1, <1>2, SettledStep, TypedInvariant, KeyInvariant, PTL DEF Spec
=============================================================================
