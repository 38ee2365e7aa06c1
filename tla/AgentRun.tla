------------------------------ MODULE AgentRun ------------------------------
(***************************************************************************)
(* The LLM gateway, api_service/app/llm/gateway.py: the life of an          *)
(* agent_run row from create_agent_run to succeed or _fail, the provider    *)
(* calls structured_call makes under it, and the request handlers that wrap *)
(* them.  Handlers differ in three things only, kept as a style:            *)
(*   "advise"      savings_advisory.recommend and narrate: no exception is  *)
(*                 caught, and a DETERMINISTIC_ONLY request is served by a  *)
(*                 rule without entering execute();                         *)
(*   "corroborate" entity_resolution.propose_candidates and profile,        *)
(*                 known_facts.corroborate: only StructuredOutputInvalid is *)
(*                 turned into gateway.fail, and the result is stored       *)
(*                 before succeed();                                        *)
(*   "collect"     questionnaire.prefill, research, benchmark_ingest: the   *)
(*                 four gateway errors are turned into gateway.fail;        *)
(*   "explain"     the estimate:explain route: succeed() is never called.   *)
(*                                                                          *)
(* A step is one committed statement, one query or one provider call.  Rows *)
(* survive a crash; a handler's locals do not.                              *)
(***************************************************************************)
EXTENDS Naturals, FiniteSets

CONSTANTS
    Callers,         \* request threads
    Keys,            \* idempotency keys clients supply
    None,            \* no value
    Styles,          \* the handlers that serve requests
    max_attempts,            \* structured_call's judged attempts
    max_transport_retries,   \* and its retries of a cut connection
    MaxRequests,     \* bound: requests clients send, so also agent_run rows
    MaxIssued,       \* bound: replies providers issue
    MaxCrashes       \* bound: crashes of the server

AllStyles == {"advise", "corroborate", "collect", "explain"}

ASSUME GatewayAssumption ==
    /\ Styles \subseteq AllStyles
    /\ max_attempts \in Nat \ {0}
    /\ max_transport_retries \in Nat
    /\ {MaxRequests, MaxIssued, MaxCrashes} \subseteq Nat
    /\ None \notin Keys \cup 1..MaxIssued \cup (AllStyles \X Keys)

VARIABLES
    status,     \* agent_run.status, "ABSENT" before the insert
    agent,      \* agent_run.agent_id, as the style of the handlers that use it
    mode,       \* agent_run.execution_mode
    key,        \* agent_run.idempotency_key
    created,    \* agent_run rows inserted
    llm,        \* llm_run rows of each run: response id, answer, verdict
    published,  \* results stored or returned: run, label, response id
    h,          \* each request handler: where it stands and its locals
    requests, issued, crashes   \* bounded counters

rowVars == <<status, agent, mode, key, created, llm, published>>
boundVars == <<requests, issued, crashes>>
vars == <<rowVars, h, boundVars>>

Runs == 1..MaxRequests   \* a request inserts at most one row
Responses == 1..MaxIssued
Modes == {"LIVE", "DETERMINISTIC_ONLY"}
Executable == {"QUEUED", "RUNNING"}
Ended == {"SUCCEEDED", "FAILED"}

\* What a provider's reply turns out to be.  A weak answer fails the gate for a
\* reason another attempt may fix; an off-topic one for a quality.TERMINAL reason.
Answers == {"good", "weak", "offtopic", "truncated"}
\* A cut connection, any other provider error, a reply without a liveness proof.
Failures == {"cut", "unavailable", "liveness"}
\* The exceptions a handler can see: the failures, StructuredOutputInvalid and
\* ModeNotPermitted.
Errors == Failures \cup {"invalid", "mode"}

LlmRows == [resp : Responses, answer : Answers, verdict : {"UNJUDGED", "ACCEPTED", "REJECTED"}]

PCs == {"idle", "lookup", "insert", "enter", "call", "execFail", "reopen", "record",
        "judge", "giveUp", "raised", "accepted", "prove", "noProof", "write", "publish"}

\* What structured_call may spend on one request: each attempt with its retries.
SpendLimit == max_attempts * (max_transport_retries + 1)

Handlers ==
    [pc : PCs, style : AllStyles \cup {None}, mode : Modes \cup {None},
     key : Keys \cup {None}, run : Runs \cup {None},
     attempt : 0..max_attempts, transport_try : 0..max_transport_retries,
     answer : Answers \cup {None}, resp : Responses \cup {None},
     exc : Errors \cup {None}, asked : 0..(SpendLimit + 1)]

Idle == [pc |-> "idle", style |-> None, mode |-> None, key |-> None, run |-> None,
         attempt |-> 0, transport_try |-> 0, answer |-> None, resp |-> None,
         exc |-> None, asked |-> 0]

Init ==
    /\ status = [r \in Runs |-> "ABSENT"]
    /\ agent = [r \in Runs |-> None]
    /\ mode = [r \in Runs |-> None]
    /\ key = [r \in Runs |-> None]
    /\ created = 0
    /\ llm = [r \in Runs |-> {}]
    /\ published = {}
    /\ h = [c \in Callers |-> Idle]
    /\ requests = 0
    /\ issued = 0
    /\ crashes = 0

At(c, l) == h[c].pc = l
Run(c) == h[c].run
Goto(c, l) == h' = [h EXCEPT ![c].pc = l]
Raise(c, e, l) ==
    h' = [h EXCEPT ![c].pc = l, ![c].exc = e, ![c].answer = None, ![c].resp = None]
Finish(c) == h' = [h EXCEPT ![c] = Idle]
\* Provider calls are counted up to one more than the limit.
Counted(n) == IF n <= SpendLimit THEN n + 1 ELSE n
SetStatus(c, s) == status' = [status EXCEPT ![Run(c)] = s]

\* The response ids already stored in llm_run, under its unique constraint.
LlmRun == UNION {llm[r] : r \in Runs}

\* Mutants: of Recorded, Unused, Catches, Proven, Accepts.
RecordedNothing == {}
UnusedAlways(k) == TRUE
CatchesNone(style) == {}
ProvenAlways(r) == TRUE
BestOfLast(c) ==
    \/ h[c].answer = "good"
    \/ h[c].answer = "weak" /\ h[c].attempt = max_attempts

Recorded == {row.resp : row \in LlmRun}

\* The gateway errors each handler answers with gateway.fail().
Catches(style) ==
    CASE style = "collect" -> Errors
      [] style \in {"corroborate", "explain"} -> {"invalid"}
      [] OTHER -> {}

\* registry.AGENTS: only the advisory agents permit DETERMINISTIC_ONLY.
Permits(style, m) == m = "LIVE" \/ style = "advise"

\* The handlers that pass a client's idempotency key on.
TakesKey(style) == style \in {"advise", "collect"}

\* The stored key: prefill and research put their own prefix before the client's
\* key, recommend and narrate pass it on as it is.
StoredKey(c) == IF h[c].key = None THEN None ELSE <<h[c].style, h[c].key>>

\* No row carries the key yet (a NULL key is never a duplicate).
Unused(k) == k = None \/ \A r \in Runs : key[r] # k

RetriesLeft(c) == h[c].transport_try < max_transport_retries
AttemptsLeft(c) == h[c].attempt < max_attempts
Proven(r) == llm[r] # {}
Accepts(c) == h[c].answer = "good"

----------------------------------------------------------------------------
(* gateway.create_agent_run *)

\* A mode the agent does not permit is refused before a row exists.
Submit(c) ==
    /\ At(c, "idle")
    /\ requests < MaxRequests
    /\ requests' = requests + 1
    /\ \E style \in Styles, m \in Modes, k \in Keys \cup {None} :
          /\ Permits(style, m)
          /\ k # None => TakesKey(style)
          /\ h' = [h EXCEPT ![c] =
                     [Idle EXCEPT !.pc = IF k = None THEN "insert" ELSE "lookup",
                                  !.style = style, !.mode = m, !.key = k, !.attempt = 1]]
    /\ UNCHANGED <<rowVars, issued, crashes>>

\* A LIVE request goes on to structured_call, the other to a rule's result.
HasRun(c, r) ==
    h' = [h EXCEPT ![c].run = r,
                   ![c].pc = IF h[c].mode = "LIVE" THEN "enter" ELSE "accepted"]

LookupKey(c) ==
    /\ At(c, "lookup")
    /\ \/ \E r \in Runs : key[r] = StoredKey(c) /\ HasRun(c, r)
       \/ (\A r \in Runs : key[r] # StoredKey(c)) /\ Goto(c, "insert")
    /\ UNCHANGED <<rowVars, boundVars>>

InsertRun(c) ==
    /\ At(c, "insert")
    /\ created < MaxRequests   \* as each request inserts one at most
    /\ Unused(StoredKey(c))
    /\ LET r == created + 1 IN
          /\ created' = r
          /\ status' = [status EXCEPT ![r] = "QUEUED"]
          /\ agent' = [agent EXCEPT ![r] = h[c].style]
          /\ mode' = [mode EXCEPT ![r] = h[c].mode]
          /\ key' = [key EXCEPT ![r] = StoredKey(c)]
          /\ HasRun(c, r)
    /\ UNCHANGED <<llm, published, boundVars>>

\* The insert met the unique constraint: a concurrent request won.
InsertConflict(c) ==
    /\ At(c, "insert")
    /\ ~Unused(StoredKey(c))
    /\ \E r \in Runs : key[r] = StoredKey(c) /\ HasRun(c, r)
    /\ UNCHANGED <<rowVars, boundVars>>

----------------------------------------------------------------------------
(* gateway.execute and the transport loop around it *)

\* execute() reads the row and refuses one it may not run.
EnterExecute(c) ==
    /\ At(c, "enter")
    /\ IF mode[Run(c)] = "LIVE" /\ status[Run(c)] \in Executable
          THEN Goto(c, "call")
          ELSE Raise(c, "mode", "raised")
    /\ UNCHANGED <<rowVars, boundVars>>

\* What a call that ended leaves: an exception, or a reply to record.
Raises(c, l, e) ==
    h' = [h EXCEPT ![c].pc = l, ![c].exc = e, ![c].asked = Counted(@)]
Answered(c, answer, resp) ==
    h' = [h EXCEPT ![c].pc = "record", ![c].answer = answer, ![c].resp = resp,
                   ![c].asked = Counted(@)]

\* The call fails, the provider is not configured, or the pin, the clock or the
\* token counts do not prove a live reply.
CallFails(c) ==
    /\ At(c, "call")
    /\ \E e \in Failures : Raises(c, "execFail", e)
    /\ UNCHANGED <<rowVars, boundVars>>

\* The provider issues a response, and bills it.
Issue(c) ==
    /\ At(c, "call")
    /\ issued < MaxIssued
    /\ issued' = issued + 1
    /\ UNCHANGED <<rowVars, requests, crashes>>

CallAnswers(c) ==
    /\ Issue(c)
    /\ \E answer \in Answers : Answered(c, answer, issued + 1)

\* A reply that does not use the emit tool: the adapter's StructuredOutputInvalid
\* is not among the exceptions execute() or the loop around it handles.
CallIgnoresTool(c) ==
    /\ Issue(c)
    /\ Raises(c, "raised", "invalid")

\* Something on the path presents a stored response as a fresh one.
CallReplayed(c) ==
    /\ At(c, "call")
    /\ \E row \in LlmRun : Answered(c, row.answer, row.resp)
    /\ UNCHANGED <<rowVars, boundVars>>

\* _fail() inside execute(), then the exception reaches the transport loop.
ExecuteFails(c) ==
    /\ At(c, "execFail")
    /\ SetStatus(c, "FAILED")
    /\ Goto(c, IF h[c].exc = "cut" /\ RetriesLeft(c) THEN "reopen" ELSE "raised")
    /\ UNCHANGED <<agent, mode, key, created, llm, published, boundVars>>

\* Mutant: the retry is not counted.
ReopenUncounted(c) ==
    /\ At(c, "reopen")
    /\ SetStatus(c, "RUNNING")
    /\ h' = [h EXCEPT ![c].pc = "enter", ![c].exc = None]
    /\ UNCHANGED <<agent, mode, key, created, llm, published, boundVars>>

Reopened(c) ==
    h' = [h EXCEPT ![c].pc = "enter", ![c].exc = None, ![c].transport_try = @ + 1]
ReopenForRetry(c) ==
    /\ At(c, "reopen")
    /\ SetStatus(c, "RUNNING")
    /\ Reopened(c)
    /\ UNCHANGED <<agent, mode, key, created, llm, published, boundVars>>

\* The llm_run insert; its unique constraint turns a replay into a failure.
RecordReply(c) ==
    /\ At(c, "record")
    /\ IF h[c].resp \in Recorded
          THEN Raise(c, "liveness", "execFail") /\ UNCHANGED llm
          ELSE /\ llm' = [llm EXCEPT ![Run(c)] = @ \cup
                            {[resp |-> h[c].resp, answer |-> h[c].answer,
                              verdict |-> "UNJUDGED"]}]
               /\ Goto(c, "judge")
    /\ UNCHANGED <<status, agent, mode, key, created, published, boundVars>>

----------------------------------------------------------------------------
(* gateway.structured_call: the gate's verdict on a recorded reply *)

\* A reply cut off at the token limit is failed before a verdict is recorded.
JudgeTruncated(c) ==
    /\ At(c, "judge")
    /\ h[c].answer = "truncated"
    /\ Goto(c, "giveUp")
    /\ UNCHANGED <<rowVars, boundVars>>

\* The verdict goes on the row of the call it judged; that write may fail, and
\* the call goes on without it.
RecordVerdict(c, verdict) ==
    \/ UNCHANGED llm
    \/ \E row \in llm[Run(c)] :
          /\ row.resp = h[c].resp
          /\ llm' = [llm EXCEPT ![Run(c)] = (@ \ {row}) \cup {[row EXCEPT !.verdict = verdict]}]

JudgeAccepts(c) ==
    /\ At(c, "judge")
    /\ Accepts(c)
    /\ RecordVerdict(c, "ACCEPTED")
    /\ Goto(c, "accepted")
    /\ UNCHANGED <<status, agent, mode, key, created, published, boundVars>>

\* Another attempt, with its own transport budget, unless the reason is terminal.
Reattempts(c) ==
    h' = [h EXCEPT ![c].pc = "enter", ![c].attempt = @ + 1, ![c].transport_try = 0,
                   ![c].answer = None, ![c].resp = None]
JudgeRejects(c) ==
    /\ At(c, "judge")
    /\ h[c].answer # "truncated"
    /\ ~Accepts(c)
    /\ RecordVerdict(c, "REJECTED")
    /\ IF h[c].answer # "offtopic" /\ AttemptsLeft(c)
          THEN Reattempts(c)
          ELSE Goto(c, "giveUp")
    /\ UNCHANGED <<status, agent, mode, key, created, published, boundVars>>

\* Truncated, terminal or exhausted: _fail(), then StructuredOutputInvalid.
GiveUp(c) ==
    /\ At(c, "giveUp")
    /\ SetStatus(c, "FAILED")
    /\ Raise(c, "invalid", "raised")
    /\ UNCHANGED <<agent, mode, key, created, llm, published, boundVars>>

----------------------------------------------------------------------------
(* The handlers *)

\* An exception reaches the handler: some it answers with gateway.fail().
HandlerFails(c) ==
    /\ At(c, "raised")
    /\ h[c].exc \in Catches(h[c].style)
    /\ SetStatus(c, "FAILED")
    /\ Finish(c)
    /\ UNCHANGED <<agent, mode, key, created, llm, published, boundVars>>

HandlerPropagates(c) ==
    /\ At(c, "raised")
    /\ h[c].exc \notin Catches(h[c].style)
    /\ Finish(c)
    /\ UNCHANGED <<rowVars, boundVars>>

\* The handler's own check of an accepted reply refuses it and calls gateway.fail().
HandlerRefuses(c) ==
    /\ At(c, "accepted")
    /\ h[c].mode = "LIVE"
    /\ h[c].style # "explain"
    /\ SetStatus(c, "FAILED")
    /\ Finish(c)
    /\ UNCHANGED <<agent, mode, key, created, llm, published, boundVars>>

Publish(c) ==
    /\ published' = published \cup
          {[run |-> Run(c), resp |-> h[c].resp,
            label |-> IF h[c].mode = "LIVE" THEN "LLM_PROPOSED" ELSE "DETERMINISTIC_PROPOSED"]}
    /\ UNCHANGED <<status, agent, mode, key, created, llm, boundVars>>

\* Candidates and corroboration states are stored before succeed() ...
PublishFirst(c) ==
    /\ At(c, "accepted")
    /\ h[c].style = "corroborate"
    /\ Publish(c)
    /\ Goto(c, "prove")

\* ... an explanation is returned and its run left as it is ...
ReturnExplanation(c) ==
    /\ At(c, "accepted")
    /\ h[c].style = "explain"
    /\ Publish(c)
    /\ Finish(c)

\* ... and everything else is stored after it.
PublishLast(c) ==
    /\ At(c, "publish")
    /\ Publish(c)
    /\ Finish(c)

\* succeed() reads the row and, for a LIVE run, looks for a provider record.
SucceedReads(c) ==
    /\ At(c, IF h[c].style = "corroborate" THEN "prove" ELSE "accepted")
    /\ h[c].style # "explain"
    /\ Goto(c, IF mode[Run(c)] = "LIVE" /\ ~Proven(Run(c)) THEN "noProof" ELSE "write")
    /\ UNCHANGED <<rowVars, boundVars>>

\* _fail(), then LivenessProofFailed, which no handler catches around succeed().
SucceedRefuses(c) ==
    /\ At(c, "noProof")
    /\ SetStatus(c, "FAILED")
    /\ Finish(c)
    /\ UNCHANGED <<agent, mode, key, created, llm, published, boundVars>>

SucceedWrites(c) ==
    /\ At(c, "write")
    /\ SetStatus(c, "SUCCEEDED")
    /\ IF h[c].style = "corroborate" THEN Finish(c) ELSE Goto(c, "publish")
    /\ UNCHANGED <<agent, mode, key, created, llm, published, boundVars>>

\* Nothing reclaims the runs a crash leaves QUEUED or RUNNING.
Crash ==
    /\ crashes < MaxCrashes
    /\ crashes' = crashes + 1
    /\ h' = [c \in Callers |-> Idle]
    /\ UNCHANGED <<rowVars, requests, issued>>

----------------------------------------------------------------------------
Handle(c) ==
    \/ LookupKey(c) \/ InsertRun(c) \/ InsertConflict(c)
    \/ EnterExecute(c)
    \/ CallFails(c) \/ CallAnswers(c) \/ CallIgnoresTool(c) \/ CallReplayed(c)
    \/ ExecuteFails(c) \/ ReopenForRetry(c) \/ RecordReply(c)
    \/ JudgeTruncated(c) \/ JudgeAccepts(c) \/ JudgeRejects(c) \/ GiveUp(c)
    \/ HandlerFails(c) \/ HandlerPropagates(c) \/ HandlerRefuses(c)
    \/ PublishFirst(c) \/ ReturnExplanation(c) \/ PublishLast(c)
    \/ SucceedReads(c) \/ SucceedRefuses(c) \/ SucceedWrites(c)

Next == Crash \/ \E c \in Callers : Submit(c) \/ Handle(c)

Spec == Init /\ [][Next]_vars

\* A request thread that can go on does: a provider call returns or times out.
FairSpec == Spec /\ \A c \in Callers : WF_vars(Handle(c))
=============================================================================
