--------------------------- MODULE AgentRunProps ---------------------------
(***************************************************************************)
(* What the gateway promises about agent runs, over AgentRun.               *)
(***************************************************************************)
EXTENDS AgentRun

Handled(r) == \E c \in Callers : Run(c) = r
Created(r) == status[r] # "ABSENT"

\* A figure or text labelled as the model's rests on a reply recorded against
\* that very run which the quality gate passed: no best-of, no partial accept,
\* no text without a provider record (structured_call, gateway properties 3-4).
PublishedPassedTheGate ==
    \A p \in published : p.label = "LLM_PROPOSED" =>
        \E row \in llm[p.run] :
            row.resp = p.resp /\ row.answer = "good" /\ row.verdict # "REJECTED"

\* No two published results rest on the same provider response, whichever
\* runs, retries or concurrent handlers they came from (gateway property 5).
EvidenceUsedOnce ==
    \A p, q \in published : p.resp # None /\ p.resp = q.resp => p = q

\* A LIVE run that reads SUCCEEDED has a persisted provider record, even when
\* requests of both modes share it (succeed's refusal).
LiveSuccessHasProof ==
    \A r \in Runs : status[r] = "SUCCEEDED" /\ mode[r] = "LIVE" => llm[r] # {}

\* Two handlers whose requests carry the same key hold the same run, however
\* their lookups and inserts interleave (gateway property 7).
SameKeySameRun ==
    \A c, d \in Callers :
        /\ Run(c) # None /\ Run(d) # None
        /\ StoredKey(c) # None
        /\ StoredKey(c) = StoredKey(d)
        => Run(c) = Run(d)

\* A request never spends more provider calls than its attempts times their
\* transport retries, and never more replies than attempts are recorded for a
\* run without a shared key (the loops of structured_call).
SpendBounded ==
    /\ \A c \in Callers : h[c].asked <= SpendLimit
    /\ \A r \in Runs : key[r] = None => Cardinality(llm[r]) <= max_attempts

\* When no handler works on a run of a corroborate or collect handler and the
\* server never crashed, the run has ended, whatever was reopened, refused or
\* shared on the way: nothing is left QUEUED for a worker that does not exist
\* (gateway.fail's docstring, structured_call's last comment).
Settled ==
    crashes = 0 => \A r \in Runs :
        Created(r) /\ ~Handled(r) /\ agent[r] \in {"corroborate", "collect"}
            => status[r] \in Ended

\* A handler that has started ends: neither the attempts nor the transport
\* retries go on for ever, whatever the provider answers.
RequestsEnd == \A c \in Callers : ~At(c, "idle") ~> At(c, "idle")
============================================================================
