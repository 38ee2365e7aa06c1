------------------------- MODULE EstimateRecordProps -------------------------
(***************************************************************************)
(* What a published estimate may be relied on for, over EstimateRecord.     *)
(***************************************************************************)
EXTENDS EstimateRecord

\* The count an estimate says came from a named fact is that fact's count, the
\* fact's rights were cleared, and where the estimate calls it public evidence
\* an agent run's corroboration stands behind the fact - whatever was
\* corroborated again, contradicted or answered since, and however the request
\* raced those (resolve_quantity_source, provenance_chain).
CreditedSourceHolds ==
    present => \A i \in Published :
        LET s == snapshots[i]
        IN s.credited # None =>
              /\ facts[s.credited] # None
              /\ facts[s.credited].rights
              /\ facts[s.credited].value = sims[s.sim].sites
              /\ s.origin = "EVIDENCED_PUBLIC" => facts[s.credited].superseded

\* The lineage breaks in one way only.  What an estimate supersedes is older than
\* it and no older than what was published when its request came; and an
\* estimate that no later one supersedes is the newest, or the one published
\* right after it had looked up what it supersedes before this one was there.
\* Two requests that look at once do supersede the same estimate, and then one
\* of the two is in no lineage (_latest_snapshot_id, called before the commit
\* that writes supersedes_snapshot_id).
LeftOutOnlyByOverlap ==
    present => \A i \in Published :
        LET s == snapshots[i]
        IN /\ IF s.supersedes = None THEN s.begun = 0
              ELSE s.supersedes >= s.begun /\ s.supersedes < i /\ Exists(s.supersedes)
           /\ \/ i = Len(snapshots)
              \/ \E j \in Published : snapshots[j].supersedes = i
              \/ snapshots[i + 1].looked < i

\* Text that does not say it is a draft, about a recommendation that rests on a
\* material lever, exists only once a named person approved it, however long
\* the agent took to write it (the docstring of narrate).
FinalMeansApproved ==
    \A k \in 1..Len(advice) :
        Advised(k) /\ advice[k].material /\ advice[k].narrative \in {"FINAL", "UNMARKED"}
            => advice[k].approved

----------------------------------------------------------------------------
(* What comments of the repository say, and the code does not do. *)

\* A published estimate is never removed: "A case that has published an
\* estimate cannot be removed", "there is no way past it" (case_admin.py).
PublishedStays ==
    [][\A i \in Ids : i \in Published => i \in Published']_vars
=============================================================================
