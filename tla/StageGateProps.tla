--------------------------- MODULE StageGateProps ---------------------------
(***************************************************************************)
(* What the stage gate and the writers of dispositions promise, over        *)
(* StageGate.  raced names the domains for which a row changed between a    *)
(* handler's read and its write.                                            *)
(***************************************************************************)
EXTENDS StageGate

\* Every variable keeps to its range.
TypeOK ==
    /\ stage \in {"V0", "V1"}
    /\ estimated \in BOOLEAN
    /\ contradicted \in BOOLEAN
    /\ rows \in RowSeq
    /\ items \in [Domains -> Items \cup {None}]
    /\ reports \in Seq(Reports)
    /\ h \in [Clients -> Locals]
    /\ left \in [Bounds -> Nat]
    /\ raced \in SUBSET Domains

\* The row an unblocked report rests on: nothing it needs can be taken back.
Complete(report) ==
    /\ report.acknowledged
    /\ report.open = {}
    /\ report.seen # {}
    /\ \A d \in report.seen : items[d] # None /\ items[d].answer # None /\ items[d].mapping # None

\* Whatever requests run between an assessment and the advance that uses it, a
\* case at V1 has an estimate, a disposition for every domain, and an
\* acknowledged report without BLOCK whose questions are still answered and
\* mapped (advance re-checks none of these).
AdvancedOnComplete ==
    stage = "V1" =>
        /\ estimated
        /\ \A d \in Domains : rows[d] # <<>>
        /\ \E i \in DOMAIN reports : Complete(reports[i])

\* A row of the domain stops being CLIENT_CONFIRMED in this step.
Unconfirmed(d) ==
    \E i \in DOMAIN rows[d] : rows[d][i].disposition = "CLIENT_CONFIRMED"
                              /\ rows'[d][i].disposition # "CLIENT_CONFIRMED"

\* A client's answer is replaced only by a manual save, never as a side effect
\* of research, unless the domain's rows changed while the handler was at work
\* (_client_confirmed_domain_nos).
OnlyAPersonUnconfirms ==
    [][\A d \in Domains : Unconfirmed(d) /\ d \notin raced'
          => \E c \in Clients : At(c, "put") /\ h[c].d = d]_vars

\* Likewise public evidence gives way to an answer only by a named person's
\* adjudication or a manual save, never by mapping (map_answers).
MappingKeepsPublicEvidence ==
    [][\A d \in Domains :
          /\ \E i \in DOMAIN rows[d] : rows[d][i].disposition = "EVIDENCED_PUBLIC"
                                       /\ rows'[d][i].disposition = "CLIENT_CONFIRMED"
          /\ d \notin raced'
          => \E c \in Clients : At(c, "put") \/ At(c, "resolveWrite")]_vars

\* Evidence stands behind the claim it was gathered for: a research blob is
\* never under a client's claim or an assumption's name, a client's words never
\* under public evidence, whoever saved what in which order (set_dispositions).
EvidenceBacksClaim ==
    \A d \in Domains \ raced : \A i \in DOMAIN rows[d] : LET row == rows[d][i] IN
        /\ row.evidence = "research" => row.disposition \in {"EVIDENCED_PUBLIC", "DECLARED_UNKNOWN"}
        /\ row.evidence \in Answers => row.disposition = "CLIENT_CONFIRMED"

\* The table has no unique constraint: short of a race, one row per domain.
OneRowPerDomain == \A d \in Domains \ raced : Len(rows[d]) <= 1

=============================================================================
