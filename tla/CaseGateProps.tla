--------------------------- MODULE CaseGateProps ---------------------------
(***************************************************************************)
(* What the gates of one case promise, over CaseGate.                       *)
(***************************************************************************)
EXTENDS CaseGate

\* Every variable keeps to its range.
TypeOK ==
    /\ case \in Cases
    /\ facts \in FactRows
    /\ reports \in Seq(Reports)
    /\ runs \in Seq(Runs)
    /\ h \in [Clients -> Locals]
    /\ left \in [DOMAIN Budget -> Nat]
    /\ raced \in BOOLEAN

\* The conditions and the digest of a report come from the same inputs: nothing
\* was written between the two sets of reads.
Whole(report) ==
    /\ report.conditions.row = report.input_digest.row
    /\ report.conditions.facts = report.input_digest.facts
    /\ report.conditions.confirmed = (report.input_digest.row.resolved # None)

\* The inputs a run was checked on carry no open BLOCK.
Clear(in) ==
    /\ in.row.resolved # None
    /\ in.row.name # None
    /\ in.row.intake # Missing
    /\ \A f \in Facts : in.facts[f] # "uncleared"

\* Whatever edits, confirmations and facts other requests write meanwhile, a run
\* whose report is whole starts on a confirmed, complete case with no uncleared
\* prior-engagement fact: an acknowledged report that no longer describes the
\* case stops it (assert_clear_to_run).
GateSound ==
    \A i \in DOMAIN runs : Whole(reports[runs[i].report]) => Clear(runs[i].checked)

\* An acknowledgement covers what it was given for: the inputs a run was checked
\* on are those of an unblocked report somebody acknowledged ("the record of a
\* human decision describing a case that no longer existed").
RunsWereApproved ==
    \A i \in DOMAIN runs : LET report == reports[runs[i].report] IN
        /\ report.acknowledged
        /\ ~report.blocked
        /\ report.input_digest = runs[i].checked

\* A confirmed case carries the name that was confirmed, unless a confirmation
\* fell between the read and the write of another request (update_case's lock).
ConfirmationDescribesCase == ~raced /\ Confirmed => case.name = case.resolved

\* Short of that race, a confirmed name or perimeter changes only together with
\* a new perimeter version, so a version on a snapshot names one perimeter.
PerimeterChangesAreVersioned ==
    [][Confirmed /\ ~raced' /\ case'.name # case.name
          => case'.version > case.version]_vars

----------------------------------------------------------------------------
(* What the two invariants above rest on. *)

\* A report that does not say it is blocked has no BLOCK among its conditions.
ReportsHonest ==
    \A i \in DOMAIN reports :
        ~reports[i].blocked => ~Blocking(reports[i].conditions)

\* A report that lets a run pass was approved and stays so, whatever is written
\* while the gate reads on.
Approved(i) == i \in DOMAIN reports /\ reports[i].acknowledged /\ ~reports[i].blocked

GateHolds ==
    \A c \in Clients :
        /\ h[c].pc \in {"gate", "gateFacts", "launch"} => Approved(h[c].report)
        /\ At(c, "launch") => Unchanged(reports[h[c].report], h[c].checked)

\* A save in progress carries a locked field only if it found no confirmation.
EditsRespectLock ==
    \A c \in Clients : At(c, "edit") /\ h[c].name # None => ~h[c].locked

\* The inductive invariant: the promises above with what they rest on, at every
\* place a handler of update_case or assert_clear_to_run can stand.
GateInv ==
    /\ ReportsHonest
    /\ GateHolds
    /\ EditsRespectLock
    /\ ConfirmationDescribesCase
    /\ \A i \in DOMAIN runs : runs[i].report \in DOMAIN reports
    /\ RunsWereApproved

----------------------------------------------------------------------------
\* "A run may not begin while a BLOCK is open" (assert_clear_to_run).
NoRunOnBlockedCase == \A i \in DOMAIN runs : Clear(runs[i].checked)
============================================================================
