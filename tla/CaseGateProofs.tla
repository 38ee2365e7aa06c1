-------------------------- MODULE CaseGateProofs --------------------------
(***************************************************************************)
(* Theorems about the gates of one case, for every number of request        *)
(* threads, identities, intakes, facts and requests.                        *)
(***************************************************************************)
EXTENDS CaseGateProps, TLAPS

\* What a handler at each place holds.
LEMMA LocalsAt ==
    ASSUME NEW l \in Locals
    PROVE  /\ l.pc = "edit" => /\ l.name \in Identities \cup {None}
                               /\ l.intake \in Intakes \cup {None}
                               /\ l.locked \in BOOLEAN
           /\ l.pc = "confirm" => l.candidate \in Identities /\ l.current \in Nat
           /\ l.pc = "confirmed?" => l.row \in Cases
           /\ l.pc = "facts" => l.row \in Cases /\ l.confirmed \in BOOLEAN
           /\ l.pc = "digest" => l.conditions \in Reads
           /\ l.pc = "digestFacts" => l.conditions \in Reads /\ l.row \in Cases
           /\ l.pc = "insert" => l.conditions \in Reads /\ l.input_digest \in Inputs
           /\ l.pc = "gate" => l.report \in Nat
           /\ l.pc = "gateFacts" => l.report \in Nat /\ l.row \in Cases
           /\ l.pc = "launch" => l.report \in Nat /\ l.checked \in Inputs
BY DEF Locals

LEMMA TypingEntity ==
    ASSUME TypeOK, NEW c \in Clients, Entity(c)
    PROVE  TypeOK'
<1> USE CaseAssumption DEF TypeOK, Set, Finish, At, Receive, Confirmed
<1>0. h[c] \in Locals
  OBVIOUS
<1>1. ASSUME NEW name \in Identities \cup {None}, NEW intake \in Intakes \cup {None},
             UpdateReads(c, name, intake)
      PROVE  TypeOK'
  <2>1. [pc |-> "edit", name |-> name, intake |-> intake, locked |-> Confirmed] \in Locals
    BY DEF Locals
  <2> QED
    BY <1>1, <2>1 DEF UpdateReads
<1>2. CASE UpdateWrites(c)
  <2>1. case' \in Cases
    BY <1>0, <1>2, LocalsAt DEF UpdateWrites, Cases, Saved
  <2>2. Idle \in Locals
    BY DEF Idle, Locals
  <2> QED
    BY <1>2, <2>1, <2>2 DEF UpdateWrites
<1>3. ASSUME NEW candidate \in Identities, ConfirmReads(c, candidate)
      PROVE  TypeOK'
  <2>1. [pc |-> "confirm", candidate |-> candidate, current |-> case.version] \in Locals
    BY DEF Locals, Cases
  <2> QED
    BY <1>3, <2>1 DEF ConfirmReads
<1>4. CASE ConfirmWrites(c)
  <2>0. h[c].candidate \in Identities /\ h[c].current + 1 \in Nat
    BY <1>0, <1>4, LocalsAt DEF ConfirmWrites
  <2>1. case' \in Cases
    BY <1>4, <2>0 DEF ConfirmWrites, Cases, NextVersion
  <2>2. Idle \in Locals
    BY DEF Idle, Locals
  <2> QED
    BY <1>4, <2>1, <2>2 DEF ConfirmWrites
<1> QED
  BY <1>1, <1>2, <1>3, <1>4 DEF Entity

LEMMA TypingKnownFact ==
    ASSUME TypeOK, NEW c \in Clients, KnownFact(c)
    PROVE  TypeOK'
<1> USE DEF TypeOK, FactRows, FactStates
<1>1. ASSUME NEW f \in Facts, NEW prior \in BOOLEAN, Register(c, f, prior) PROVE TypeOK'
  BY <1>1 DEF Register
<1>2. ASSUME NEW f \in Facts, ClearRights(c, f) PROVE TypeOK'
  BY <1>2 DEF ClearRights
<1> QED
  BY <1>1, <1>2 DEF KnownFact

LEMMA TypingPreflight ==
    ASSUME TypeOK, NEW c \in Clients, Preflight(c)
    PROVE  TypeOK'
<1> USE CaseAssumption DEF TypeOK, Set, Finish, At, Receive, Confirmed
<1>0. h[c] \in Locals
  OBVIOUS
<1>1. CASE RunReadsCase(c)
  <2>1. [pc |-> "confirmed?", row |-> case] \in Locals
    BY DEF Locals
  <2> QED
    BY <1>1, <2>1 DEF RunReadsCase
<1>2. CASE RunReadsConfirmed(c)
  <2>1. [pc |-> "facts", row |-> h[c].row, confirmed |-> Confirmed] \in Locals
    BY <1>0, <1>2, LocalsAt DEF Locals, RunReadsConfirmed
  <2> QED
    BY <1>2, <2>1 DEF RunReadsConfirmed
<1>3. CASE RunReadsFacts(c)
  <2>1. [row |-> h[c].row, confirmed |-> h[c].confirmed, facts |-> facts] \in Reads
    BY <1>0, <1>3, LocalsAt DEF Reads, RunReadsFacts
  <2>2. [pc |-> "digest", conditions |-> [row |-> h[c].row, confirmed |-> h[c].confirmed,
                                          facts |-> facts]] \in Locals
    BY <2>1 DEF Locals
  <2> QED
    BY <1>3, <2>2 DEF RunReadsFacts
<1>4. CASE DigestReadsCase(c)
  <2>1. [pc |-> "digestFacts", conditions |-> h[c].conditions, row |-> case] \in Locals
    BY <1>0, <1>4, LocalsAt DEF Locals, DigestReadsCase
  <2> QED
    BY <1>4, <2>1 DEF DigestReadsCase
<1>5. CASE DigestReadsFacts(c)
  <2>1. [row |-> h[c].row, facts |-> facts] \in Inputs
    BY <1>0, <1>5, LocalsAt DEF Inputs, DigestReadsFacts
  <2>2. [pc |-> "insert", conditions |-> h[c].conditions,
         input_digest |-> [row |-> h[c].row, facts |-> facts]] \in Locals
    BY <1>0, <1>5, <2>1, LocalsAt DEF Locals, DigestReadsFacts
  <2> QED
    BY <1>5, <2>2 DEF DigestReadsFacts
<1>6. CASE InsertReport(c)
  <2>1. PICK available \in BOOLEAN :
          reports' = Append(reports,
              [conditions |-> h[c].conditions, input_digest |-> h[c].input_digest,
               blocked |-> ~available \/ Blocking(h[c].conditions),
               acknowledged |-> FALSE])
    BY <1>6 DEF InsertReport
  <2>2. (~available \/ Blocking(h[c].conditions)) \in BOOLEAN
    BY DEF Blocking
  <2>3. [conditions |-> h[c].conditions, input_digest |-> h[c].input_digest,
         blocked |-> ~available \/ Blocking(h[c].conditions),
         acknowledged |-> FALSE] \in Reports
    BY <1>0, <1>6, <2>2, LocalsAt DEF Reports, InsertReport
  <2>4. reports' \in Seq(Reports)
    BY <2>1, <2>3
  <2>5. Idle \in Locals
    BY DEF Idle, Locals
  <2> QED
    BY <1>6, <2>4, <2>5 DEF InsertReport
<1>7. ASSUME NEW i \in DOMAIN reports, Acknowledge(c, i) PROVE TypeOK'
  <2>1. reports[i] \in Reports
    OBVIOUS
  <2>2. [reports[i] EXCEPT !.acknowledged = TRUE] \in Reports
    BY <2>1 DEF Reports
  <2>3. reports' = [reports EXCEPT ![i] = [reports[i] EXCEPT !.acknowledged = TRUE]]
    BY <1>7 DEF Acknowledge
  <2>4. reports' \in Seq(Reports)
    BY <2>2, <2>3
  <2> QED
    BY <1>7, <2>4 DEF Acknowledge
<1> QED
  BY <1>1, <1>2, <1>3, <1>4, <1>5, <1>6, <1>7 DEF Preflight

LEMMA TypingRun ==
    ASSUME TypeOK, NEW c \in Clients, Run(c)
    PROVE  TypeOK'
<1> USE CaseAssumption DEF TypeOK, Set, Finish, At, Receive
<1>0. h[c] \in Locals /\ Idle \in Locals
  BY DEF Idle, Locals
<1>1. CASE GateReadsReport(c)
  <2>1. [pc |-> "gate", report |-> Len(reports)] \in Locals
    BY DEF Locals
  <2> QED
    BY <1>1, <2>1 DEF GateReadsReport
<1>2. CASE GateReadsCase(c)
  <2>1. [pc |-> "gateFacts", report |-> h[c].report, row |-> case] \in Locals
    BY <1>0, <1>2, LocalsAt DEF Locals, GateReadsCase
  <2> QED
    BY <1>2, <2>1 DEF GateReadsCase
<1>3. CASE GateReadsFacts(c)
  <2> DEFINE in == [row |-> h[c].row, facts |-> facts]
  <2>1. in \in Inputs /\ h[c].report \in Nat
    BY <1>0, <1>3, LocalsAt DEF Inputs, GateReadsFacts
  <2>2. [pc |-> "launch", report |-> h[c].report, checked |-> in] \in Locals
    BY <2>1 DEF Locals
  <2> QED
    BY <1>0, <1>3, <2>2 DEF GateReadsFacts
<1>4. CASE Launch(c)
  <2>1. [report |-> h[c].report, checked |-> h[c].checked, used |-> case] \in Runs
    BY <1>0, <1>4, LocalsAt DEF Runs, Launch
  <2> QED
    BY <1>0, <1>4, <2>1 DEF Launch
<1> QED
  BY <1>1, <1>2, <1>3, <1>4 DEF Run

\* Every variable of the case gate keeps to its range, in every instance.
THEOREM TypeCorrect == Spec => []TypeOK
<1>1. ASSUME Init PROVE TypeOK
  <2>1. Idle \in Locals
    BY DEF Idle, Locals
  <2>2. Budget \in [DOMAIN Budget -> Nat]
    BY CaseAssumption
  <2>3. case \in Cases
    BY <1>1 DEF Init, Cases
  <2>4. facts \in FactRows /\ h \in [Clients -> Locals]
    BY <1>1, <2>1 DEF Init, FactRows, FactStates
  <2>5. reports \in Seq(Reports) /\ runs \in Seq(Runs)
    BY <1>1 DEF Init
  <2>6. left \in [DOMAIN Budget -> Nat] /\ raced \in BOOLEAN
    BY <1>1, <2>2 DEF Init
  <2> QED
    BY <2>3, <2>4, <2>5, <2>6 DEF TypeOK
<1>2. TypeOK /\ [Next]_vars => TypeOK'
  <2> SUFFICES ASSUME TypeOK, [Next]_vars PROVE TypeOK'
    OBVIOUS
  <2>1. CASE Next
    BY <2>1, TypingEntity, TypingKnownFact, TypingPreflight, TypingRun DEF Next
  <2>2. CASE UNCHANGED vars
    BY <2>2 DEF TypeOK, vars
  <2> QED
    BY <2>1, <2>2
<1> QED
  BY <1>1, <1>2, PTL DEF Spec
----------------------------------------------------------------------------
(* The invariant of the gate.  Handlers of other requests only append       *)
(* reports and acknowledge them, so an approval a handler relies on holds.  *)

\* Approvals last: no step removes a report, reopens one or changes what it says.
Kept == /\ DOMAIN reports \subseteq DOMAIN reports'
        /\ \A i \in DOMAIN reports :
              /\ reports'[i].input_digest = reports[i].input_digest
              /\ reports'[i].conditions = reports[i].conditions
              /\ reports'[i].blocked = reports[i].blocked
              /\ reports[i].acknowledged => reports'[i].acknowledged

LEMMA KeptWhenUnchanged == reports' = reports => Kept
BY DEF Kept

LEMMA InsertKeeps ==
    ASSUME TypeOK, NEW c \in Clients, InsertReport(c)
    PROVE  /\ Kept
           /\ ReportsHonest => ReportsHonest'
           /\ UNCHANGED <<case, facts, runs, raced>>
           /\ h' = [h EXCEPT ![c] = Idle]
<1>1. PICK available \in BOOLEAN :
        reports' = Append(reports,
            [conditions |-> h[c].conditions, input_digest |-> h[c].input_digest,
             blocked |-> ~available \/ Blocking(h[c].conditions),
             acknowledged |-> FALSE])
  BY DEF InsertReport
<1>2. reports \in Seq(Reports)
  BY DEF TypeOK
<1>3. /\ DOMAIN reports' = 1..(Len(reports) + 1)
      /\ DOMAIN reports = 1..Len(reports)
      /\ \A i \in DOMAIN reports : reports'[i] = reports[i]
      /\ reports'[Len(reports) + 1] =
            [conditions |-> h[c].conditions, input_digest |-> h[c].input_digest,
             blocked |-> ~available \/ Blocking(h[c].conditions),
             acknowledged |-> FALSE]
  BY <1>1, <1>2
<1>4. Kept
  BY <1>3 DEF Kept
<1>5. ASSUME ReportsHonest PROVE ReportsHonest'
  <2> SUFFICES ASSUME NEW j \in DOMAIN reports', ~reports'[j].blocked
               PROVE  ~Blocking(reports'[j].conditions)
    BY DEF ReportsHonest, Blocking
  <2>1. CASE j \in DOMAIN reports
    <3>1. ~reports[j].blocked /\ reports'[j].conditions = reports[j].conditions
      BY <1>3, <2>1
    <3>2. ~Blocking(reports[j].conditions)
      BY <1>5, <2>1, <3>1 DEF ReportsHonest
    <3> QED
      BY <3>1, <3>2
  <2>2. CASE j = Len(reports) + 1
    <3>1. reports'[j].conditions = h[c].conditions
      BY <1>3, <2>2
    <3>2. reports'[j].blocked = (~available \/ Blocking(h[c].conditions))
      BY <1>3, <2>2
    <3>3. ~Blocking(h[c].conditions)
      BY <3>2
    <3> QED
      BY <3>1, <3>3
  <2>3. j \in DOMAIN reports \/ j = Len(reports) + 1
    BY <1>2, <1>3
  <2> QED
    BY <2>1, <2>2, <2>3
<1> QED
  BY <1>4, <1>5 DEF InsertReport, Finish, Set

LEMMA AcknowledgeKeeps ==
    ASSUME TypeOK, NEW c \in Clients, NEW i \in DOMAIN reports, Acknowledge(c, i)
    PROVE  /\ Kept
           /\ ReportsHonest => ReportsHonest'
           /\ UNCHANGED <<case, facts, runs, raced, h>>
<1>1. reports \in Seq(Reports) /\ reports[i] \in Reports
  BY DEF TypeOK
<1>2. reports' = [reports EXCEPT ![i] = [reports[i] EXCEPT !.acknowledged = TRUE]]
  BY DEF Acknowledge
<1>3. /\ DOMAIN reports' = DOMAIN reports
      /\ \A j \in DOMAIN reports :
            reports'[j] = IF j = i THEN [reports[i] EXCEPT !.acknowledged = TRUE]
                          ELSE reports[j]
  BY <1>1, <1>2
<1>4. LET r == [reports[i] EXCEPT !.acknowledged = TRUE] IN
        /\ r.acknowledged
        /\ r.input_digest = reports[i].input_digest
        /\ r.conditions = reports[i].conditions
        /\ r.blocked = reports[i].blocked
  BY <1>1 DEF Reports
<1>5. Kept
  BY <1>3, <1>4 DEF Kept
<1>6. ASSUME ReportsHonest PROVE ReportsHonest'
  <2> SUFFICES ASSUME NEW j \in DOMAIN reports', ~reports'[j].blocked
               PROVE  ~Blocking(reports'[j].conditions)
    BY DEF ReportsHonest, Blocking
  <2>1. j \in DOMAIN reports
    BY <1>3
  <2>2. ~reports[j].blocked /\ reports'[j].conditions = reports[j].conditions
    BY <1>5, <2>1 DEF Kept
  <2>3. ~Blocking(reports[j].conditions)
    BY <1>6, <2>1, <2>2 DEF ReportsHonest
  <2> QED
    BY <2>2, <2>3
<1> QED
  BY <1>5, <1>6 DEF Acknowledge

\* A step that adds no run and moves no handler into the gate keeps its approvals.
LEMMA ApprovalsLast ==
    ASSUME TypeOK, GateInv, Kept, runs' = runs, NEW c \in Clients,
           NEW l, l.pc \notin {"gate", "gateFacts", "launch"},
           h' = h \/ h' = [h EXCEPT ![c] = l]
    PROVE  /\ GateHolds'
           /\ \A i \in DOMAIN runs' : runs'[i].report \in DOMAIN reports'
           /\ RunsWereApproved'
<1>1. \A d \in Clients : h'[d] = h[d] \/ h'[d].pc \notin {"gate", "gateFacts", "launch"}
  BY DEF TypeOK
<1>2. GateHolds'
  BY <1>1 DEF GateInv, GateHolds, Approved, Kept, At, Unchanged
<1>3. \A i \in DOMAIN runs' : runs'[i].report \in DOMAIN reports'
  BY DEF GateInv, Kept
<1>4. RunsWereApproved'
  BY DEF GateInv, RunsWereApproved, Kept
<1> QED
  BY <1>2, <1>3, <1>4

LEMMA HonestLasts ==
    ASSUME ReportsHonest, reports' = reports PROVE ReportsHonest'
BY DEF ReportsHonest, Blocking

\* A handler that comes to rest, or reads on, leaves the other saves as they are.
LEMMA EditsStay ==
    ASSUME TypeOK, EditsRespectLock, NEW c \in Clients, NEW l,
           l.pc = "edit" => (l.name # None => ~l.locked),
           h' = h \/ h' = [h EXCEPT ![c] = l]
    PROVE  EditsRespectLock'
<1>1. \A d \in Clients : h'[d] = h[d] \/ h'[d] = l
  BY DEF TypeOK
<1> QED
  BY <1>1 DEF EditsRespectLock, At

LEMMA InvEntity ==
    ASSUME TypeOK, GateInv, NEW c \in Clients, Entity(c)
    PROVE  GateInv'
<1> DEFINE Rest(l) == /\ l.pc \notin {"gate", "gateFacts", "launch"}
                      /\ l.pc = "edit" => (l.name # None => ~l.locked)
                      /\ h' = [h EXCEPT ![c] = l]
                      /\ UNCHANGED <<reports, runs>>
<1>1. ASSUME NEW l, Rest(l), ConfirmationDescribesCase' PROVE GateInv'
  <2>1. ReportsHonest'
    BY <1>1, HonestLasts DEF GateInv
  <2>2. EditsRespectLock'
    BY <1>1, EditsStay DEF GateInv
  <2>3. Kept
    BY <1>1, KeptWhenUnchanged
  <2>4. GateHolds' /\ (\A i \in DOMAIN runs' : runs'[i].report \in DOMAIN reports')
        /\ RunsWereApproved'
    BY <1>1, <2>3, ApprovalsLast
  <2> QED
    BY <1>1, <2>1, <2>2, <2>4 DEF GateInv
<1> HIDE DEF Rest
<1>2. ASSUME NEW name \in Identities \cup {None}, NEW intake \in Intakes \cup {None},
             UpdateReads(c, name, intake)
      PROVE  GateInv'
  <2>1. Rest([pc |-> "edit", name |-> name, intake |-> intake, locked |-> Confirmed])
    BY <1>2 DEF Rest, UpdateReads, Set, Locked
  <2>2. ConfirmationDescribesCase'
    BY <1>2 DEF UpdateReads, GateInv, ConfirmationDescribesCase, Confirmed
  <2> QED
    BY <1>1, <2>1, <2>2
<1>3. CASE UpdateWrites(c)
  <2>1. Rest(Idle)
    BY <1>3 DEF Rest, UpdateWrites, Finish, Set, Idle
  <2>2. h[c].name # None => ~h[c].locked
    BY <1>3 DEF GateInv, EditsRespectLock, UpdateWrites
  <2>3. /\ case'.name = Saved(h[c].name, case.name)
        /\ case'.resolved = case.resolved
        /\ raced' = (raced \/ (h[c].name # None /\ h[c].locked # Confirmed))
    BY <1>3 DEF UpdateWrites, TypeOK, Cases
  <2>4. h[c].locked \in BOOLEAN
    BY <1>3, LocalsAt DEF TypeOK, UpdateWrites, At
  <2>5. ConfirmationDescribesCase'
    <3>1. CASE h[c].name = None
      BY <2>3, <3>1 DEF GateInv, ConfirmationDescribesCase, Confirmed, Saved
    <3>2. CASE h[c].name # None
      BY <2>2, <2>3, <2>4, <3>2 DEF ConfirmationDescribesCase, Confirmed
    <3> QED
      BY <3>1, <3>2
  <2> QED
    BY <1>1, <2>1, <2>5
<1>4. ASSUME NEW candidate \in Identities, ConfirmReads(c, candidate)
      PROVE  GateInv'
  <2>1. Rest([pc |-> "confirm", candidate |-> candidate, current |-> case.version])
    BY <1>4 DEF Rest, ConfirmReads, Set
  <2>2. ConfirmationDescribesCase'
    BY <1>4 DEF ConfirmReads, GateInv, ConfirmationDescribesCase, Confirmed
  <2> QED
    BY <1>1, <2>1, <2>2
<1>5. CASE ConfirmWrites(c)
  <2>1. Rest(Idle)
    BY <1>5 DEF Rest, ConfirmWrites, Finish, Set, Idle
  <2>2. case'.name = case'.resolved
    BY <1>5 DEF ConfirmWrites, TypeOK, Cases
  <2>3. ConfirmationDescribesCase'
    BY <2>2 DEF ConfirmationDescribesCase
  <2> QED
    BY <1>1, <2>1, <2>3
<1> QED
  BY <1>2, <1>3, <1>4, <1>5 DEF Entity

LEMMA InvKnownFact ==
    ASSUME TypeOK, GateInv, NEW c \in Clients, KnownFact(c)
    PROVE  GateInv'
<1>1. UNCHANGED <<case, reports, runs, h, raced>>
  BY DEF KnownFact, Register, ClearRights
<1>2. ReportsHonest'
  BY <1>1, HonestLasts DEF GateInv
<1> QED
  BY <1>1, <1>2
  DEF GateInv, GateHolds, Approved, EditsRespectLock, At, Unchanged,
      ConfirmationDescribesCase, Confirmed, RunsWereApproved

LEMMA InvPreflight ==
    ASSUME TypeOK, GateInv, NEW c \in Clients, Preflight(c)
    PROVE  GateInv'
<1> DEFINE Rest(l) == /\ l.pc \notin {"gate", "gateFacts", "launch", "edit"}
                      /\ h' = h \/ h' = [h EXCEPT ![c] = l]
                      /\ UNCHANGED <<case, runs, raced>>
<1>1. ASSUME NEW l, Rest(l), Kept, ReportsHonest' PROVE GateInv'
  <2>1. EditsRespectLock'
    BY <1>1, EditsStay DEF GateInv
  <2>2. ConfirmationDescribesCase'
    BY <1>1 DEF GateInv, ConfirmationDescribesCase, Confirmed
  <2>3. GateHolds' /\ (\A i \in DOMAIN runs' : runs'[i].report \in DOMAIN reports')
        /\ RunsWereApproved'
    BY <1>1, ApprovalsLast
  <2> QED
    BY <1>1, <2>1, <2>2, <2>3 DEF GateInv
<1>2. ASSUME NEW l, Rest(l), reports' = reports PROVE GateInv'
  <2>1. ReportsHonest' /\ Kept
    BY <1>2, HonestLasts, KeptWhenUnchanged DEF GateInv
  <2> QED
    BY <1>1, <1>2, <2>1
<1> USE DEF Set, Finish
<1>3. CASE RunReadsCase(c)
  <2>1. Rest([pc |-> "confirmed?", row |-> case]) /\ reports' = reports
    BY <1>3 DEF RunReadsCase
  <2> HIDE DEF Rest
  <2> QED
    BY <1>2, <2>1
<1>4. CASE RunReadsConfirmed(c)
  <2>1. Rest([pc |-> "facts", row |-> h[c].row, confirmed |-> Confirmed]) /\ reports' = reports
    BY <1>4 DEF RunReadsConfirmed
  <2> HIDE DEF Rest
  <2> QED
    BY <1>2, <2>1
<1>5. CASE RunReadsFacts(c)
  <2>1. Rest([pc |-> "digest", conditions |-> [row |-> h[c].row, confirmed |-> h[c].confirmed,
                                               facts |-> facts]])
        /\ reports' = reports
    BY <1>5 DEF RunReadsFacts
  <2> HIDE DEF Rest
  <2> QED
    BY <1>2, <2>1
<1>6. CASE DigestReadsCase(c)
  <2>1. Rest([pc |-> "digestFacts", conditions |-> h[c].conditions, row |-> case])
        /\ reports' = reports
    BY <1>6 DEF DigestReadsCase
  <2> HIDE DEF Rest
  <2> QED
    BY <1>2, <2>1
<1>7. CASE DigestReadsFacts(c)
  <2>1. Rest([pc |-> "insert", conditions |-> h[c].conditions,
              input_digest |-> [row |-> h[c].row, facts |-> facts]])
        /\ reports' = reports
    BY <1>7 DEF DigestReadsFacts
  <2> HIDE DEF Rest
  <2> QED
    BY <1>2, <2>1
<1>8. CASE InsertReport(c)
  <2>1. Kept /\ ReportsHonest'
    BY <1>8, InsertKeeps DEF GateInv
  <2>2. Rest(Idle)
    BY <1>8, InsertKeeps DEF Idle
  <2> HIDE DEF Rest
  <2> QED
    BY <1>1, <2>1, <2>2
<1>9. ASSUME NEW i \in DOMAIN reports, Acknowledge(c, i) PROVE GateInv'
  <2>1. Kept /\ ReportsHonest'
    BY <1>9, AcknowledgeKeeps DEF GateInv
  <2>2. Rest(Idle)
    BY <1>9, AcknowledgeKeeps DEF Idle
  <2> HIDE DEF Rest
  <2> QED
    BY <1>1, <2>1, <2>2
<1> QED
  BY <1>3, <1>4, <1>5, <1>6, <1>7, <1>8, <1>9 DEF Preflight

\* The gate reads one report and keeps to it; what it finds approved at the start
\* is approved when the run is started.
LEMMA InvRun ==
    ASSUME TypeOK, GateInv, NEW c \in Clients, Run(c)
    PROVE  GateInv'
<1> USE DEF Set, Finish
<1>1. UNCHANGED <<case, facts, reports, raced>>
  BY DEF Run, GateReadsReport, GateReadsCase, GateReadsFacts, Launch
<1>2. ReportsHonest' /\ ConfirmationDescribesCase'
  BY <1>1, HonestLasts DEF GateInv, ConfirmationDescribesCase, Confirmed
<1> DEFINE Passes(l) ==
      /\ h' = [h EXCEPT ![c] = l]
      /\ runs' = runs
      /\ l.pc # "edit"
      /\ l.pc \in {"gate", "gateFacts", "launch"} => Approved(l.report)
      /\ l.pc = "launch" => Unchanged(reports[l.report], l.checked)
<1>3. ASSUME NEW l, Passes(l) PROVE GateInv'
  <2>1. \A d \in Clients : h'[d] = h[d] \/ h'[d] = l
    BY <1>3 DEF TypeOK
  <2>2. GateHolds'
    BY <1>1, <1>3, <2>1 DEF GateInv, GateHolds, Approved, At, Unchanged
  <2>3. EditsRespectLock'
    BY <1>3, EditsStay DEF GateInv
  <2> QED
    BY <1>1, <1>2, <1>3, <2>2, <2>3 DEF GateInv, RunsWereApproved
<1>4. CASE GateReadsReport(c)
  <2>1. Len(reports) \in DOMAIN reports
    BY <1>4 DEF GateReadsReport, TypeOK
  <2>2. Approved(Len(reports))
    BY <1>4, <2>1 DEF GateReadsReport, Approved
  <2>3. Passes([pc |-> "gate", report |-> Len(reports)])
    BY <1>4, <2>2 DEF GateReadsReport
  <2> HIDE DEF Passes
  <2> QED
    BY <1>3, <2>3
<1>5. CASE GateReadsCase(c)
  <2>1. Approved(h[c].report)
    BY <1>5 DEF GateReadsCase, GateInv, GateHolds, At
  <2>2. Passes([pc |-> "gateFacts", report |-> h[c].report, row |-> case])
    BY <1>5, <2>1 DEF GateReadsCase
  <2> HIDE DEF Passes
  <2> QED
    BY <1>3, <2>2
<1>6. CASE GateReadsFacts(c)
  <2> DEFINE in == [row |-> h[c].row, facts |-> facts]
  <2>1. Approved(h[c].report)
    BY <1>6 DEF GateReadsFacts, GateInv, GateHolds, At
  <2>2. CASE Unchanged(reports[h[c].report], in)
    <3>1. Passes([pc |-> "launch", report |-> h[c].report, checked |-> in])
      BY <1>6, <2>1, <2>2 DEF GateReadsFacts
    <3> HIDE DEF Passes, in
    <3> QED
      BY <1>3, <3>1
  <2>3. CASE ~Unchanged(reports[h[c].report], in)
    <3>1. Passes(Idle)
      BY <1>6, <2>3 DEF GateReadsFacts, Idle
    <3> HIDE DEF Passes
    <3> QED
      BY <1>3, <3>1
  <2> QED
    BY <2>2, <2>3
<1>7. CASE Launch(c)
  <2> DEFINE started == [report |-> h[c].report, checked |-> h[c].checked, used |-> case]
  <2>1. Approved(h[c].report) /\ Unchanged(reports[h[c].report], h[c].checked)
    BY <1>7 DEF Launch, GateInv, GateHolds, At
  <2>2. runs \in Seq(Runs) /\ runs' = Append(runs, started) /\ h' = [h EXCEPT ![c] = Idle]
    BY <1>7 DEF Launch, TypeOK
  <2>3. \A i \in DOMAIN runs' : runs'[i] = started \/ (i \in DOMAIN runs /\ runs'[i] = runs[i])
    BY <2>2
  <2>4. /\ \A i \in DOMAIN runs' : runs'[i].report \in DOMAIN reports'
        /\ RunsWereApproved'
    BY <1>1, <2>1, <2>3 DEF GateInv, RunsWereApproved, Approved, Unchanged
  <2>5. EditsRespectLock'
    BY <2>2, EditsStay DEF GateInv, Idle
  <2>6. \A d \in Clients : h'[d] = h[d] \/ h'[d] = Idle
    BY <2>2 DEF TypeOK
  <2>7. GateHolds'
    BY <1>1, <2>6 DEF GateInv, GateHolds, Approved, At, Unchanged, Idle
  <2> QED
    BY <1>2, <2>4, <2>5, <2>7 DEF GateInv
<1> QED
  BY <1>4, <1>5, <1>6, <1>7 DEF Run

\* The inductive invariant holds: a handler in the gate stands on an approved
\* report, and a save in progress respects the lock it read.
THEOREM Inductive == Spec => []GateInv
<1>1. ASSUME Init PROVE GateInv
  <2>1. DOMAIN reports = {} /\ DOMAIN runs = {} /\ ~Confirmed
    BY <1>1 DEF Init, Confirmed
  <2>2. \A c \in Clients : h[c].pc = "idle"
    BY <1>1 DEF Init, Idle
  <2> QED
    BY <2>1, <2>2 DEF GateInv, ReportsHonest, GateHolds, EditsRespectLock, At,
                      ConfirmationDescribesCase, RunsWereApproved
<1>2. TypeOK /\ GateInv /\ [Next]_vars => GateInv'
  <2> SUFFICES ASSUME TypeOK, GateInv, [Next]_vars PROVE GateInv'
    OBVIOUS
  <2>1. CASE Next
    BY <2>1, InvEntity, InvKnownFact, InvPreflight, InvRun DEF Next
  <2>2. CASE UNCHANGED vars
    <3>1. ReportsHonest'
      BY <2>2, HonestLasts DEF vars, GateInv
    <3> QED
      BY <2>2, <3>1
      DEF vars, GateInv, GateHolds, Approved, EditsRespectLock, At, Unchanged,
          ConfirmationDescribesCase, Confirmed, RunsWereApproved
  <2> QED
    BY <2>1, <2>2
<1> QED
  BY <1>1, <1>2, TypeCorrect, PTL DEF Spec

\* Whatever is written while the gate reads, a run starts on the inputs of an
\* unblocked, acknowledged report.
THEOREM OnlyApprovedRuns == Spec => []RunsWereApproved
<1>1. GateInv => RunsWereApproved
  BY DEF GateInv
<1> QED
  BY <1>1, Inductive, PTL

\* A run whose report is whole starts on a confirmed, complete and cleared case.
THEOREM GateIsSound == Spec => []GateSound
<1>1. GateInv => GateSound
  <2> SUFFICES ASSUME GateInv, NEW i \in DOMAIN runs, Whole(reports[runs[i].report])
               PROVE  Clear(runs[i].checked)
    BY DEF GateSound
  <2> DEFINE report == reports[runs[i].report]
  <2>1. ~report.blocked /\ report.input_digest = runs[i].checked
    BY DEF GateInv, RunsWereApproved
  <2>2. ~Blocking(report.conditions)
    BY <2>1 DEF GateInv, ReportsHonest
  <2> QED
    BY <2>1, <2>2 DEF Blocking, Clear, Whole
<1> QED
  BY <1>1, Inductive, PTL

\* Short of a race with a confirmation, a confirmed case carries the name that was
\* confirmed.
THEOREM ConfirmationHolds == Spec => []ConfirmationDescribesCase
<1>1. GateInv => ConfirmationDescribesCase
  BY DEF GateInv
<1> QED
  BY <1>1, Inductive, PTL

\* Short of that race, a confirmed name changes only with a higher version.
THEOREM VersionsNamePerimeters == Spec => PerimeterChangesAreVersioned
<1> DEFINE A == Confirmed /\ ~raced' /\ case'.name # case.name
                  => case'.version > case.version
<1>1. TypeOK /\ GateInv /\ [Next]_vars => [A]_vars
  <2> SUFFICES ASSUME TypeOK, GateInv, Next,
                      Confirmed, ~raced', case'.name # case.name
               PROVE  case'.version > case.version
    OBVIOUS
  <2>1. PICK c \in Clients : UpdateWrites(c) \/ ConfirmWrites(c)
    BY DEF Next, Entity, KnownFact, Preflight, Run, UpdateReads, ConfirmReads,
           Register, ClearRights, RunReadsCase, RunReadsConfirmed, RunReadsFacts,
           DigestReadsCase, DigestReadsFacts, InsertReport, Acknowledge,
           GateReadsReport, GateReadsCase, GateReadsFacts, Launch
  <2>2. CASE UpdateWrites(c)
    <3>1. h[c].name # None => ~h[c].locked
      BY <2>2 DEF GateInv, EditsRespectLock, UpdateWrites
    <3>2. case'.name = Saved(h[c].name, case.name)
      BY <2>2 DEF UpdateWrites, TypeOK, Cases
    <3>3. h[c].name = None
      BY <2>2, <3>1 DEF UpdateWrites, Confirmed
    <3> QED
      BY <3>2, <3>3 DEF Saved
  <2>3. CASE ConfirmWrites(c)
    <3>1. h[c].current = case.version
      BY <2>3 DEF ConfirmWrites
    <3>2. case'.version = h[c].current + 1 /\ case.version \in Nat
      BY <2>3 DEF ConfirmWrites, TypeOK, Cases, NextVersion
    <3> QED
      BY <3>1, <3>2
  <2> QED
    BY <2>1, <2>2, <2>3
<1> QED
  BY <1>1, TypeCorrect, Inductive, PTL DEF Spec, PerimeterChangesAreVersioned
=============================================================================
