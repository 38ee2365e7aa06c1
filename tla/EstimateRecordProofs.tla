------------------------ MODULE EstimateRecordProofs ------------------------
(***************************************************************************)
(* Theorems about the record of estimates, for every number of request      *)
(* threads, facts, simulations, published estimates and requests.           *)
(***************************************************************************)
EXTENDS EstimateRecordProps, SequenceTheorems, WellFoundedInduction, TLAPS

\* A set of bounded numbers has a greatest one (by the least-number principle
\* on the distances to the bound).
LEMMA Greatest ==
    ASSUME NEW m \in Nat, NEW S \in SUBSET (0..m), S # {}
    PROVE  \E i \in S : \A j \in S : j <= i
<1> DEFINE T == {k \in Nat : m - k \in S}
<1>1. T \subseteq Nat /\ T # {}
  <2>1. PICK i \in S : TRUE
    OBVIOUS
  <2>2. m - i \in T
    BY <2>1
  <2> QED
    BY <2>2
<1>2. PICK k \in T : \A l \in T : ~(<<l, k>> \in OpToRel(<, Nat))
  <2> HIDE DEF T
  <2> QED
    BY <1>1, NatLessThanWellFounded, WFMin
<1>3. \A l \in T : ~(l < k)
  BY <1>2 DEF OpToRel
<1>4. m - k \in S
  OBVIOUS
<1>5. ASSUME NEW j \in S PROVE j <= m - k
  <2>1. m - j \in T
    OBVIOUS
  <2>2. ~(m - j < k)
    BY <1>3, <2>1
  <2> QED
    BY <2>2
<1> QED
  BY <1>4, <1>5

\* A range of numbers from 1 is that of its bound alone.
LEMMA SameRange ==
    ASSUME NEW m \in Nat, NEW n \in Nat, 1..m = 1..n
    PROVE  m = n
<1>1. ~(m < n)
  <2>1. SUFFICES ASSUME m < n PROVE FALSE
    OBVIOUS
  <2>2. n \in 1..n /\ n \notin 1..m
    BY <2>1
  <2> QED
    BY <2>2
<1>2. ~(n < m)
  <2>1. SUFFICES ASSUME n < m PROVE FALSE
    OBVIOUS
  <2>2. m \in 1..m /\ m \notin 1..n
    BY <2>1
  <2> QED
    BY <2>2
<1> QED
  BY <1>1, <1>2

Locals ==
    {Idle}
    \cup [pc : {"corroborate", "raise"}, fact : Facts]
    \cup [pc : {"anchor"}, sim : {None}, fact : {None}, begun : Nat]
    \cup [pc : {"simulation", "source"}, sim : Sims, fact : Facts \cup {None}, begun : Nat]
    \cup [pc : {"lineage", "publish"}, draft : Snapshots]
    \cup [pc : {"recommend"}, on : Ids]
    \cup [pc : {"narrate"}, about : Nat, text : {"DRAFT", "FINAL", "UNMARKED"}]
    \cup [pc : {"delete"}]

\* The tables hold rows of their shape, removed ones aside, and every handler
\* is at a step of its request.
TypeOK ==
    /\ present \in BOOLEAN
    /\ facts \in [Facts -> FactRows \cup {None}]
    /\ conflicts \in Seq(Conflicts)
    /\ sims \in [Sims -> SimRows \cup {None}]
    /\ snapshots \in Seq(Snapshots \cup {None})
    /\ Len(snapshots) <= MaxSnapshots
    /\ advice \in Seq(Advice \cup {None})
    /\ h \in [Clients -> Locals]

\* What a handler at each place holds.
LEMMA LocalsAt ==
    ASSUME NEW l \in Locals
    PROVE  /\ l.pc \in {"corroborate", "raise"} => l.fact \in Facts
           /\ l.pc \in {"anchor", "simulation", "source"} =>
                 l.sim \in Sims \cup {None} /\ l.fact \in Facts \cup {None} /\ l.begun \in Nat
           /\ l.pc \in {"simulation", "source"} => l.sim \in Sims
           /\ l.pc \in {"lineage", "publish"} => l.draft \in Snapshots
           /\ l.pc = "recommend" => l.on \in Ids
           /\ l.pc = "narrate" => l.about \in Nat /\ l.text \in {"DRAFT", "FINAL", "UNMARKED"}
BY DEF Locals, Idle

LEMMA IdleTyped == Idle \in Locals
BY DEF Locals

LEMMA TypingFact ==
    ASSUME TypeOK, NEW c \in Clients, FactRequest(c)
    PROVE  TypeOK'
<1> USE EstimateAssumption DEF TypeOK, At, Receive, rows
<1>0. h[c] \in Locals
  OBVIOUS
<1>1. ASSUME NEW f \in Facts, NEW value \in Sites, NEW rights \in BOOLEAN,
             Register(c, f, value, rights)
      PROVE  TypeOK'
  <2>1. [value |-> value, rights |-> rights, state |-> "PENDING", superseded |-> FALSE]
           \in FactRows
    BY DEF FactRows, States
  <2> QED
    BY <1>1, <2>1 DEF Register
<1>2. ASSUME NEW f \in Facts, ClearRights(c, f) PROVE TypeOK'
  <2>1. facts[f] \in FactRows
    BY <1>2 DEF ClearRights
  <2>2. [facts[f] EXCEPT !.rights = TRUE] \in FactRows
    BY <2>1 DEF FactRows
  <2> QED
    BY <1>2, <2>2 DEF ClearRights
<1>3. ASSUME NEW f \in Facts, Corroborate(c, f) PROVE TypeOK'
  <2>1. [pc |-> "corroborate", fact |-> f] \in Locals
    BY DEF Locals
  <2> QED
    BY <1>3, <2>1 DEF Corroborate, Set
<1>4. ASSUME NEW state \in States, CorroborateWrites(c, state) PROVE TypeOK'
  <2> DEFINE f == h[c].fact
  <2>1. f \in Facts
    BY <1>0, <1>4, LocalsAt DEF CorroborateWrites
  <2>2. CASE facts[f] = None
    BY <1>4, <2>2, IdleTyped DEF CorroborateWrites, Set
  <2>3. CASE facts[f] # None
    <3>1. facts[f] \in FactRows
      BY <2>1, <2>3
    <3>2. Verdict(facts[f], state) \in FactRows
      BY <3>1 DEF Verdict, FactRows
    <3>3. facts' = [facts EXCEPT ![f] = Verdict(facts[f], state)]
      BY <1>4, <2>3 DEF CorroborateWrites
    <3> QED
      BY <1>4, <2>1, <3>2, <3>3, IdleTyped DEF CorroborateWrites, Set
  <2> QED
    BY <2>2, <2>3
<1>5. ASSUME NEW n \in 1..Len(conflicts), Resolve(c, n) PROVE TypeOK'
  <2>1. conflicts[n] \in Conflicts
    OBVIOUS
  <2>2. [conflicts[n] EXCEPT !.resolved = TRUE] \in Conflicts
    BY <2>1 DEF Conflicts
  <2>3. conflicts' \in Seq(Conflicts)
    BY <1>5, <2>2 DEF Resolve
  <2> QED
    BY <1>5, <2>3 DEF Resolve
<1> QED
  BY <1>1, <1>2, <1>3, <1>4, <1>5 DEF FactRequest

\* The last published estimate, if there is one, is one of the ids.
LEMMA LatestIsGreatest ==
    ASSUME Published # {}
    PROVE  Latest \in Published /\ \A j \in Published : j <= Latest
<1>1. MaxSnapshots \in Nat /\ Published \in SUBSET (0..MaxSnapshots)
  BY EstimateAssumption DEF Published, Ids
<1>2. \E i \in Published : \A j \in Published : j <= i
  BY <1>1, Greatest
<1> QED
  BY <1>2 DEF Latest

LEMMA LatestTyped == Latest \in Ids \cup {None}
<1>1. CASE Published = {}
  BY <1>1 DEF Latest
<1>2. CASE Published # {}
  BY <1>2, LatestIsGreatest DEF Published
<1> QED
  BY <1>1, <1>2

\* What a look-up adds to an estimate.
LEMMA SupersedingIs ==
    ASSUME TypeOK, NEW d \in Snapshots
    PROVE  LET s == Superseding(d)
           IN /\ s \in Snapshots
              /\ s.supersedes = Latest /\ s.looked = Len(snapshots) /\ s.begun = d.begun
              /\ s.credited = d.credited /\ s.sim = d.sim /\ s.origin = d.origin
<1>1. Len(snapshots) \in Nat
  BY DEF TypeOK
<1> QED
  BY <1>1, LatestTyped DEF Superseding, Snapshots

LEMMA TypingEstimate ==
    ASSUME TypeOK, NEW c \in Clients, EstimateRequest(c)
    PROVE  TypeOK'
<1> USE EstimateAssumption DEF TypeOK, At, Receive, rows
<1>0. h[c] \in Locals
  OBVIOUS
<1>1. ASSUME NEW method \in Methods, NEW s \in Sims \cup {None}, NEW f \in Facts \cup {None},
             Ask(c, method, s, f)
      PROVE  TypeOK'
  <2> DEFINE l == [pc |-> IF method = "ANCHOR" THEN "anchor" ELSE "simulation",
                   sim |-> s, fact |-> f, begun |-> Len(snapshots)]
  <2>1. Len(snapshots) \in Nat
    OBVIOUS
  <2>2. l \in Locals
    BY <1>1, <2>1 DEF Ask, Methods, Locals
  <2> QED
    BY <1>1, <2>2 DEF Ask, Set
<1>2. ASSUME NEW origin \in Origins, Anchor(c, origin) PROVE TypeOK'
  <2>1. Draft(c, "ANCHOR", origin, None) \in Snapshots
    BY <1>0, <1>2, LocalsAt DEF Anchor, Draft, Snapshots, Methods
  <2>2. [pc |-> "lineage", draft |-> Draft(c, "ANCHOR", origin, None)] \in Locals
    BY <2>1 DEF Locals
  <2> QED
    BY <1>2, <2>2 DEF Anchor, Set
<1>3. CASE Simulation(c)
  <2>1. [pc |-> "source", sim |-> h[c].sim, fact |-> h[c].fact, begun |-> h[c].begun]
           \in Locals
    BY <1>0, <1>3, LocalsAt DEF Simulation, Locals
  <2> QED
    BY <1>3, <2>1 DEF Simulation, Set
<1>4. CASE Source(c)
  <2>1. ASSUME NEW origin \in Origins, NEW credited \in Facts \cup {None}
        PROVE  [pc |-> "lineage", draft |-> Draft(c, "BUILD_UP", origin, credited)] \in Locals
    <3>1. Draft(c, "BUILD_UP", origin, credited) \in Snapshots
      BY <1>0, <1>4, LocalsAt DEF Source, Draft, Snapshots, Methods
    <3> QED
      BY <3>1 DEF Locals
  <2>2. \E l \in Locals : h' = [h EXCEPT ![c] = l]
    <3>1. CASE Set(c, [pc |-> "lineage",
                       draft |-> Draft(c, "BUILD_UP", "ANALYST_ENTERED_SCOPE", None)])
      BY <2>1, <3>1 DEF Set, Origins
    <3>2. CASE /\ h[c].fact # None
               /\ Set(c, [pc |-> "lineage", draft |->
                     Draft(c, "BUILD_UP", OriginFor(facts[h[c].fact].state), h[c].fact)])
      <4>1. h[c].fact \in Facts \cup {None}
        BY <1>0, <1>4, LocalsAt DEF Source
      <4>2. OriginFor(facts[h[c].fact].state) \in Origins
        BY DEF OriginFor, Origins
      <4> QED
        BY <2>1, <3>2, <4>1, <4>2 DEF Set
    <3>3. CASE h[c].fact # None /\ Set(c, [pc |-> "raise", fact |-> h[c].fact])
      <4>1. h[c].fact \in Facts
        BY <1>0, <1>4, <3>3, LocalsAt DEF Source
      <4>2. [pc |-> "raise", fact |-> h[c].fact] \in Locals
        BY <4>1 DEF Locals
      <4> QED
        BY <3>3, <4>2 DEF Set
    <3> QED
      BY <1>4, <3>1, <3>2, <3>3 DEF Source
  <2> QED
    BY <1>4, <2>2 DEF Source
<1>5. CASE Raise(c)
  <2>1. [fact |-> h[c].fact, resolved |-> FALSE] \in Conflicts
    BY <1>0, <1>5, LocalsAt DEF Raise, Conflicts
  <2> QED
    BY <1>5, <2>1, IdleTyped DEF Raise, Set
<1>6. CASE Lineage(c)
  <2>1. h[c].draft \in Snapshots
    BY <1>0, <1>6, LocalsAt DEF Lineage
  <2>2. Superseding(h[c].draft) \in Snapshots
    BY <2>1, SupersedingIs
  <2>3. [pc |-> "publish", draft |-> Superseding(h[c].draft)] \in Locals
    BY <2>2 DEF Locals
  <2> QED
    BY <1>6, <2>3 DEF Lineage, Set
<1>7. CASE Publish(c)
  <2>1. h[c].draft \in Snapshots
    BY <1>0, <1>7, LocalsAt DEF Publish
  <2>2. /\ snapshots' \in Seq(Snapshots \cup {None})
        /\ Len(snapshots') = Len(snapshots) + 1
    BY <1>7, <2>1 DEF Publish
  <2>3. Len(snapshots') <= MaxSnapshots
    BY <1>7, <2>2 DEF Publish
  <2> QED
    BY <1>7, <2>2, <2>3, IdleTyped DEF Publish, Set
<1> QED
  BY <1>1, <1>2, <1>3, <1>4, <1>5, <1>6, <1>7 DEF EstimateRequest

LEMMA TypingAdvice ==
    ASSUME TypeOK, NEW c \in Clients, AdviceRequest(c)
    PROVE  TypeOK'
<1> USE EstimateAssumption DEF TypeOK, At, Receive, rows
<1>0. h[c] \in Locals
  OBVIOUS
<1>1. ASSUME NEW i \in Ids, Recommend(c, i) PROVE TypeOK'
  <2>1. [pc |-> "recommend", on |-> i] \in Locals
    BY DEF Locals
  <2> QED
    BY <1>1, <2>1 DEF Recommend, Set
<1>2. ASSUME NEW k \in 1..Len(advice), Approve(c, k) PROVE TypeOK'
  <2>1. advice[k] \in Advice
    BY <1>2 DEF Approve, Advised
  <2>2. [advice[k] EXCEPT !.approved = TRUE] \in Advice
    BY <2>1 DEF Advice
  <2>3. advice' \in Seq(Advice \cup {None})
    BY <1>2, <2>2 DEF Approve
  <2> QED
    BY <1>2, <2>3 DEF Approve
<1>3. ASSUME NEW k \in 1..Len(advice), NEW final \in BOOLEAN, Narrate(c, k, final)
      PROVE  TypeOK'
  <2>1. Text(advice[k], final) \in {"DRAFT", "FINAL", "UNMARKED"}
    BY DEF Text
  <2>2. [pc |-> "narrate", about |-> k, text |-> Text(advice[k], final)] \in Locals
    BY <2>1 DEF Locals
  <2> QED
    BY <1>3, <2>2 DEF Narrate, Set
<1>4. ASSUME NEW material \in BOOLEAN, RecommendWrites(c, material) PROVE TypeOK'
  <2>1. [on |-> h[c].on, material |-> material, approved |-> FALSE, narrative |-> None]
           \in Advice
    BY <1>0, <1>4, LocalsAt DEF RecommendWrites, Advice
  <2> QED
    BY <1>4, <2>1, IdleTyped DEF RecommendWrites, Set
<1>5. CASE NarrateWrites(c)
  <2> DEFINE k == h[c].about
  <2>1. h[c].text \in {"DRAFT", "FINAL", "UNMARKED"}
    BY <1>0, <1>5, LocalsAt DEF NarrateWrites
  <2>2. advice' \in Seq(Advice \cup {None})
    <3>1. CASE ~Advised(k)
      BY <1>5, <3>1 DEF NarrateWrites
    <3>2. CASE Advised(k)
      <4>1. k \in 1..Len(advice) /\ advice[k] \in Advice
        BY <3>2 DEF Advised
      <4>2. [advice[k] EXCEPT !.narrative = h[c].text] \in Advice
        BY <2>1, <4>1 DEF Advice
      <4> QED
        BY <1>5, <3>2, <4>1, <4>2 DEF NarrateWrites
    <3> QED
      BY <3>1, <3>2
  <2> QED
    BY <1>5, <2>2, IdleTyped DEF NarrateWrites, Set
<1> QED
  BY <1>1, <1>2, <1>3, <1>4, <1>5 DEF AdviceRequest

\* A table of which a removal leaves no row.
LEMMA NothingLeft ==
    ASSUME NEW n \in Nat, NEW S
    PROVE  /\ [i \in 1..n |-> None] \in Seq(S \cup {None})
           /\ Len([i \in 1..n |-> None]) = n
<1> DEFINE s == [i \in 1..n |-> None]
<1>1. s \in Seq(S \cup {None}) /\ DOMAIN s = 1..n
  OBVIOUS
<1> HIDE DEF s
<1>2. Len(s) \in Nat /\ DOMAIN s = 1..Len(s)
  BY <1>1
<1>3. Len(s) = n
  BY <1>1, <1>2, SameRange
<1> QED
  BY <1>1, <1>3 DEF s

LEMMA TypingCase ==
    ASSUME TypeOK, NEW c \in Clients, CaseRequest(c)
    PROVE  TypeOK'
<1> USE EstimateAssumption DEF TypeOK, At, Receive, rows
<1>1. CASE Delete(c)
  <2>1. [pc |-> "delete"] \in Locals
    BY DEF Locals
  <2> QED
    BY <1>1, <2>1 DEF Delete, Set
<1>2. CASE DeleteCommits(c)
  <2>1. /\ snapshots' \in Seq(Snapshots \cup {None})
        /\ Len(snapshots') = Len(snapshots)
        /\ advice' \in Seq(Advice \cup {None})
    BY <1>2, NothingLeft DEF DeleteCommits
  <2>2. facts' \in [Facts -> FactRows \cup {None}]
    BY <1>2 DEF DeleteCommits
  <2>3. sims' \in [Sims -> SimRows \cup {None}]
    BY <1>2 DEF DeleteCommits
  <2>4. conflicts' = <<>> /\ present' = FALSE
    BY <1>2 DEF DeleteCommits
  <2>5. conflicts' \in Seq(Conflicts)
    BY <2>4, EmptySeq
  <2>6. h' \in [Clients -> Locals]
    BY <1>2, IdleTyped DEF DeleteCommits, Set
  <2>7. Len(snapshots') <= MaxSnapshots
    BY <2>1
  <2> QED
    BY <2>1, <2>2, <2>3, <2>4, <2>5, <2>6, <2>7
<1> QED
  BY <1>1, <1>2 DEF CaseRequest

LEMMA TypingSimulation ==
    ASSUME TypeOK, NEW s \in Sims, SimulationSucceeds(s)
    PROVE  TypeOK'
<1>1. sims[s] \in SimRows
  BY DEF TypeOK, SimulationSucceeds
<1>2. [sims[s] EXCEPT !.status = "SUCCEEDED"] \in SimRows
  BY <1>1 DEF SimRows
<1> QED
  BY <1>2 DEF TypeOK, SimulationSucceeds

\* Every table and every handler keeps to its range, in every instance.
THEOREM TypeCorrect == Spec => []TypeOK
<1>1. ASSUME Init PROVE TypeOK
  <2>1. snapshots = <<>> /\ Len(snapshots) <= MaxSnapshots
    BY <1>1, EstimateAssumption DEF Init
  <2>2. sims \in [Sims -> SimRows \cup {None}]
    BY <1>1 DEF Init
  <2>3. h \in [Clients -> Locals]
    BY <1>1, IdleTyped DEF Init
  <2>4. facts \in [Facts -> FactRows \cup {None}]
    BY <1>1 DEF Init
  <2> QED
    BY <1>1, <2>1, <2>2, <2>3, <2>4 DEF Init, TypeOK
<1>2. TypeOK /\ [Next]_vars => TypeOK'
  <2> SUFFICES ASSUME TypeOK, [Next]_vars PROVE TypeOK'
    OBVIOUS
  <2>1. ASSUME NEW c \in Clients, Ends(c) PROVE TypeOK'
    BY <2>1, IdleTyped DEF Ends, Set, TypeOK, rows
  <2>2. CASE UNCHANGED vars
    BY <2>2 DEF TypeOK, vars, rows
  <2> QED
    BY <2>1, <2>2, TypingFact, TypingEstimate, TypingAdvice, TypingCase, TypingSimulation
    DEF Next
<1> QED
  BY <1>1, <1>2, PTL DEF Spec

----------------------------------------------------------------------------
(* What is published about a credited count stays so: nothing takes back a  *)
(* fact's value, its rights or the mark of the corroboration behind it, nor *)
(* a simulation's count, while the case is there.                           *)

Backs(F, S, d) ==
    d.credited # None =>
        /\ d.sim \in Sims /\ S[d.sim] # None
        /\ F[d.credited] # None
        /\ F[d.credited].rights
        /\ F[d.credited].value = S[d.sim].sites
        /\ d.origin = "EVIDENCED_PUBLIC" => F[d.credited].superseded

\* Every agreement left its mark, and every estimate that is written, or about
\* to be, is backed.
AgreementsMarked ==
    \A f \in Facts : facts[f] # None /\ facts[f].state = "CORROBORATED" => facts[f].superseded
DraftsBacked ==
    \A c \in Clients : h[c].pc \in {"lineage", "publish"} => Backs(facts, sims, h[c].draft)
CreditInv ==
    /\ AgreementsMarked
    /\ present => DraftsBacked /\ \A i \in Published : Backs(facts, sims, snapshots[i])

LEMMA VerdictKeeps ==
    ASSUME NEW row \in FactRows, NEW state \in States
    PROVE  /\ Verdict(row, state).value = row.value
           /\ Verdict(row, state).rights = row.rights
           /\ Verdict(row, state).state = state
           /\ row.superseded \/ state = "CORROBORATED" => Verdict(row, state).superseded
BY DEF Verdict, FactRows

\* The five kinds of step that change the facts or the simulations.
LEMMA OnlyTheseChangeFacts ==
    ASSUME Next
    PROVE  \/ UNCHANGED <<facts, sims>> /\ (present' => present)
           \/ \E c \in Clients, f \in Facts, value \in Sites, rights \in BOOLEAN :
                 Register(c, f, value, rights)
           \/ \E c \in Clients, f \in Facts : ClearRights(c, f)
           \/ \E c \in Clients, state \in States : CorroborateWrites(c, state)
           \/ \E s \in Sims : SimulationSucceeds(s)
           \/ \E c \in Clients : DeleteCommits(c)
<1> DEFINE Same == UNCHANGED <<facts, sims>> /\ (present' => present)
<1>1. ASSUME NEW c \in Clients, EstimateRequest(c) PROVE Same
  <2>1. ASSUME NEW method, NEW s, NEW f, Ask(c, method, s, f) PROVE Same
    BY <2>1 DEF Ask, rows
  <2>2. ASSUME NEW origin, Anchor(c, origin) PROVE Same
    BY <2>2 DEF Anchor, rows
  <2>3. CASE Source(c)
    BY <2>3 DEF Source, rows
  <2>4. CASE Simulation(c) \/ Raise(c) \/ Lineage(c) \/ Publish(c)
    BY <2>4 DEF Simulation, Raise, Lineage, Publish, rows
  <2> HIDE DEF Same
  <2> QED
    BY <1>1, <2>1, <2>2, <2>3, <2>4 DEF EstimateRequest
<1>2. ASSUME NEW c \in Clients, AdviceRequest(c) PROVE Same
  <2>1. ASSUME NEW i, Recommend(c, i) PROVE Same
    BY <2>1 DEF Recommend, rows
  <2>2. ASSUME NEW k, Approve(c, k) PROVE Same
    BY <2>2 DEF Approve
  <2>3. ASSUME NEW k, NEW final, Narrate(c, k, final) PROVE Same
    BY <2>3 DEF Narrate, rows
  <2>4. ASSUME NEW material, RecommendWrites(c, material) PROVE Same
    BY <2>4 DEF RecommendWrites
  <2>5. CASE NarrateWrites(c)
    BY <2>5 DEF NarrateWrites
  <2> HIDE DEF Same
  <2> QED
    BY <1>2, <2>1, <2>2, <2>3, <2>4, <2>5 DEF AdviceRequest
<1>3. ASSUME NEW c \in Clients, NEW f \in Facts, Corroborate(c, f) PROVE Same
  BY <1>3 DEF Corroborate, rows
<1>4. ASSUME NEW c \in Clients, NEW n \in 1..Len(conflicts), Resolve(c, n) PROVE Same
  BY <1>4 DEF Resolve
<1>5. ASSUME NEW c \in Clients, Delete(c) \/ Ends(c) PROVE Same
  BY <1>5 DEF Delete, Ends, rows
<1> HIDE DEF Same
<1>6. ASSUME NEW c \in Clients, FactRequest(c)
      PROVE  \/ Same
             \/ \E f \in Facts, value \in Sites, rights \in BOOLEAN :
                   Register(c, f, value, rights)
             \/ \E f \in Facts : ClearRights(c, f)
             \/ \E state \in States : CorroborateWrites(c, state)
  BY <1>3, <1>4, <1>6 DEF FactRequest
<1>7. ASSUME NEW c \in Clients, CaseRequest(c) PROVE Same \/ DeleteCommits(c)
  BY <1>5, <1>7 DEF CaseRequest
<1> QED
  BY <1>1, <1>2, <1>5, <1>6, <1>7 DEF Next, Same

Kept ==
    /\ present
    /\ \A f \in Facts : facts[f] # None =>
          /\ facts'[f] # None
          /\ facts'[f].value = facts[f].value
          /\ facts[f].rights => facts'[f].rights
          /\ facts[f].superseded => facts'[f].superseded
    /\ \A s \in Sims : sims[s] # None => sims'[s] # None /\ sims'[s].sites = sims[s].sites

\* How a step changes the facts and the simulations of a case that stays.
LEMMA RowsKept ==
    ASSUME TypeOK, AgreementsMarked, Next
    PROVE  AgreementsMarked' /\ (present' => Kept)
<1> USE EstimateAssumption DEF TypeOK, AgreementsMarked, Kept
<1>1. CASE UNCHANGED <<facts, sims>> /\ (present' => present)
  BY <1>1
<1>2. ASSUME NEW c \in Clients, NEW f \in Facts, NEW value \in Sites, NEW rights \in BOOLEAN,
             Register(c, f, value, rights)
      PROVE  AgreementsMarked' /\ (present' => Kept)
  BY <1>2 DEF Register
<1>3. ASSUME NEW c \in Clients, NEW f \in Facts, ClearRights(c, f)
      PROVE  AgreementsMarked' /\ (present' => Kept)
  <2> DEFINE row == [facts[f] EXCEPT !.rights = TRUE]
  <2>1. facts[f] \in FactRows
    BY <1>3 DEF ClearRights
  <2>2. /\ row.value = facts[f].value /\ row.rights /\ row.state = facts[f].state
        /\ row.superseded = facts[f].superseded /\ row \in FactRows
    BY <2>1 DEF FactRows
  <2>3. row # None
    BY <2>2, RowsAssumption
  <2>4. UNCHANGED <<present, sims>> /\ facts' = [facts EXCEPT ![f] = row] /\ facts[f] # None
    BY <1>3 DEF ClearRights
  <2> HIDE DEF row
  <2> QED
    BY <2>2, <2>3, <2>4
<1>4. ASSUME NEW c \in Clients, NEW state \in States, CorroborateWrites(c, state)
      PROVE  AgreementsMarked' /\ (present' => Kept)
  <2> DEFINE f == h[c].fact
  <2>0. h[c] \in Locals /\ UNCHANGED <<present, sims>>
    BY <1>4 DEF CorroborateWrites
  <2>1. f \in Facts
    BY <1>4, <2>0, LocalsAt DEF CorroborateWrites, At
  <2>2. CASE facts[f] = None
    BY <1>4, <2>0, <2>2 DEF CorroborateWrites
  <2>3. CASE facts[f] # None
    <3> DEFINE row == Verdict(facts[f], state)
    <3>1. facts[f] \in FactRows
      BY <2>1, <2>3
    <3>2. /\ row.value = facts[f].value /\ row.rights = facts[f].rights /\ row.state = state
          /\ facts[f].superseded \/ state = "CORROBORATED" => row.superseded
      BY <3>1, VerdictKeeps
    <3>3. row # None
      BY <3>1, RowsAssumption DEF Verdict, FactRows
    <3>4. facts' = [facts EXCEPT ![f] = row]
      BY <1>4, <2>3 DEF CorroborateWrites
    <3> HIDE DEF row
    <3> QED
      BY <2>0, <2>1, <2>3, <3>2, <3>3, <3>4
  <2> QED
    BY <2>2, <2>3
<1>5. ASSUME NEW s \in Sims, SimulationSucceeds(s)
      PROVE  AgreementsMarked' /\ (present' => Kept)
  <2> DEFINE row == [sims[s] EXCEPT !.status = "SUCCEEDED"]
  <2>1. sims[s] \in SimRows
    BY <1>5 DEF SimulationSucceeds
  <2>2. row \in SimRows /\ row.sites = sims[s].sites
    BY <2>1 DEF SimRows
  <2>3. row # None
    BY <2>2, RowsAssumption
  <2>4. UNCHANGED <<present, facts>> /\ sims' = [sims EXCEPT ![s] = row]
    BY <1>5 DEF SimulationSucceeds
  <2> HIDE DEF row
  <2> QED
    BY <2>2, <2>3, <2>4
<1>6. ASSUME NEW c \in Clients, DeleteCommits(c)
      PROVE  AgreementsMarked' /\ (present' => Kept)
  BY <1>6 DEF DeleteCommits
<1> QED
  BY <1>1, <1>2, <1>3, <1>4, <1>5, <1>6, OnlyTheseChangeFacts
\* A backed estimate stays backed while the case stays.
LEMMA BackingKept ==
    ASSUME Kept, NEW d \in Snapshots, Backs(facts, sims, d)
    PROVE  Backs(facts', sims', d)
<1> SUFFICES ASSUME d.credited # None PROVE Backs(facts', sims', d)
  BY DEF Backs
<1>1. d.credited \in Facts
  BY DEF Snapshots
<1> QED
  BY <1>1 DEF Backs, Kept

\* Where a handler is about to write an estimate after a step, it already was,
\* or the step read what backs it.
LEMMA DraftsComeBacked ==
    ASSUME TypeOK, CreditInv, present, Next, NEW e \in Clients,
           h'[e].pc \in {"lineage", "publish"}
    PROVE  h'[e].draft \in Snapshots /\ Backs(facts, sims, h'[e].draft)
<1> DEFINE Good(l) == l.pc \in {"lineage", "publish"} =>
                         l.draft \in Snapshots /\ Backs(facts, sims, l.draft)
<1>0. h \in [Clients -> Locals] /\ Good(h[e])
  BY LocalsAt DEF TypeOK, CreditInv, DraftsBacked
<1>1. ASSUME h' = h PROVE Good(h'[e])
  BY <1>0, <1>1
<1>2. ASSUME NEW c \in Clients, NEW l, Set(c, l), Good(l) PROVE Good(h'[e])
  BY <1>0, <1>2 DEF Set
<1>3. ASSUME NEW c \in Clients, NEW l, Set(c, l), l.pc \notin {"lineage", "publish"}
      PROVE  Good(h'[e])
  BY <1>2, <1>3
<1>4. Idle.pc \notin {"lineage", "publish"}
  BY DEF Idle
<1> HIDE DEF Good
<1>5. ASSUME NEW c \in Clients, FactRequest(c) PROVE Good(h'[e])
  <2>1. ASSUME NEW f, Corroborate(c, f) PROVE Good(h'[e])
    BY <1>3, <2>1 DEF Corroborate
  <2>2. ASSUME NEW state, CorroborateWrites(c, state) PROVE Good(h'[e])
    BY <1>3, <1>4, <2>2 DEF CorroborateWrites
  <2> QED
    BY <1>1, <1>5, <2>1, <2>2 DEF FactRequest, Register, ClearRights, Resolve
<1>6. ASSUME NEW c \in Clients, EstimateRequest(c) PROVE Good(h'[e])
  <2>0. h[c] \in Locals
    BY <1>0
  <2>1. ASSUME NEW method, NEW s, NEW f, Ask(c, method, s, f) PROVE Good(h'[e])
    BY <1>3, <2>1 DEF Ask
  <2>2. ASSUME NEW origin \in Origins, Anchor(c, origin) PROVE Good(h'[e])
    <3> DEFINE d == Draft(c, "ANCHOR", origin, None)
    <3>1. d \in Snapshots /\ d.credited = None
      BY <2>0, <2>2, LocalsAt DEF Anchor, At, Draft, Snapshots, Methods
    <3>2. Good([pc |-> "lineage", draft |-> d])
      BY <3>1 DEF Good, Backs
    <3> QED
      BY <1>2, <2>2, <3>2 DEF Anchor
  <2>3. CASE Simulation(c)
    BY <1>3, <2>3 DEF Simulation
  <2>4. CASE Source(c)
    <3>0. /\ h[c].sim \in Sims /\ h[c].fact \in Facts \cup {None} /\ h[c].begun \in Nat
      BY <2>0, <2>4, LocalsAt DEF Source, At
    <3>1. ASSUME NEW origin \in Origins, NEW credited \in Facts \cup {None}
          PROVE  LET d == Draft(c, "BUILD_UP", origin, credited) IN
                    /\ d \in Snapshots /\ d.credited = credited
                    /\ d.sim = h[c].sim /\ d.origin = origin
      BY <3>0 DEF Draft, Snapshots, Methods
    <3>2. CASE Set(c, [pc |-> "lineage",
                       draft |-> Draft(c, "BUILD_UP", "ANALYST_ENTERED_SCOPE", None)])
      <4> DEFINE d == Draft(c, "BUILD_UP", "ANALYST_ENTERED_SCOPE", None)
      <4>1. d \in Snapshots /\ d.credited = None
        BY <3>1 DEF Origins
      <4>2. Good([pc |-> "lineage", draft |-> d])
        BY <4>1 DEF Good, Backs
      <4> QED
        BY <1>2, <3>2, <4>2
    <3>3. CASE /\ h[c].fact # None /\ facts[h[c].fact] # None /\ sims[h[c].sim] # None
               /\ facts[h[c].fact].rights
               /\ Agrees(facts[h[c].fact].value, sims[h[c].sim].sites)
               /\ Set(c, [pc |-> "lineage", draft |->
                     Draft(c, "BUILD_UP", OriginFor(facts[h[c].fact].state), h[c].fact)])
      <4> DEFINE d == Draft(c, "BUILD_UP", OriginFor(facts[h[c].fact].state), h[c].fact)
      <4>1. OriginFor(facts[h[c].fact].state) \in Origins
        BY DEF OriginFor, Origins
      <4>2. /\ d \in Snapshots /\ d.credited = h[c].fact /\ d.sim = h[c].sim
            /\ d.origin = OriginFor(facts[h[c].fact].state)
        BY <3>0, <3>1, <4>1
      <4>3. d.origin = "EVIDENCED_PUBLIC" => facts[h[c].fact].superseded
        BY <3>0, <3>3, <4>2 DEF OriginFor, CreditInv, AgreementsMarked
      <4> HIDE DEF d
      <4>4. Backs(facts, sims, d)
        BY <3>0, <3>3, <4>2, <4>3 DEF Backs, Agrees
      <4>5. Good([pc |-> "lineage", draft |-> d])
        BY <4>2, <4>4 DEF Good
      <4> QED
        BY <1>2, <3>3, <4>5 DEF d
    <3>4. CASE Set(c, [pc |-> "raise", fact |-> h[c].fact])
      BY <1>3, <3>4
    <3> QED
      BY <2>4, <3>2, <3>3, <3>4 DEF Source
  <2>5. CASE Raise(c) \/ Publish(c)
    BY <1>3, <1>4, <2>5 DEF Raise, Publish
  <2>6. CASE Lineage(c)
    <3> DEFINE d == Superseding(h[c].draft)
    <3>1. h[c].draft \in Snapshots /\ Backs(facts, sims, h[c].draft)
      BY <2>0, <2>6, LocalsAt DEF Lineage, At, CreditInv, DraftsBacked
    <3>2. /\ d \in Snapshots /\ d.credited = h[c].draft.credited
          /\ d.sim = h[c].draft.sim /\ d.origin = h[c].draft.origin
      BY <3>1, SupersedingIs
    <3> HIDE DEF d
    <3>3. Good([pc |-> "publish", draft |-> d])
      BY <3>1, <3>2 DEF Good, Backs
    <3> QED
      BY <1>2, <2>6, <3>3 DEF Lineage, d
  <2> QED
    BY <1>6, <2>1, <2>2, <2>3, <2>4, <2>5, <2>6 DEF EstimateRequest
<1>7. ASSUME NEW c \in Clients, AdviceRequest(c) PROVE Good(h'[e])
  <2>1. ASSUME NEW i, Recommend(c, i) PROVE Good(h'[e])
    BY <1>3, <2>1 DEF Recommend
  <2>2. ASSUME NEW k, Approve(c, k) PROVE Good(h'[e])
    BY <1>1, <2>2 DEF Approve
  <2>3. ASSUME NEW k, NEW final, Narrate(c, k, final) PROVE Good(h'[e])
    BY <1>3, <2>3 DEF Narrate
  <2>4. ASSUME NEW material, RecommendWrites(c, material) PROVE Good(h'[e])
    BY <1>3, <1>4, <2>4 DEF RecommendWrites
  <2>5. CASE NarrateWrites(c)
    BY <1>3, <1>4, <2>5 DEF NarrateWrites
  <2> QED
    BY <1>7, <2>1, <2>2, <2>3, <2>4, <2>5 DEF AdviceRequest
<1>8. ASSUME NEW c \in Clients, CaseRequest(c) \/ Ends(c) PROVE Good(h'[e])
  BY <1>3, <1>4, <1>8 DEF CaseRequest, Delete, DeleteCommits, Ends
<1>9. ASSUME NEW s \in Sims, SimulationSucceeds(s) PROVE Good(h'[e])
  BY <1>1, <1>9 DEF SimulationSucceeds
<1>10. Good(h'[e])
  BY <1>5, <1>6, <1>7, <1>8, <1>9 DEF Next
<1> QED
  BY <1>10 DEF Good
\* The published estimates change in two steps only.
LEMMA OnlyTheseChangeSnapshots ==
    ASSUME Next
    PROVE  \/ snapshots' = snapshots /\ (present' => present)
           \/ \E c \in Clients : Publish(c) \/ DeleteCommits(c)
<1> DEFINE Same == snapshots' = snapshots /\ (present' => present)
<1>1. ASSUME NEW c \in Clients, FactRequest(c) PROVE Same
  <2>1. ASSUME NEW f, Corroborate(c, f) PROVE Same
    BY <2>1 DEF Corroborate, rows
  <2>2. ASSUME NEW state, CorroborateWrites(c, state) PROVE Same
    BY <2>2 DEF CorroborateWrites
  <2> QED
    BY <1>1, <2>1, <2>2 DEF FactRequest, Register, ClearRights, Resolve
<1>2. ASSUME NEW c \in Clients, EstimateRequest(c) PROVE Same \/ Publish(c)
  <2>1. ASSUME NEW method, NEW s, NEW f, Ask(c, method, s, f) PROVE Same
    BY <2>1 DEF Ask, rows
  <2>2. ASSUME NEW origin, Anchor(c, origin) PROVE Same
    BY <2>2 DEF Anchor, rows
  <2>3. CASE Source(c)
    BY <2>3 DEF Source, rows
  <2>4. CASE Simulation(c) \/ Raise(c) \/ Lineage(c)
    BY <2>4 DEF Simulation, Raise, Lineage, rows
  <2> HIDE DEF Same
  <2> QED
    BY <1>2, <2>1, <2>2, <2>3, <2>4 DEF EstimateRequest
<1>3. ASSUME NEW c \in Clients, AdviceRequest(c) PROVE Same
  <2>1. ASSUME NEW i, Recommend(c, i) PROVE Same
    BY <2>1 DEF Recommend, rows
  <2>2. ASSUME NEW k, Approve(c, k) PROVE Same
    BY <2>2 DEF Approve
  <2>3. ASSUME NEW k, NEW final, Narrate(c, k, final) PROVE Same
    BY <2>3 DEF Narrate, rows
  <2>4. ASSUME NEW material, RecommendWrites(c, material) PROVE Same
    BY <2>4 DEF RecommendWrites
  <2>5. CASE NarrateWrites(c)
    BY <2>5 DEF NarrateWrites
  <2> HIDE DEF Same
  <2> QED
    BY <1>3, <2>1, <2>2, <2>3, <2>4, <2>5 DEF AdviceRequest
<1>4. ASSUME NEW c \in Clients, Delete(c) \/ Ends(c) PROVE Same
  BY <1>4 DEF Delete, Ends, rows
<1>5. ASSUME NEW s \in Sims, SimulationSucceeds(s) PROVE Same
  BY <1>5 DEF SimulationSucceeds
<1> HIDE DEF Same
<1>6. ASSUME NEW c \in Clients, CaseRequest(c) PROVE Same \/ DeleteCommits(c)
  BY <1>4, <1>6 DEF CaseRequest
<1>7. Same \/ \E c \in Clients : Publish(c) \/ DeleteCommits(c)
  BY <1>1, <1>2, <1>3, <1>4, <1>5, <1>6 DEF Next
<1> QED
  BY <1>7 DEF Same

\* What a published estimate appends.
LEMMA PublishAppends ==
    ASSUME TypeOK, NEW c \in Clients, Publish(c)
    PROVE  /\ h[c].pc = "publish" /\ h[c].draft \in Snapshots
           /\ snapshots' \in Seq(Snapshots \cup {None})
           /\ Len(snapshots') = Len(snapshots) + 1
           /\ \A i \in 1..Len(snapshots) : snapshots'[i] = snapshots[i]
           /\ snapshots'[Len(snapshots) + 1] = h[c].draft
           /\ UNCHANGED <<present, facts, conflicts, sims, advice>>
           /\ h' = [h EXCEPT ![c] = Idle]
<1>1. h[c].pc = "publish" /\ h[c].draft \in Snapshots
  BY LocalsAt DEF TypeOK, Publish, At
<1>2. snapshots \in Seq(Snapshots \cup {None}) /\ snapshots' = Append(snapshots, h[c].draft)
  BY DEF TypeOK, Publish
<1>3. /\ snapshots' \in Seq(Snapshots \cup {None})
      /\ Len(snapshots') = Len(snapshots) + 1
      /\ \A i \in 1..Len(snapshots) : snapshots'[i] = snapshots[i]
      /\ snapshots'[Len(snapshots) + 1] = h[c].draft
  BY <1>1, <1>2, AppendProperties
<1> QED
  BY <1>1, <1>3 DEF Publish, Set

LEMMA CreditStep ==
    ASSUME TypeOK, CreditInv, Next
    PROVE  CreditInv'
<1>1. AgreementsMarked' /\ (present' => Kept)
  BY RowsKept DEF CreditInv
<1>2. SUFFICES ASSUME present'
               PROVE  DraftsBacked' /\ (\A i \in Published : Backs(facts, sims, snapshots[i]))'
  BY <1>1 DEF CreditInv
<1>3. Kept /\ present
  BY <1>1, <1>2 DEF Kept
<1>4. DraftsBacked'
  <2> SUFFICES ASSUME NEW e \in Clients, h'[e].pc \in {"lineage", "publish"}
               PROVE  Backs(facts', sims', h'[e].draft)
    BY DEF DraftsBacked
  <2> QED
    BY <1>3, DraftsComeBacked, BackingKept
<1>5. \A i \in Published' : snapshots'[i] \in Snapshots /\ Backs(facts, sims, snapshots'[i])
  <2>0. snapshots \in Seq(Snapshots \cup {None})
    BY DEF TypeOK
  <2>1. \A i \in Published : snapshots[i] \in Snapshots /\ Backs(facts, sims, snapshots[i])
    BY <1>3, <2>0 DEF CreditInv, Published, Exists
  <2>2. CASE snapshots' = snapshots
    BY <2>1, <2>2 DEF Published, Exists
  <2>3. ASSUME NEW c \in Clients, Publish(c)
        PROVE  \A i \in Published' : snapshots'[i] \in Snapshots
                                       /\ Backs(facts, sims, snapshots'[i])
    <3>1. Backs(facts, sims, h[c].draft)
      BY <1>3, <2>3, PublishAppends DEF CreditInv, DraftsBacked
    <3>2. SUFFICES ASSUME NEW i \in Published'
                   PROVE  snapshots'[i] \in Snapshots /\ Backs(facts, sims, snapshots'[i])
      OBVIOUS
    <3>3. i \in Ids /\ i \in 1..(Len(snapshots) + 1) /\ snapshots'[i] # None
      BY <2>3, <3>2, PublishAppends DEF Published, Exists, Ids
    <3>4. CASE i = Len(snapshots) + 1
      BY <2>3, <3>1, <3>4, PublishAppends
    <3>5. CASE i \in 1..Len(snapshots)
      <4>1. snapshots'[i] = snapshots[i] /\ i \in Published
        BY <2>3, <3>3, <3>5, PublishAppends DEF Published, Exists
      <4> QED
        BY <2>1, <4>1
    <3> QED
      BY <2>0, <3>3, <3>4, <3>5
  <2>4. ASSUME NEW c \in Clients, DeleteCommits(c) PROVE FALSE
    BY <1>2, <2>4 DEF DeleteCommits
  <2> QED
    BY <2>2, <2>3, <2>4, OnlyTheseChangeSnapshots
<1> QED
  BY <1>3, <1>4, <1>5, BackingKept

\* CreditedSourceHolds in every instance: whatever was corroborated again,
\* contradicted or removed meanwhile, a credited count is the fact's.
THEOREM CreditIsSound == Spec => []CreditedSourceHolds
<1>1. Init => CreditInv
  <2> SUFFICES ASSUME Init PROVE CreditInv
    OBVIOUS
  <2>1. AgreementsMarked
    BY DEF Init, AgreementsMarked
  <2>2. DraftsBacked
    BY DEF Init, DraftsBacked, Idle
  <2>3. Published = {}
    BY DEF Init, Published, Exists
  <2> QED
    BY <2>1, <2>2, <2>3 DEF CreditInv
<1>2. TypeOK /\ CreditInv /\ [Next]_vars => CreditInv'
  <2>1. ASSUME UNCHANGED vars, CreditInv PROVE CreditInv'
    BY <2>1 DEF CreditInv, AgreementsMarked, DraftsBacked, Published, Exists, vars, rows
  <2> QED
    BY <2>1, CreditStep
<1>3. CreditInv => CreditedSourceHolds
  BY DEF CreditInv, CreditedSourceHolds, Backs
<1> QED
  BY <1>1, <1>2, <1>3, TypeCorrect, PTL DEF Spec
----------------------------------------------------------------------------
(* The lineage.  While the case is there nothing is removed, so the greatest *)
(* id is the last one, and a request supersedes the last of those published  *)
(* when it looked.                                                           *)

Improves(s, n) ==
    /\ s.begun <= s.looked /\ s.looked <= n
    /\ s.supersedes = IF s.looked = 0 THEN None ELSE s.looked

LineageInv ==
    present =>
        /\ \A i \in 1..Len(snapshots) : snapshots[i] # None /\ Improves(snapshots[i], i - 1)
        /\ \A c \in Clients :
              /\ h[c].pc \in {"anchor", "simulation", "source"} => h[c].begun <= Len(snapshots)
              /\ h[c].pc \in {"lineage", "publish"} => h[c].draft.begun <= Len(snapshots)
              /\ h[c].pc = "publish" => Improves(h[c].draft, Len(snapshots))

\* What a step leaves of a handler's request.
Follows(l) ==
    /\ l.pc \in {"anchor", "simulation", "source"} => l.begun <= Len(snapshots)
    /\ l.pc \in {"lineage", "publish"} =>
          l.draft \in Snapshots /\ l.draft.begun <= Len(snapshots)
    /\ l.pc = "publish" => Improves(l.draft, Len(snapshots))

LEMMA PublishedAll ==
    ASSUME TypeOK, LineageInv, present
    PROVE  Published = 1..Len(snapshots)
BY EstimateAssumption DEF TypeOK, LineageInv, Published, Exists, Ids

LEMMA LatestImproves ==
    ASSUME TypeOK, LineageInv, present, NEW d \in Snapshots, d.begun <= Len(snapshots)
    PROVE  Improves(Superseding(d), Len(snapshots))
<1> DEFINE s == Superseding(d)
<1>0. /\ s.supersedes = Latest /\ s.begun = d.begun /\ d.begun \in Nat
      /\ s.looked = Len(snapshots)
  BY SupersedingIs DEF Snapshots
<1> HIDE DEF s
<1>1. Len(snapshots) \in Nat
  BY DEF TypeOK
<1>2. CASE Len(snapshots) = 0
  <2>1. Published = {}
    BY <1>2, PublishedAll
  <2> QED
    BY <1>0, <1>2, <2>1 DEF Latest, Improves, s
<1>3. CASE Len(snapshots) > 0
  <2>1. Len(snapshots) \in Published
    BY <1>1, <1>3, PublishedAll
  <2>2. Latest \in Published /\ Latest >= Len(snapshots)
    BY <2>1, LatestIsGreatest
  <2>3. Latest \in 1..Len(snapshots)
    BY <2>2, PublishedAll
  <2>4. Latest = Len(snapshots)
    BY <1>1, <2>2, <2>3
  <2>5. Latest # None
    BY <2>3, EstimateAssumption
  <2> QED
    BY <1>0, <1>1, <1>3, <2>4, <2>5 DEF Improves, s
<1> QED
  BY <1>1, <1>2, <1>3

LEMMA HandlersFollow ==
    ASSUME TypeOK, LineageInv, present, Next, NEW e \in Clients
    PROVE  Follows(h'[e])
<1>0. h \in [Clients -> Locals] /\ Follows(h[e]) /\ Len(snapshots) \in Nat
  BY LocalsAt DEF TypeOK, LineageInv, Follows
<1>1. ASSUME h' = h PROVE Follows(h'[e])
  BY <1>0, <1>1
<1>2. ASSUME NEW c \in Clients, NEW l, Set(c, l), Follows(l) PROVE Follows(h'[e])
  BY <1>0, <1>2 DEF Set
<1> DEFINE Elsewhere(l) == l.pc \notin {"anchor", "simulation", "source", "lineage", "publish"}
<1>3. ASSUME NEW c \in Clients, NEW l, Set(c, l), Elsewhere(l) PROVE Follows(h'[e])
  BY <1>2, <1>3 DEF Follows
<1>4. Elsewhere(Idle)
  BY DEF Idle
<1>5. ASSUME NEW c \in Clients, FactRequest(c) PROVE Follows(h'[e])
  <2>1. ASSUME NEW f, Corroborate(c, f) PROVE Follows(h'[e])
    BY <1>3, <2>1 DEF Corroborate
  <2>2. ASSUME NEW state, CorroborateWrites(c, state) PROVE Follows(h'[e])
    BY <1>3, <1>4, <2>2 DEF CorroborateWrites
  <2> QED
    BY <1>1, <1>5, <2>1, <2>2 DEF FactRequest, Register, ClearRights, Resolve
<1>6. ASSUME NEW c \in Clients, EstimateRequest(c) PROVE Follows(h'[e])
  <2>0. h[c] \in Locals
    BY <1>0
  <2>1. ASSUME NEW method, NEW s, NEW f, Ask(c, method, s, f) PROVE Follows(h'[e])
    <3> DEFINE l == [pc |-> IF method = "ANCHOR" THEN "anchor" ELSE "simulation",
                     sim |-> s, fact |-> f, begun |-> Len(snapshots)]
    <3>1. Follows(l)
      BY <1>0 DEF Follows
    <3> QED
      BY <1>2, <2>1, <3>1 DEF Ask
  <2>2. ASSUME h[c].pc \in {"anchor", "source"},
               NEW method \in Methods, NEW origin \in Origins, NEW credited \in Facts \cup {None},
               Set(c, [pc |-> "lineage", draft |-> Draft(c, method, origin, credited)])
        PROVE  Follows(h'[e])
    <3> DEFINE d == Draft(c, method, origin, credited)
    <3>1. d \in Snapshots /\ d.begun = h[c].begun
      BY <2>0, <2>2, LocalsAt DEF Draft, Snapshots
    <3>2. h[c].begun <= Len(snapshots)
      BY <2>2 DEF LineageInv
    <3> HIDE DEF d
    <3>3. Follows([pc |-> "lineage", draft |-> d])
      BY <3>1, <3>2 DEF Follows
    <3> QED
      BY <1>2, <2>2, <3>3 DEF d
  <2>3. ASSUME NEW origin \in Origins, Anchor(c, origin) PROVE Follows(h'[e])
    BY <2>2, <2>3 DEF Anchor, At, Methods
  <2>4. CASE Simulation(c)
    <3> DEFINE l == [pc |-> "source", sim |-> h[c].sim, fact |-> h[c].fact,
                     begun |-> h[c].begun]
    <3>1. Follows(l)
      BY <2>4 DEF Follows, Simulation, At, LineageInv
    <3> QED
      BY <1>2, <2>4, <3>1 DEF Simulation
  <2>5. CASE Source(c)
    <3>0. h[c].pc = "source" /\ h[c].fact \in Facts \cup {None}
      BY <2>0, <2>5, LocalsAt DEF Source, At
    <3>1. CASE Set(c, [pc |-> "lineage",
                       draft |-> Draft(c, "BUILD_UP", "ANALYST_ENTERED_SCOPE", None)])
      BY <2>2, <3>0, <3>1 DEF Origins, Methods
    <3>2. CASE Set(c, [pc |-> "lineage", draft |->
                  Draft(c, "BUILD_UP", OriginFor(facts[h[c].fact].state), h[c].fact)])
      <4>1. OriginFor(facts[h[c].fact].state) \in Origins
        BY DEF OriginFor, Origins
      <4> QED
        BY <2>2, <3>0, <3>2, <4>1 DEF Methods
    <3>3. CASE Set(c, [pc |-> "raise", fact |-> h[c].fact])
      BY <1>3, <3>3
    <3> QED
      BY <2>5, <3>1, <3>2, <3>3 DEF Source
  <2>6. CASE Raise(c) \/ Publish(c)
    BY <1>3, <1>4, <2>6 DEF Raise, Publish
  <2>7. CASE Lineage(c)
    <3> DEFINE d == Superseding(h[c].draft)
    <3>1. h[c].draft \in Snapshots /\ h[c].draft.begun <= Len(snapshots)
      BY <2>0, <2>7, LocalsAt DEF Lineage, At, LineageInv
    <3>2. Improves(d, Len(snapshots))
      BY <3>1, LatestImproves
    <3>3. d \in Snapshots /\ d.begun = h[c].draft.begun
      BY <3>1, SupersedingIs
    <3> HIDE DEF d
    <3>4. Follows([pc |-> "publish", draft |-> d])
      BY <3>1, <3>2, <3>3 DEF Follows
    <3> QED
      BY <1>2, <2>7, <3>4 DEF Lineage, d
  <2> QED
    BY <1>6, <2>1, <2>3, <2>4, <2>5, <2>6, <2>7 DEF EstimateRequest
<1>7. ASSUME NEW c \in Clients, AdviceRequest(c) PROVE Follows(h'[e])
  <2>1. ASSUME NEW i, Recommend(c, i) PROVE Follows(h'[e])
    BY <1>3, <2>1 DEF Recommend
  <2>2. ASSUME NEW k, Approve(c, k) PROVE Follows(h'[e])
    BY <1>1, <2>2 DEF Approve
  <2>3. ASSUME NEW k, NEW final, Narrate(c, k, final) PROVE Follows(h'[e])
    BY <1>3, <2>3 DEF Narrate
  <2>4. ASSUME NEW material, RecommendWrites(c, material) PROVE Follows(h'[e])
    BY <1>3, <1>4, <2>4 DEF RecommendWrites
  <2>5. CASE NarrateWrites(c)
    BY <1>3, <1>4, <2>5 DEF NarrateWrites
  <2> QED
    BY <1>7, <2>1, <2>2, <2>3, <2>4, <2>5 DEF AdviceRequest
<1>8. ASSUME NEW c \in Clients, CaseRequest(c) \/ Ends(c) PROVE Follows(h'[e])
  BY <1>3, <1>4, <1>8 DEF CaseRequest, Delete, DeleteCommits, Ends
<1>9. ASSUME NEW s \in Sims, SimulationSucceeds(s) PROVE Follows(h'[e])
  BY <1>1, <1>9 DEF SimulationSucceeds
<1> QED
  BY <1>5, <1>6, <1>7, <1>8, <1>9 DEF Next

LEMMA LineageStep ==
    ASSUME TypeOK, LineageInv, Next
    PROVE  LineageInv'
<1>0. SUFFICES ASSUME present' PROVE LineageInv'
  BY DEF LineageInv
<1> DEFINE n == Len(snapshots)
<1>2. CASE snapshots' = snapshots /\ present
  <2>1. \A e \in Clients : Follows(h'[e])
    BY <1>2, HandlersFollow
  <2> QED
    BY <1>2, <2>1 DEF LineageInv, Follows, Improves
<1>3. ASSUME NEW c \in Clients, Publish(c) PROVE LineageInv'
  <2>0. present /\ n' = n + 1 /\ n \in Nat
    <3>1. present' = present /\ Len(snapshots') = Len(snapshots) + 1
      BY <1>3, PublishAppends
    <3> QED
      BY <1>0, <3>1 DEF TypeOK
  <2>1. h[c].draft \in Snapshots /\ Improves(h[c].draft, n)
    BY <1>3, <2>0, PublishAppends DEF LineageInv
  <2>2. h[c].draft # None
    BY <2>1, RowsAssumption
  <2>3. ASSUME NEW i \in 1..n'
        PROVE  snapshots'[i] # None /\ Improves(snapshots'[i], i - 1)
    <3>1. CASE i \in 1..n
      BY <1>3, <2>0, <3>1, PublishAppends DEF LineageInv
    <3>2. CASE i = n + 1
      <4>1. snapshots'[Len(snapshots) + 1] = h[c].draft
        BY <1>3, PublishAppends
      <4>2. snapshots'[i] = h[c].draft /\ i - 1 = n
        BY <2>0, <3>2, <4>1
      <4> QED
        BY <2>1, <2>2, <4>2
    <3> QED
      BY <2>0, <3>1, <3>2
  <2>4. ASSUME NEW e \in Clients PROVE Follows(h'[e])
    BY <2>0, HandlersFollow
  <2>5. ASSUME NEW e \in Clients
        PROVE  /\ h'[e].pc \in {"anchor", "simulation", "source"} => h'[e].begun <= n'
               /\ h'[e].pc \in {"lineage", "publish"} => h'[e].draft.begun <= n'
               /\ h'[e].pc = "publish" => Improves(h'[e].draft, n')
    <3>0. h'[e] \in Locals
      BY TypingEstimate, <1>3 DEF EstimateRequest, TypeOK
    <3>1. /\ h'[e].pc \in {"anchor", "simulation", "source"} => h'[e].begun \in Nat
          /\ h'[e].pc \in {"lineage", "publish"} =>
                /\ h'[e].draft \in Snapshots /\ h'[e].draft.begun \in Nat
                /\ h'[e].draft.looked \in Nat
      BY <3>0, LocalsAt DEF Snapshots
    <3>2. ASSUME h'[e].pc = "publish" PROVE Improves(h'[e].draft, n')
      <4>1. Improves(h'[e].draft, n)
        BY <2>4, <3>2 DEF Follows
      <4>2. h'[e].draft.looked \in Nat
        BY <3>1, <3>2
      <4> HIDE DEF n
      <4> QED
        BY <2>0, <4>1, <4>2 DEF Improves
    <3> HIDE DEF n
    <3>3. /\ h'[e].pc \in {"anchor", "simulation", "source"} => h'[e].begun <= n
          /\ h'[e].pc \in {"lineage", "publish"} => h'[e].draft.begun <= n
      BY <2>4 DEF Follows, n
    <3> QED
      BY <2>0, <3>1, <3>2, <3>3
  <2> QED
    BY <2>3, <2>5 DEF LineageInv
<1>4. ASSUME NEW c \in Clients, DeleteCommits(c) PROVE FALSE
  BY <1>0, <1>4 DEF DeleteCommits
<1> QED
  BY <1>0, <1>2, <1>3, <1>4, OnlyTheseChangeSnapshots

\* LeftOutOnlyByOverlap in every instance: however many requests publish at
\* once, none supersedes an estimate older than those it found, and one that
\* nothing supersedes was published between the look-up and the commit of the
\* next.
THEOREM LineageIsComplete == Spec => []LeftOutOnlyByOverlap
<1>1. Init => LineageInv
  BY DEF Init, LineageInv, Idle
<1>2. TypeOK /\ LineageInv /\ [Next]_vars => LineageInv'
  <2>1. ASSUME UNCHANGED vars, LineageInv PROVE LineageInv'
    BY <2>1 DEF LineageInv, vars, rows
  <2> QED
    BY <2>1, LineageStep
<1>3. TypeOK /\ LineageInv => LeftOutOnlyByOverlap
  <2> SUFFICES ASSUME TypeOK, LineageInv, present, NEW i \in Published
               PROVE  /\ IF snapshots[i].supersedes = None THEN snapshots[i].begun = 0
                         ELSE /\ snapshots[i].supersedes >= snapshots[i].begun
                              /\ snapshots[i].supersedes < i
                              /\ Exists(snapshots[i].supersedes)
                      /\ \/ i = Len(snapshots)
                         \/ \E j \in Published : snapshots[j].supersedes = i
                         \/ snapshots[i + 1].looked < i
    BY DEF LeftOutOnlyByOverlap
  <2> DEFINE n == Len(snapshots)
  <2>0. n \in Nat /\ Published = 1..n /\ i \in 1..n /\ i \in Nat
    BY PublishedAll DEF TypeOK
  <2>1. ASSUME NEW j \in 1..n
        PROVE  /\ snapshots[j].begun \in Nat /\ snapshots[j].looked \in Nat
               /\ snapshots[j].begun <= snapshots[j].looked /\ snapshots[j].looked <= j - 1
               /\ snapshots[j].supersedes =
                     IF snapshots[j].looked = 0 THEN None ELSE snapshots[j].looked
    <3>1. Improves(snapshots[j], j - 1)
      BY <2>1 DEF LineageInv
    <3>2. snapshots[j] \in Snapshots
      BY <2>0, <2>1 DEF TypeOK, Published, Exists
    <3>3. snapshots[j].begun \in Nat /\ snapshots[j].looked \in Nat
      BY <3>2 DEF Snapshots
    <3> QED
      BY <3>1, <3>3 DEF Improves
  <2> HIDE DEF n
  <2>2. ASSUME i # n, ~(snapshots[i + 1].looked < i)
        PROVE  \E j \in Published : snapshots[j].supersedes = i
    <3>1. i + 1 \in 1..n
      BY <2>0, <2>2
    <3>2. snapshots[i + 1].looked = i
      BY <2>0, <2>1, <2>2, <3>1
    <3>3. snapshots[i + 1].supersedes = i
      BY <2>0, <2>1, <3>1, <3>2
    <3> QED
      BY <2>0, <3>1, <3>3
  <2>3. snapshots[i].looked = 0 => snapshots[i].supersedes = None /\ snapshots[i].begun = 0
    BY <2>0, <2>1
  <2>4. snapshots[i].looked # 0 =>
           /\ snapshots[i].supersedes # None
           /\ snapshots[i].supersedes >= snapshots[i].begun
           /\ snapshots[i].supersedes < i
           /\ Exists(snapshots[i].supersedes)
    BY <2>0, <2>1, EstimateAssumption DEF Published
  <2> QED
    BY <2>2, <2>3, <2>4 DEF n
<1> QED
  BY <1>1, <1>2, <1>3, TypeCorrect, PTL DEF Spec

----------------------------------------------------------------------------
(* The narrative.  Whether a lever is material never changes and an approval *)
(* is never taken back, so what a handler decided before it asked the agent  *)
(* still holds when it writes.                                               *)

Unmarked(text) == text \in {"FINAL", "UNMARKED"}

\* A text that does not say it is a draft may stand on row k of the table A.
Sound(A, k, text) ==
    Unmarked(text) /\ k \in 1..Len(A) /\ A[k] # None /\ A[k].material => A[k].approved

NarrativeInv ==
    /\ \A k \in 1..Len(advice) : Advised(k) => Sound(advice, k, advice[k].narrative)
    /\ \A c \in Clients : h[c].pc = "narrate" =>
          h[c].about \in 1..Len(advice) /\ Sound(advice, h[c].about, h[c].text)

\* The rows of the table A stand in the table B or were removed; whether they
\* are material is the same, and an approved one is approved.
Extends(A, B) ==
    /\ Len(A) \in Nat /\ Len(B) \in Nat /\ Len(A) <= Len(B)
    /\ \A k \in 1..Len(A) : B[k] # None =>
          /\ A[k] # None
          /\ B[k].material = A[k].material
          /\ A[k].approved => B[k].approved

LEMMA SoundStays ==
    ASSUME NEW A, NEW B, Extends(A, B), NEW k \in 1..Len(A), NEW text, Sound(A, k, text)
    PROVE  Sound(B, k, text) /\ k \in 1..Len(B)
BY DEF Extends, Sound

\* One row of the table is written over.
LEMMA RowWritten ==
    ASSUME NEW A \in Seq(Advice \cup {None}), NEW k \in 1..Len(A), A[k] # None,
           NEW r \in Advice, r.material = A[k].material, A[k].approved => r.approved,
           A[k].narrative # r.narrative => Sound(A, k, r.narrative),
           \A j \in 1..Len(A) : A[j] # None => Sound(A, j, A[j].narrative)
    PROVE  LET B == [A EXCEPT ![k] = r]
           IN Extends(A, B) /\ \A j \in 1..Len(B) : B[j] # None => Sound(B, j, B[j].narrative)
<1> DEFINE B == [A EXCEPT ![k] = r]
<1>1. /\ Len(B) = Len(A) /\ Len(A) \in Nat /\ B[k] = r
      /\ \A j \in 1..Len(A) : j # k => B[j] = A[j]
  OBVIOUS
<1> HIDE DEF B
<1>2. Extends(A, B)
  BY <1>1 DEF Extends
<1>3. ASSUME NEW j \in 1..Len(B), B[j] # None PROVE Sound(B, j, B[j].narrative)
  <2>1. CASE j = k
    <3>1. Sound(A, k, A[k].narrative)
      OBVIOUS
    <3> QED
      BY <1>1, <2>1, <3>1 DEF Sound
  <2>2. CASE j # k
    BY <1>1, <1>3, <2>2 DEF Sound
  <2> QED
    BY <2>1, <2>2
<1> QED
  BY <1>2, <1>3 DEF B

LEMMA AdviceStep ==
    ASSUME TypeOK, NarrativeInv, Next
    PROVE  /\ Extends(advice, advice')
           /\ \A k \in 1..Len(advice') : advice'[k] # None => Sound(advice', k, advice'[k].narrative)
<1> DEFINE Goal == /\ Extends(advice, advice')
                   /\ \A k \in 1..Len(advice') : advice'[k] # None =>
                          Sound(advice', k, advice'[k].narrative)
<1>0. /\ advice \in Seq(Advice \cup {None}) /\ Len(advice) \in Nat
      /\ \A k \in 1..Len(advice) : advice[k] # None =>
            advice[k] \in Advice /\ Sound(advice, k, advice[k].narrative)
  BY DEF TypeOK, NarrativeInv, Advised
<1>1. ASSUME UNCHANGED advice PROVE Goal
  BY <1>0, <1>1 DEF Extends, Sound
<1>2. ASSUME NEW k \in 1..Len(advice), advice[k] # None, NEW r \in Advice,
             r.material = advice[k].material, advice[k].approved => r.approved,
             advice[k].narrative # r.narrative => Sound(advice, k, r.narrative),
             advice' = [advice EXCEPT ![k] = r]
      PROVE  Goal
  BY <1>0, <1>2, RowWritten
<1> HIDE DEF Goal
<1>3. ASSUME NEW c \in Clients, AdviceRequest(c) PROVE Goal
  <2>1. ASSUME NEW i, Recommend(c, i) PROVE Goal
    BY <1>1, <2>1 DEF Recommend, rows
  <2>2. ASSUME NEW k, Approve(c, k) PROVE Goal
    <3>1. k \in 1..Len(advice) /\ advice[k] # None /\ advice[k] \in Advice
      BY <1>0, <2>2 DEF Approve, Advised
    <3> DEFINE r == [advice[k] EXCEPT !.approved = TRUE]
    <3>2. /\ r \in Advice /\ r.material = advice[k].material /\ r.approved
          /\ r.narrative = advice[k].narrative
      BY <3>1 DEF Advice
    <3>3. advice' = [advice EXCEPT ![k] = r]
      BY <2>2 DEF Approve
    <3> HIDE DEF r
    <3> QED
      BY <1>2, <3>1, <3>2, <3>3
  <2>3. ASSUME NEW k, NEW final, Narrate(c, k, final) PROVE Goal
    BY <1>1, <2>3 DEF Narrate, rows
  <2>4. ASSUME NEW material \in BOOLEAN, RecommendWrites(c, material) PROVE Goal
    <3> DEFINE r == [on |-> h[c].on, material |-> material, approved |-> FALSE,
                     narrative |-> None]
    <3>1. r.narrative = None /\ r \in Advice
      BY <2>4, LocalsAt DEF TypeOK, RecommendWrites, At, Advice
    <3>2. advice' = Append(advice, r)
      BY <2>4 DEF RecommendWrites
    <3> HIDE DEF r
    <3>3. /\ Len(advice') = Len(advice) + 1
          /\ \A k \in 1..Len(advice) : advice'[k] = advice[k]
          /\ advice'[Len(advice) + 1] = r
      BY <1>0, <3>1, <3>2, AppendProperties
    <3>4. Extends(advice, advice')
      BY <1>0, <3>3 DEF Extends
    <3>5. ASSUME NEW k \in 1..Len(advice'), advice'[k] # None
          PROVE  Sound(advice', k, advice'[k].narrative)
      <4>1. CASE k \in 1..Len(advice)
        BY <1>0, <3>3, <3>5, <4>1 DEF Sound
      <4>2. CASE k = Len(advice) + 1
        <5>1. ~Unmarked(advice'[k].narrative)
          BY <3>1, <3>3, <4>2, RowsAssumption DEF Unmarked
        <5> QED
          BY <5>1 DEF Sound
      <4> QED
        BY <1>0, <3>3, <4>1, <4>2
    <3> QED
      BY <3>4, <3>5 DEF Goal
  <2>5. CASE NarrateWrites(c)
    <3> DEFINE k == h[c].about
    <3>1. CASE ~Advised(k)
      BY <1>1, <2>5, <3>1 DEF NarrateWrites
    <3>2. CASE Advised(k)
      <4>1. /\ k \in 1..Len(advice) /\ advice[k] # None /\ advice[k] \in Advice
            /\ h[c].text \in {"DRAFT", "FINAL", "UNMARKED"} /\ Sound(advice, k, h[c].text)
        BY <1>0, <2>5, <3>2, LocalsAt DEF TypeOK, NarrativeInv, NarrateWrites, At, Advised
      <4> DEFINE r == [advice[k] EXCEPT !.narrative = h[c].text]
      <4>2. /\ r \in Advice /\ r.material = advice[k].material
            /\ r.approved = advice[k].approved /\ r.narrative = h[c].text
        BY <4>1 DEF Advice
      <4>3. advice' = [advice EXCEPT ![k] = r]
        BY <2>5, <3>2 DEF NarrateWrites
      <4> HIDE DEF r
      <4> QED
        BY <1>2, <4>1, <4>2, <4>3
    <3> QED
      BY <3>1, <3>2
  <2> QED
    BY <1>3, <2>1, <2>2, <2>3, <2>4, <2>5 DEF AdviceRequest
<1>4. ASSUME NEW c \in Clients, FactRequest(c) PROVE Goal
  <2>1. ASSUME NEW f, Corroborate(c, f) PROVE Goal
    BY <1>1, <2>1 DEF Corroborate, rows
  <2>2. ASSUME NEW state, CorroborateWrites(c, state) PROVE Goal
    BY <1>1, <2>2 DEF CorroborateWrites
  <2> QED
    BY <1>1, <1>4, <2>1, <2>2 DEF FactRequest, Register, ClearRights, Resolve
<1>5. ASSUME NEW c \in Clients, EstimateRequest(c) PROVE Goal
  <2>1. ASSUME NEW method, NEW s, NEW f, Ask(c, method, s, f) PROVE Goal
    BY <1>1, <2>1 DEF Ask, rows
  <2>2. ASSUME NEW origin, Anchor(c, origin) PROVE Goal
    BY <1>1, <2>2 DEF Anchor, rows
  <2>3. CASE Source(c)
    BY <1>1, <2>3 DEF Source, rows
  <2>4. CASE Simulation(c) \/ Raise(c) \/ Lineage(c) \/ Publish(c)
    BY <1>1, <2>4 DEF Simulation, Raise, Lineage, Publish, rows
  <2> QED
    BY <1>5, <2>1, <2>2, <2>3, <2>4 DEF EstimateRequest
<1>6. ASSUME NEW c \in Clients, Delete(c) \/ Ends(c) PROVE Goal
  BY <1>1, <1>6 DEF Delete, Ends, rows
<1>7. ASSUME NEW c \in Clients, DeleteCommits(c) PROVE Goal
  <2>1. Len(advice') = Len(advice) /\ \A k \in 1..Len(advice) : advice'[k] = None
    BY <1>0, <1>7, NothingLeft DEF DeleteCommits
  <2> QED
    BY <1>0, <2>1 DEF Goal, Extends
<1>8. ASSUME NEW s \in Sims, SimulationSucceeds(s) PROVE Goal
  BY <1>1, <1>8 DEF SimulationSucceeds
<1>9. Goal
  BY <1>3, <1>4, <1>5, <1>6, <1>7, <1>8 DEF Next, CaseRequest
<1> QED
  BY <1>9 DEF Goal

\* What a handler about to write a narrative decided, still holds.
LEMMA NarratorsSound ==
    ASSUME TypeOK, NarrativeInv, Next, NEW e \in Clients, h'[e].pc = "narrate"
    PROVE  h'[e].about \in 1..Len(advice) /\ Sound(advice, h'[e].about, h'[e].text)
<1> DEFINE Good(l) == l.pc = "narrate" =>
                         l.about \in 1..Len(advice) /\ Sound(advice, l.about, l.text)
<1>0. h \in [Clients -> Locals] /\ Good(h[e])
  BY DEF TypeOK, NarrativeInv
<1> HIDE DEF Good
<1>1. ASSUME h' = h PROVE Good(h'[e])
  BY <1>0, <1>1
<1>2. ASSUME NEW c \in Clients, NEW l, Set(c, l), Good(l) PROVE Good(h'[e])
  BY <1>0, <1>2 DEF Set
<1>3. ASSUME NEW c \in Clients, NEW l, Set(c, l), l.pc # "narrate" PROVE Good(h'[e])
  BY <1>2, <1>3 DEF Good
<1>4. Idle.pc # "narrate"
  BY DEF Idle
<1>5. ASSUME NEW c \in Clients, FactRequest(c) PROVE Good(h'[e])
  <2>1. ASSUME NEW f, Corroborate(c, f) PROVE Good(h'[e])
    BY <1>3, <2>1 DEF Corroborate
  <2>2. ASSUME NEW state, CorroborateWrites(c, state) PROVE Good(h'[e])
    BY <1>3, <1>4, <2>2 DEF CorroborateWrites
  <2> QED
    BY <1>1, <1>5, <2>1, <2>2 DEF FactRequest, Register, ClearRights, Resolve
<1>6. ASSUME NEW c \in Clients, EstimateRequest(c) PROVE Good(h'[e])
  <2>1. ASSUME NEW method, NEW s, NEW f, Ask(c, method, s, f) PROVE Good(h'[e])
    BY <1>3, <2>1 DEF Ask
  <2>2. ASSUME NEW origin, Anchor(c, origin) PROVE Good(h'[e])
    BY <1>3, <2>2 DEF Anchor
  <2>3. CASE Source(c)
    BY <1>3, <2>3 DEF Source
  <2>4. CASE Simulation(c) \/ Lineage(c)
    BY <1>3, <2>4 DEF Simulation, Lineage
  <2>5. CASE Raise(c) \/ Publish(c)
    BY <1>3, <1>4, <2>5 DEF Raise, Publish
  <2> QED
    BY <1>6, <2>1, <2>2, <2>3, <2>4, <2>5 DEF EstimateRequest
<1>7. ASSUME NEW c \in Clients, AdviceRequest(c) PROVE Good(h'[e])
  <2>1. ASSUME NEW i, Recommend(c, i) PROVE Good(h'[e])
    BY <1>3, <2>1 DEF Recommend
  <2>2. ASSUME NEW k, Approve(c, k) PROVE Good(h'[e])
    BY <1>1, <2>2 DEF Approve
  <2>3. ASSUME NEW k \in 1..Len(advice), NEW final \in BOOLEAN, Narrate(c, k, final)
        PROVE  Good(h'[e])
    <3> DEFINE l == [pc |-> "narrate", about |-> k, text |-> Text(advice[k], final)]
    <3>1. advice[k] \in Advice /\ ~Refused(advice[k], final)
      BY <2>3 DEF TypeOK, Narrate, Advised
    <3>2. Sound(advice, k, Text(advice[k], final))
      BY <3>1 DEF Sound, Unmarked, Text, Refused, Advice
    <3>3. Good(l)
      BY <3>2 DEF Good
    <3> QED
      BY <1>2, <2>3, <3>3 DEF Narrate
  <2>4. ASSUME NEW material, RecommendWrites(c, material) PROVE Good(h'[e])
    BY <1>3, <1>4, <2>4 DEF RecommendWrites
  <2>5. CASE NarrateWrites(c)
    BY <1>3, <1>4, <2>5 DEF NarrateWrites
  <2> QED
    BY <1>7, <2>1, <2>2, <2>3, <2>4, <2>5 DEF AdviceRequest
<1>8. ASSUME NEW c \in Clients, CaseRequest(c) \/ Ends(c) PROVE Good(h'[e])
  BY <1>3, <1>4, <1>8 DEF CaseRequest, Delete, DeleteCommits, Ends
<1>9. ASSUME NEW s \in Sims, SimulationSucceeds(s) PROVE Good(h'[e])
  BY <1>1, <1>9 DEF SimulationSucceeds
<1>10. Good(h'[e])
  BY <1>5, <1>6, <1>7, <1>8, <1>9 DEF Next
<1> QED
  BY <1>10 DEF Good

\* FinalMeansApproved in every instance: however late the agent answers, a
\* text that is not marked a draft stands on an approved lever.
THEOREM FinalIsApproved == Spec => []FinalMeansApproved
<1>1. Init => NarrativeInv
  BY DEF Init, NarrativeInv, Idle
<1>2. TypeOK /\ NarrativeInv /\ [Next]_vars => NarrativeInv'
  <2>1. ASSUME UNCHANGED vars, NarrativeInv PROVE NarrativeInv'
    BY <2>1 DEF NarrativeInv, Advised, vars, rows
  <2>2. ASSUME TypeOK, NarrativeInv, Next PROVE NarrativeInv'
    <3>1. ASSUME NEW e \in Clients, h'[e].pc = "narrate"
          PROVE  h'[e].about \in 1..Len(advice') /\ Sound(advice', h'[e].about, h'[e].text)
      BY <2>2, <3>1, AdviceStep, NarratorsSound, SoundStays
    <3> QED
      BY <2>2, <3>1, AdviceStep DEF NarrativeInv, Advised
  <2> QED
    BY <2>1, <2>2
<1>3. NarrativeInv => FinalMeansApproved
  BY DEF NarrativeInv, FinalMeansApproved, Sound, Unmarked, Advised
<1> QED
  BY <1>1, <1>2, <1>3, TypeCorrect, PTL DEF Spec
=============================================================================
