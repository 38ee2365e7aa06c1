-------------------------- MODULE StageGateProofs --------------------------
(***************************************************************************)
(* Theorems about the stage gate, for every number of clients, domains,     *)
(* answers and requests.                                                    *)
(***************************************************************************)
EXTENDS StageGateProps, TLAPS

Others(c) == \A b \in Clients : b # c => h'[b] = h[b]

LEMMA WhenSet ==
    ASSUME h \in [Clients -> Locals], NEW c \in Clients, NEW u \in Locals, Set(c, u)
    PROVE  h' \in [Clients -> Locals] /\ Others(c) /\ h'[c] = u
BY DEF Set, Others

\* What a handler holds at each place.
LEMMA LocalsGive ==
    ASSUME NEW u \in Locals
    PROVE  /\ u.pc \in {"create", "prefill", "map", "mapFind", "mapWrite", "research",
                        "researchFind", "researchWrite"} => u.todo \subseteq Domains
           /\ u.pc \in {"map", "mapFind", "mapWrite"} => u.said \in Said
           /\ u.pc \in {"mapFind", "mapWrite", "resolveFind", "resolveWrite", "put",
                        "researchFind", "researchWrite"} => u.d \in Domains
           /\ u.pc \in {"mapFind", "mapWrite", "resolveFind", "resolveWrite", "put"} =>
                 u.seen \in Seq(Rows)
           /\ u.pc \in {"mapFind", "mapWrite"} => u.state \in MappingStates
           /\ u.pc \in {"mapWrite", "resolveWrite", "put", "researchWrite"} => u.target \in Nat
           /\ u.pc \in {"resolveFind", "resolveWrite"} =>
                 u.resolution \in Resolutions /\ u.said \in Answers \cup {None}
           /\ u.pc \in {"research", "researchFind", "researchWrite"} => u.start \in RowSeq
           /\ u.pc \in {"put", "researchFind", "researchWrite"} => u.row \in Rows
           /\ u.pc \in {"estimate?", "dispositions?", "items?", "conflicts?", "facts?",
                        "report"} => u.open \subseteq Conditions
           /\ u.pc \in {"conflicts?", "facts?", "report"} => u.items \subseteq Domains
           /\ u.pc \in {"latest?", "advance"} => u.at \in {"V0", "V1"}
<1> HIDE DEF Said, RowSeq, Rows
<1> QED
  BY SMTT(60) DEF Locals

\* The records that make a handler's locals.
LEMMA LocalsMade ==
    /\ Idle \in Locals
    /\ \A T \in SUBSET Domains :
          /\ [pc |-> "create", todo |-> T] \in Locals
          /\ [pc |-> "prefill", todo |-> T] \in Locals
    /\ \A T \in SUBSET Domains, S \in Said :
          /\ [pc |-> "map", todo |-> T, said |-> S] \in Locals
    /\ \A T \in SUBSET Domains, S \in Said, e \in Domains, m \in MappingStates,
          s \in Seq(Rows), t \in Nat :
          /\ [pc |-> "mapFind", todo |-> T, said |-> S, d |-> e, state |-> m, seen |-> s] \in Locals
          /\ [pc |-> "mapWrite", todo |-> T, said |-> S, d |-> e, state |-> m, seen |-> s,
              target |-> t] \in Locals
    /\ \A e \in Domains, r \in Resolutions, a \in Answers \cup {None}, s \in Seq(Rows), t \in Nat :
          /\ [pc |-> "resolveFind", d |-> e, resolution |-> r, said |-> a, seen |-> s] \in Locals
          /\ [pc |-> "resolveWrite", d |-> e, resolution |-> r, said |-> a, seen |-> s,
              target |-> t] \in Locals
    /\ \A e \in Domains, row \in Rows, s \in Seq(Rows), t \in Nat :
          [pc |-> "put", d |-> e, seen |-> s, target |-> t, row |-> row] \in Locals
    /\ \A T \in SUBSET Domains, S \in RowSeq : [pc |-> "research", todo |-> T, start |-> S] \in Locals
    /\ \A T \in SUBSET Domains, S \in RowSeq, e \in Domains, row \in Rows, t \in Nat :
          /\ [pc |-> "researchFind", todo |-> T, start |-> S, d |-> e, row |-> row] \in Locals
          /\ [pc |-> "researchWrite", todo |-> T, start |-> S, d |-> e, row |-> row,
              target |-> t] \in Locals
    /\ \A o \in SUBSET Conditions, s \in SUBSET Domains :
          /\ \A l \in {"estimate?", "dispositions?", "items?"} : [pc |-> l, open |-> o] \in Locals
          /\ \A l \in {"conflicts?", "facts?", "report"} :
                [pc |-> l, items |-> s, open |-> o] \in Locals
    /\ \A l \in {"latest?", "advance"}, v \in {"V0", "V1"} : [pc |-> l, at |-> v] \in Locals
<1> HIDE DEF Said, RowSeq, Rows, MappingStates, Resolutions, Conditions
<1>1. Idle \in Locals
  BY DEF Idle, Locals
<1> QED
  BY <1>1, SMTT(60) DEF Locals

LEMMA LeftKept ==
    ASSUME TypeOK, NEW c \in Clients, NEW kind \in Kinds, Receive(c, kind)
    PROVE  left' \in [Bounds -> Nat] /\ h[c].pc = "idle"
<1>1. kind # "all" /\ kind \in Bounds /\ "all" \in Bounds
  BY DEF Kinds, Bounds
<1> DEFINE f == [left EXCEPT ![kind] = @ - 1]
<1>2. left \in [Bounds -> Nat] /\ left[kind] > 0 /\ left["all"] > 0 /\ h[c].pc = "idle"
  BY DEF Receive, At, TypeOK
<1>3. f \in [Bounds -> Nat] /\ f["all"] > 0
  BY <1>1, <1>2
<1> DEFINE n == left["all"] - 1
<1>4. left' = [f EXCEPT !["all"] = n]
  BY Zenon DEF Receive
<1>5. n \in Nat
  BY <1>1, <1>2
<1> HIDE DEF f, n
<1> QED
  BY <1>1, <1>2, <1>3, <1>4, <1>5

LEMMA RowWritten ==
    ASSUME NEW s \in Seq(Rows), NEW t \in Nat, NEW row \in Rows
    PROVE  /\ Written(s, t, row) \in Seq(Rows) /\ Written(s, t, row) # <<>>
           /\ DOMAIN s \subseteq DOMAIN Written(s, t, row)
           /\ \A i \in DOMAIN Written(s, t, row) :
                 \/ Written(s, t, row)[i] = row
                 \/ i \in DOMAIN s /\ i # t /\ Written(s, t, row)[i] = s[i]
           /\ t \in DOMAIN s => Len(Written(s, t, row)) = Len(s)
           /\ s = <<>> => Len(Written(s, t, row)) = 1
<1>1. CASE t \in DOMAIN s
  <2> DEFINE w == [i \in DOMAIN s |-> IF i = t THEN row ELSE s[i]]
  <2>1. Written(s, t, row) = w /\ DOMAIN w = DOMAIN s /\ DOMAIN s = 1..Len(s) /\ Len(s) \in Nat
    BY <1>1 DEF Written
  <2>2. w \in [1..Len(s) -> Rows]
    BY <2>1
  <2>3. w \in Seq(Rows)
    BY <2>1, <2>2
  <2>4. Len(w) = Len(s)
    BY <2>1, <2>3
  <2>5. \A i \in DOMAIN s : w[i] = IF i = t THEN row ELSE s[i]
    OBVIOUS
  <2> HIDE DEF w
  <2>6. w # <<>> /\ s # <<>>
    BY <1>1, <2>1, <2>3, <2>4
  <2> QED
    BY <2>1, <2>3, <2>4, <2>5, <2>6
<1>2. CASE t \notin DOMAIN s
  <2>1. Written(s, t, row) = Append(s, row)
    BY <1>2 DEF Written
  <2>2. /\ Append(s, row) \in Seq(Rows) /\ Len(Append(s, row)) = Len(s) + 1
        /\ DOMAIN Append(s, row) = 1..(Len(s) + 1) /\ DOMAIN s = 1..Len(s) /\ Len(s) \in Nat
        /\ Append(s, row)[Len(s) + 1] = row
        /\ \A i \in 1..Len(s) : Append(s, row)[i] = s[i]
    OBVIOUS
  <2>3. Append(s, row) # <<>> /\ (s = <<>> => Len(s) = 0)
    BY <2>2
  <2> DEFINE w == Append(s, row)
  <2>4. \A i \in DOMAIN w : w[i] = row \/ (i \in DOMAIN s /\ i # t /\ w[i] = s[i])
    <3>1. ASSUME NEW i \in DOMAIN w, i # Len(s) + 1 PROVE i \in DOMAIN s /\ i # t
      BY <1>2, <2>2, <3>1
    <3> QED
      BY <2>2, <3>1
  <2>5. DOMAIN s \subseteq DOMAIN w
    BY <2>2
  <2>6. w \in Seq(Rows) /\ w # <<>> /\ (s = <<>> => Len(w) = 1)
    BY <2>2, <2>3
  <2> HIDE DEF w
  <2> QED
    BY <1>2, <2>1, <2>4, <2>5, <2>6 DEF w
<1> QED
  BY <1>1, <1>2

LEMMA Stored ==
    ASSUME TypeOK, NEW d \in Domains, NEW t \in Nat, NEW row \in Rows, NEW seen,
           Store(d, t, row, seen)
    PROVE  /\ rows' \in RowSeq /\ raced' \in SUBSET Domains /\ raced \subseteq raced'
           /\ rows'[d] = Written(rows[d], t, row)
           /\ \A e \in Domains : e # d => rows'[e] = rows[e]
           /\ d \notin raced' => rows[d] = seen
<1>1. rows \in RowSeq /\ Written(rows[d], t, row) \in Seq(Rows)
  BY RowWritten DEF TypeOK, RowSeq
<1> QED
  BY <1>1 DEF Store, TypeOK, RowSeq
----------------------------------------------------------------------------
(* What a handler's locals say of the tables, given as parameters: E the    *)
(* estimate, R the rows, I the items, Q the reports.                        *)

\* An item nothing can take back: answered and mapped.
Fixed(item) == item # None /\ item.answer # None /\ item.mapping # None

Ready(E, R) == E /\ \A d \in Domains : R[d] # <<>>

CompleteIn(report, I) ==
    /\ report.acknowledged /\ report.open = {} /\ report.seen # {}
    /\ \A d \in report.seen : Fixed(I[d])

\* The conditions an assessment has not found open hold from then on.
AssessLocal(u, E, R, I) ==
    /\ u.pc \in {"dispositions?", "items?", "conflicts?", "facts?", "report"} =>
          "estimate" \in u.open \/ E
    /\ u.pc \in {"items?", "conflicts?", "facts?", "report"} =>
          "dispositions" \in u.open \/ \A d \in Domains : R[d] # <<>>
    /\ u.pc \in {"conflicts?", "facts?", "report"} =>
          \/ "questionnaire" \in u.open \/ "mapping" \in u.open
          \/ u.items # {} /\ \A d \in u.items : Fixed(I[d])

AdvanceLocal(u, E, R, I, Q) ==
    u.pc = "advance" => Ready(E, R) /\ \E i \in DOMAIN Q : CompleteIn(Q[i], I)

ItemLocal(u, I) ==
    /\ u.pc \in {"prefill", "map", "mapFind", "mapWrite"} => \A d \in u.todo : I[d] # None
    /\ u.pc \in {"mapFind", "mapWrite", "resolveFind", "resolveWrite"} => I[u.d] # None

\* The rows a handler had seen when it decided what to write.
Seen(u) == IF u.pc \in {"researchFind", "researchWrite"} THEN u.start[u.d] ELSE u.seen

Finding == {"mapFind", "resolveFind", "researchFind"}
Writing == {"mapWrite", "resolveWrite", "put", "researchWrite"}

\* A handler about to store a row.
Storing(u) ==
    \/ u.pc \in {"put", "researchWrite"}
    \/ u.pc = "mapWrite" /\ Upgrades(u.state)
    \/ u.pc = "resolveWrite" /\ u.resolution = "CLIENT_SUPERSEDES_PUBLIC"

RowLocal(u, R) ==
    /\ u.pc \in Finding \cup Writing => Seen(u) = <<>> \/ R[u.d] # <<>>
    /\ u.pc \in Writing => u.target = 0 \/ u.target \in DOMAIN R[u.d]
    /\ Storing(u) /\ u.target = 0 => Seen(u) = <<>>
    /\ u.pc \in {"research", "researchFind", "researchWrite"} =>
          \A d \in u.todo : u.start[d] = <<>> \/ R[d] # <<>>

Unclaimed(s) == \A i \in DOMAIN s : s[i].disposition # "CLIENT_CONFIRMED"

\* What was decided on the rows that were seen.
Decided(u) ==
    /\ u.pc = "put" => u.row.evidence = None
    /\ u.pc = "resolveFind" => u.resolution = "CLIENT_SUPERSEDES_PUBLIC"
    /\ u.pc = "mapFind" => Upgrades(u.state)
    /\ u.pc \in {"mapFind", "mapWrite"} /\ Upgrades(u.state) /\ Len(u.seen) <= 1 =>
          \A i \in DOMAIN u.seen : u.seen[i].disposition # "EVIDENCED_PUBLIC"
    /\ u.pc \in {"research", "researchFind", "researchWrite"} =>
          \A d \in u.todo : Unclaimed(u.start[d])
    /\ u.pc \in {"researchFind", "researchWrite"} =>
          u.row \in Outcomes /\ Unclaimed(u.start[u.d])

Local(u, E, R, I, Q) ==
    /\ AssessLocal(u, E, R, I) /\ AdvanceLocal(u, E, R, I, Q)
    /\ ItemLocal(u, I) /\ RowLocal(u, R) /\ Decided(u)

\* What no step takes back.
Grows ==
    /\ estimated => estimated'
    /\ \A d \in Domains :
          /\ DOMAIN rows[d] \subseteq DOMAIN rows'[d]
          /\ rows[d] # <<>> => rows'[d] # <<>>
          /\ items[d] # None => items'[d] # None
          /\ Fixed(items[d]) => Fixed(items'[d])
    /\ \A i \in DOMAIN reports :
          /\ i \in DOMAIN reports' /\ reports'[i].open = reports[i].open
          /\ reports'[i].seen = reports[i].seen
          /\ reports[i].acknowledged => reports'[i].acknowledged

LEMMA LocalStays ==
    ASSUME TypeOK, Grows, NEW u \in Locals, Local(u, estimated, rows, items, reports)
    PROVE  Local(u, estimated', rows', items', reports')
<1>1. AssessLocal(u, estimated', rows', items')
  BY LocalsGive DEF Local, AssessLocal, Grows
<1>2. AdvanceLocal(u, estimated', rows', items', reports')
  <2> SUFFICES ASSUME u.pc = "advance"
               PROVE  /\ Ready(estimated', rows')
                      /\ \E i \in DOMAIN reports' : CompleteIn(reports'[i], items')
    BY DEF AdvanceLocal
  <2>1. PICK i \in DOMAIN reports : CompleteIn(reports[i], items)
    BY DEF Local, AdvanceLocal
  <2>2. reports[i].seen \subseteq Domains
    <3>1. reports[i] \in Reports
      BY DEF TypeOK
    <3> QED
      BY <3>1 DEF Reports
  <2>3. CompleteIn(reports'[i], items') /\ i \in DOMAIN reports'
    BY <2>1, <2>2 DEF Grows, CompleteIn
  <2> QED
    BY <2>3 DEF Local, AdvanceLocal, Ready, Grows
<1>3. ItemLocal(u, items')
  BY LocalsGive DEF Local, ItemLocal, Grows
<1>4. RowLocal(u, rows')
  <2>1. u.pc \in Finding \cup Writing => u.d \in Domains
    BY LocalsGive DEF Finding, Writing
  <2>2. u.pc \in {"research", "researchFind", "researchWrite"} => u.todo \subseteq Domains
    BY LocalsGive
  <2> QED
    BY <2>1, <2>2 DEF Local, RowLocal, Grows
<1> QED
  BY <1>1, <1>2, <1>3, <1>4 DEF Local

\* What the step of one client establishes.
Stepped(c) == /\ TypeOK' /\ Grows /\ Others(c)
              /\ Local(h'[c], estimated', rows', items', reports')

Inv1 == TypeOK /\ \A c \in Clients : Local(h[c], estimated, rows, items, reports)

\* A step that writes no table.
LEMMA TablesStay ==
    ASSUME TypeOK, UNCHANGED <<stage, estimated, contradicted, rows, items, reports, raced>>,
           h' \in [Clients -> Locals], left' \in [Bounds -> Nat]
    PROVE  TypeOK' /\ Grows
BY DEF TypeOK, Grows

LEMMA IdleLocal ==
    ASSUME NEW E, NEW R, NEW I, NEW Q
    PROVE  Local(Idle, E, R, I, Q)
BY DEF Local, Idle, AssessLocal, AdvanceLocal, ItemLocal, RowLocal, Decided, Finding, Writing,
   Storing

LEMMA ItemWritten ==
    ASSUME TypeOK, NEW d \in Domains, NEW item \in Items, items' = [items EXCEPT ![d] = item],
           Fixed(items[d]) => Fixed(item)
    PROVE  /\ items' \in [Domains -> Items \cup {None}]
           /\ \A e \in Domains : /\ items[e] # None => items'[e] # None
                                 /\ Fixed(items[e]) => Fixed(items'[e])
<1>1. item # None
  BY StageAssumption
<1>2. \A e \in Domains : items'[e] = IF e = d THEN item ELSE items[e]
  BY DEF TypeOK
<1> QED
  BY <1>1, <1>2 DEF TypeOK

\* The steps that only end a handler, or go on with it, and write no table.
LEMMA NothingWritten ==
    ASSUME Inv1, NEW c \in Clients, NEW u \in Locals, Set(c, u),
           UNCHANGED <<stage, estimated, contradicted, rows, items, reports, raced>>,
           left' \in [Bounds -> Nat],
           Local(u, estimated, rows, items, reports)
    PROVE  Stepped(c)
<1>1. h' \in [Clients -> Locals] /\ Others(c) /\ h'[c] = u
  BY WhenSet DEF Inv1, TypeOK
<1>2. TypeOK' /\ Grows
  BY <1>1, TablesStay DEF Inv1
<1> QED
  BY <1>1, <1>2 DEF Stepped

LEMMA LeftTyped == ASSUME Inv1, UNCHANGED left PROVE left' \in [Bounds -> Nat]
BY DEF Inv1, TypeOK

----------------------------------------------------------------------------
(* The questionnaire *)

LEMMA CreateStepped ==
    ASSUME Inv1, NEW c \in Clients, CreateReads(c) \/ CreateInserts(c)
    PROVE  Stepped(c)
<1>1. CASE CreateReads(c)
  <2> DEFINE u == [pc |-> "create", todo |-> Domains \ Present]
  <2>1. u \in Locals /\ u.pc = "create"
    BY LocalsMade
  <2>2. left' \in [Bounds -> Nat]
    BY <1>1, LeftKept DEF CreateReads, Inv1, Kinds
  <2>3. /\ Set(c, u)
        /\ UNCHANGED <<stage, estimated, contradicted, rows, items, reports, raced>>
    BY <1>1 DEF CreateReads
  <2> HIDE DEF u
  <2>4. Local(u, estimated, rows, items, reports)
    BY <2>1 DEF Local, AssessLocal, AdvanceLocal, ItemLocal, RowLocal, Decided, Finding, Writing,
       Storing
  <2> QED
    BY <2>1, <2>2, <2>3, <2>4, NothingWritten
<1>2. CASE CreateInserts(c)
  <2> DEFINE blank == [answer |-> None, prefilled |-> FALSE, mapping |-> None, resolution |-> None]
  <2>1. PICK d \in h[c].todo :
          /\ items' = IF items[d] # None THEN items ELSE [items EXCEPT ![d] = blank]
          /\ Set(c, [pc |-> "create", todo |-> h[c].todo \ {d}])
    BY <1>2 DEF CreateInserts
  <2>2. /\ h[c].pc = "create" /\ h[c] \in Locals
        /\ UNCHANGED <<stage, estimated, contradicted, rows, reports, left, raced>>
    BY <1>2 DEF CreateInserts, At, Inv1, TypeOK
  <2>3. h[c].todo \subseteq Domains
    BY <2>2, LocalsGive
  <2> DEFINE u == [pc |-> "create", todo |-> h[c].todo \ {d}]
  <2>4. u \in Locals /\ u.pc = "create" /\ Set(c, u)
    BY <2>1, <2>3, LocalsMade
  <2> HIDE DEF u
  <2>5. h' \in [Clients -> Locals] /\ Others(c) /\ h'[c] = u
    BY <2>4, WhenSet DEF Inv1, TypeOK
  <2>6. /\ items' \in [Domains -> Items \cup {None}]
        /\ \A e \in Domains : /\ items[e] # None => items'[e] # None
                              /\ Fixed(items[e]) => Fixed(items'[e])
    <3>1. CASE items[d] # None
      BY <2>1, <3>1 DEF Inv1, TypeOK
    <3>2. CASE items[d] = None
      <4>1. blank \in Items /\ items' = [items EXCEPT ![d] = blank] /\ d \in Domains
        BY <2>1, <2>3, <3>2 DEF Items
      <4>2. Fixed(items[d]) => Fixed(blank)
        BY <3>2 DEF Fixed
      <4> HIDE DEF blank
      <4> QED
        BY <4>1, <4>2, ItemWritten DEF Inv1
    <3> QED
      BY <3>1, <3>2
  <2>7. Local(u, estimated', rows', items', reports')
    BY <2>4 DEF Local, AssessLocal, AdvanceLocal, ItemLocal, RowLocal, Decided, Finding, Writing,
       Storing
  <2>8. TypeOK' /\ Grows
    BY <2>2, <2>5, <2>6 DEF Inv1, TypeOK, Grows
  <2> QED
    BY <2>5, <2>7, <2>8 DEF Stepped
<1> QED
  BY <1>1, <1>2

\* The tables keep to their ranges.
Tables ==
    /\ stage \in {"V0", "V1"} /\ estimated \in BOOLEAN /\ contradicted \in BOOLEAN
    /\ rows \in RowSeq
    /\ items \in [Domains -> Items \cup {None}]
    /\ reports \in Seq(Reports)
    /\ raced \in SUBSET Domains

LEMMA TablesTyped == ASSUME Inv1 PROVE Tables /\ h \in [Clients -> Locals] /\ left \in [Bounds -> Nat]
BY DEF Inv1, TypeOK, Tables

LEMMA StepMade ==
    ASSUME Inv1, NEW c \in Clients, NEW u \in Locals, Set(c, u), Tables', left' \in [Bounds -> Nat],
           Grows, Local(u, estimated, rows, items, reports)
    PROVE  Stepped(c)
<1>1. h' \in [Clients -> Locals] /\ Others(c) /\ h'[c] = u
  BY WhenSet DEF Inv1, TypeOK
<1>2. Local(u, estimated', rows', items', reports')
  BY LocalStays DEF Inv1
<1> QED
  BY <1>1, <1>2 DEF Stepped, Tables, TypeOK

LEMMA StepBeside ==
    ASSUME Inv1, NEW c \in Clients, UNCHANGED h, Tables', left' \in [Bounds -> Nat], Grows
    PROVE  Stepped(c)
<1>1. h' \in [Clients -> Locals] /\ Others(c) /\ h'[c] = h[c] /\ h[c] \in Locals
  BY DEF Inv1, TypeOK, Others
<1>2. Local(h[c], estimated', rows', items', reports')
  BY <1>1, LocalStays DEF Inv1
<1> QED
  BY <1>1, <1>2 DEF Stepped, Tables, TypeOK

\* A step that writes one item.
LEMMA ItemTables ==
    ASSUME Inv1, NEW d \in Domains, NEW item \in Items, items' = [items EXCEPT ![d] = item],
           Fixed(items[d]) => Fixed(item),
           UNCHANGED <<stage, estimated, contradicted, rows, reports, raced>>
    PROVE  Tables' /\ Grows
<1>1. /\ items' \in [Domains -> Items \cup {None}]
      /\ \A e \in Domains : /\ items[e] # None => items'[e] # None
                            /\ Fixed(items[e]) => Fixed(items'[e])
  BY ItemWritten DEF Inv1
<1> QED
  BY <1>1 DEF Inv1, TypeOK, Tables, Grows

\* A step that stores one row, and may write the item of its domain.
LEMMA RowTables ==
    ASSUME Inv1, NEW d \in Domains, NEW t \in Nat, NEW row \in Rows, NEW seen,
           Store(d, t, row, seen),
           items' \in [Domains -> Items \cup {None}],
           \A e \in Domains : /\ items[e] # None => items'[e] # None
                              /\ Fixed(items[e]) => Fixed(items'[e]),
           UNCHANGED <<stage, estimated, contradicted, reports>>
    PROVE  Tables' /\ Grows
<1>1. rows[d] \in Seq(Rows)
  BY DEF Inv1, TypeOK, RowSeq
<1>2. \A e \in Domains : DOMAIN rows[e] \subseteq DOMAIN rows'[e] /\ (rows[e] # <<>> => rows'[e] # <<>>)
  <2>1. rows'[d] = Written(rows[d], t, row) /\ \A e \in Domains : e # d => rows'[e] = rows[e]
    BY Stored DEF Inv1
  <2>2. /\ Written(rows[d], t, row) # <<>>
        /\ DOMAIN rows[d] \subseteq DOMAIN Written(rows[d], t, row)
    BY <1>1, RowWritten
  <2> QED
    BY <2>1, <2>2
<1>3. rows' \in RowSeq /\ raced' \in SUBSET Domains
  BY Stored DEF Inv1
<1> QED
  BY <1>2, <1>3 DEF Inv1, TypeOK, Tables, Grows

LEMMA TablesSame ==
    ASSUME Inv1, UNCHANGED <<stage, estimated, contradicted, rows, items, reports, raced>>
    PROVE  Tables' /\ Grows
BY DEF Inv1, TypeOK, Tables, Grows

LEMMA KindTaken ==
    ASSUME Inv1, NEW c \in Clients, NEW kind \in Kinds, Receive(c, kind)
    PROVE  left' \in [Bounds -> Nat]
BY LeftKept DEF Inv1

LEMMA ItemThere ==
    ASSUME Inv1, NEW d \in Domains, items[d] # None
    PROVE  items[d] \in Items
BY DEF Inv1, TypeOK

LEMMA PrefillStepped ==
    ASSUME Inv1, NEW c \in Clients, PrefillReads(c) \/ PrefillProposes(c)
    PROVE  Stepped(c)
<1>1. CASE PrefillReads(c)
  <2> DEFINE u == [pc |-> "prefill", todo |-> Present \ Answered]
  <2>1. u \in Locals /\ u.pc = "prefill" /\ \A d \in u.todo : items[d] # None
    BY LocalsMade DEF Present
  <2>2. left' \in [Bounds -> Nat]
    BY <1>1, KindTaken DEF PrefillReads, Kinds
  <2>3. Set(c, u) /\ Tables' /\ Grows
    BY <1>1, TablesSame DEF PrefillReads
  <2> HIDE DEF u
  <2>4. Local(u, estimated, rows, items, reports)
    BY <2>1 DEF Local, AssessLocal, AdvanceLocal, ItemLocal, RowLocal, Decided, Finding, Writing,
       Storing
  <2> QED
    BY <2>1, <2>2, <2>3, <2>4, StepMade
<1>2. CASE PrefillProposes(c)
  <2>1. /\ h[c].pc = "prefill" /\ h[c] \in Locals
        /\ UNCHANGED <<stage, estimated, contradicted, rows, reports, left, raced>>
    BY <1>2 DEF PrefillProposes, At, Inv1, TypeOK
  <2> PICK d \in h[c].todo : \E called \in BOOLEAN, i \in Found(d) :
          /\ items' = IF called
                      THEN [items EXCEPT ![d] = [answer |-> items[d].answer,
                               prefilled |-> i # 0 /\ Public(rows[d][i]),
                               mapping |-> items[d].mapping,
                               resolution |-> items[d].resolution]]
                      ELSE items
          /\ Set(c, [pc |-> "prefill", todo |-> h[c].todo \ {d}])
    BY <1>2 DEF PrefillProposes
  <2>2. PICK called \in BOOLEAN, i \in Found(d) :
          /\ items' = IF called
                      THEN [items EXCEPT ![d] = [answer |-> items[d].answer,
                               prefilled |-> i # 0 /\ Public(rows[d][i]),
                               mapping |-> items[d].mapping,
                               resolution |-> items[d].resolution]]
                      ELSE items
          /\ Set(c, [pc |-> "prefill", todo |-> h[c].todo \ {d}])
    OBVIOUS
  <2>3. h[c].todo \subseteq Domains /\ \A e \in h[c].todo : items[e] # None
    BY <2>1, LocalsGive DEF Inv1, Local, ItemLocal
  <2> DEFINE u == [pc |-> "prefill", todo |-> h[c].todo \ {d}]
             shown == i # 0 /\ Public(rows[d][i])
             item == [answer |-> items[d].answer, prefilled |-> shown,
                      mapping |-> items[d].mapping, resolution |-> items[d].resolution]
  <2>4. u \in Locals /\ u.pc = "prefill" /\ Set(c, u) /\ \A e \in u.todo : items[e] # None
    BY <2>2, <2>3, LocalsMade
  <2> HIDE DEF u
  <2>5. Tables' /\ Grows
    <3>1. CASE called
      <4>1. items[d] \in Items /\ d \in Domains
        BY <2>3, ItemThere
      <4>2. shown \in BOOLEAN
        OBVIOUS
      <4>3. items' = [items EXCEPT ![d] = item]
        BY <2>2, <3>1
      <4> HIDE DEF shown
      <4>4. item \in Items /\ (Fixed(items[d]) => Fixed(item))
        <5>1. item # None
          BY <4>1, <4>2, StageAssumption DEF Items
        <5> QED
          BY <4>1, <4>2, <5>1 DEF Items, Fixed
      <4> HIDE DEF item
      <4> QED
        BY <2>1, <4>1, <4>3, <4>4, ItemTables
    <3>2. CASE ~called
      BY <2>1, <2>2, <3>2, TablesSame
    <3> QED
      BY <3>1, <3>2
  <2>6. Local(u, estimated, rows, items, reports)
    BY <2>4 DEF Local, AssessLocal, AdvanceLocal, ItemLocal, RowLocal, Decided, Finding, Writing,
       Storing
  <2>7. left' \in [Bounds -> Nat]
    BY <2>1, LeftTyped
  <2> QED
    BY <2>4, <2>5, <2>6, <2>7, StepMade
<1> QED
  BY <1>1, <1>2

LEMMA AnswerStepped ==
    ASSUME Inv1, NEW c \in Clients, NEW d \in Domains, NEW said \in Answers, Answer(c, d, said)
    PROVE  Stepped(c)
<1> DEFINE item == [answer |-> said, prefilled |-> items[d].prefilled,
                    mapping |-> items[d].mapping, resolution |-> items[d].resolution]
<1>1. items[d] \in Items
  BY ItemThere DEF Answer, Present
<1>2. item \in Items /\ (Fixed(items[d]) => Fixed(item))
  <2>1. item \in Items /\ said # None
    BY <1>1, StageAssumption DEF Items
  <2> QED
    BY <2>1, StageAssumption DEF Fixed
<1>3. /\ items' = [items EXCEPT ![d] = item]
      /\ UNCHANGED <<stage, estimated, contradicted, rows, reports, h, raced>>
  BY DEF Answer
<1>4. left' \in [Bounds -> Nat]
  BY KindTaken DEF Answer, Kinds
<1> HIDE DEF item
<1>5. Tables' /\ Grows
  BY <1>2, <1>3, ItemTables
<1> QED
  BY <1>3, <1>4, <1>5, StepBeside

----------------------------------------------------------------------------
(* Mapping *)

LEMMA AtPlace ==
    ASSUME Inv1, NEW c \in Clients
    PROVE  h[c] \in Locals /\ Local(h[c], estimated, rows, items, reports)
BY DEF Inv1, TypeOK

LEMMA FoundRow ==
    ASSUME Inv1, NEW d \in Domains, NEW i \in Found(d)
    PROVE  /\ i \in Nat /\ rows[d] \in Seq(Rows)
           /\ i = 0 <=> rows[d] = <<>>
           /\ i # 0 => i \in DOMAIN rows[d] /\ rows[d][i] \in Rows
<1>1. rows[d] \in Seq(Rows)
  BY DEF Inv1, TypeOK, RowSeq
<1>2. DOMAIN rows[d] = 1..Len(rows[d]) /\ Len(rows[d]) \in Nat
  BY <1>1
<1>3. rows[d] = <<>> => DOMAIN rows[d] = {}
  OBVIOUS
<1> QED
  BY <1>1, <1>2, <1>3 DEF Found

LEMMA ClientRowTyped == ASSUME NEW said \in Answers \cup {None} PROVE ClientRow(said) \in Rows
BY DEF ClientRow, Rows, Dispositions

LEMMA MapReadsStepped == ASSUME Inv1, NEW c \in Clients, MapReads(c) PROVE Stepped(c)
<1> DEFINE S == [d \in Domains |-> IF d \in Answered THEN items[d].answer ELSE None]
           u == [pc |-> "map", todo |-> Answered, said |-> S]
<1>1. S \in Said
  BY ItemThere DEF Said, Answered, Present, Items
<1>2. Set(c, u) /\ Tables' /\ Grows
  BY TablesSame DEF MapReads
<1> HIDE DEF S
<1>3. u \in Locals /\ u.pc = "map" /\ \A d \in u.todo : items[d] # None
  BY <1>1, LocalsMade DEF Answered, Present
<1>4. left' \in [Bounds -> Nat]
  BY KindTaken DEF MapReads, Kinds
<1> HIDE DEF u
<1>5. Local(u, estimated, rows, items, reports)
  BY <1>3 DEF Local, AssessLocal, AdvanceLocal, ItemLocal, RowLocal, Decided, Finding, Writing,
     Storing
<1> QED
  BY <1>2, <1>3, <1>4, <1>5, StepMade

LEMMA Judged ==
    ASSUME NEW x \in Dispositions \cup {None}
    PROVE  /\ JudgedAs(x) \in MappingStates
           /\ Upgrades(JudgedAs(x)) => x # "EVIDENCED_PUBLIC"
BY StageAssumption DEF JudgedAs, MappingStates, Upgrades, Dispositions

LEMMA MapJudgesStepped == ASSUME Inv1, NEW c \in Clients, MapJudges(c) PROVE Stepped(c)
<1>1. /\ h[c].pc = "map" /\ h[c] \in Locals /\ ItemLocal(h[c], items)
      /\ UNCHANGED <<stage, estimated, contradicted, rows, items, reports, left, raced>>
  BY AtPlace DEF MapJudges, At, Local
<1>2. h[c].todo \subseteq Domains /\ h[c].said \in Said /\ \A e \in h[c].todo : items[e] # None
  BY <1>1, LocalsGive DEF ItemLocal
<1>3. PICK d \in h[c].todo : \E i \in Found(d) :
          LET state == JudgedAs(IF i = 0 THEN None ELSE rows[d][i].disposition)
              todo == h[c].todo \ {d}
          IN Set(c, IF Upgrades(state)
                    THEN [pc |-> "mapFind", todo |-> todo, said |-> h[c].said, d |-> d,
                          state |-> state, seen |-> rows[d]]
                    ELSE [pc |-> "mapWrite", todo |-> todo, said |-> h[c].said, d |-> d,
                          state |-> state, seen |-> rows[d], target |-> 0])
  BY DEF MapJudges
<1> PICK i \in Found(d) :
          LET state == JudgedAs(IF i = 0 THEN None ELSE rows[d][i].disposition)
              todo == h[c].todo \ {d}
          IN Set(c, IF Upgrades(state)
                    THEN [pc |-> "mapFind", todo |-> todo, said |-> h[c].said, d |-> d,
                          state |-> state, seen |-> rows[d]]
                    ELSE [pc |-> "mapWrite", todo |-> todo, said |-> h[c].said, d |-> d,
                          state |-> state, seen |-> rows[d], target |-> 0])
  BY <1>3
<1> DEFINE x == IF i = 0 THEN None ELSE rows[d][i].disposition
           state == JudgedAs(x)
           todo == h[c].todo \ {d}
           go == [pc |-> "mapFind", todo |-> todo, said |-> h[c].said, d |-> d,
                  state |-> state, seen |-> rows[d]]
           refuse == [pc |-> "mapWrite", todo |-> todo, said |-> h[c].said, d |-> d,
                      state |-> state, seen |-> rows[d], target |-> 0]
<1>4. d \in Domains /\ items[d] # None /\ rows[d] \in Seq(Rows)
  BY <1>2, FoundRow
<1>5. x \in Dispositions \cup {None}
  BY <1>4, FoundRow DEF Rows
<1>6. state \in MappingStates /\ (Upgrades(state) => x # "EVIDENCED_PUBLIC")
  BY <1>5, Judged
<1>7. Upgrades(state) /\ Len(rows[d]) <= 1 =>
         \A j \in DOMAIN rows[d] : rows[d][j].disposition # "EVIDENCED_PUBLIC"
  <2> SUFFICES ASSUME Upgrades(state), Len(rows[d]) <= 1, NEW j \in DOMAIN rows[d]
               PROVE  rows[d][j].disposition # "EVIDENCED_PUBLIC"
    OBVIOUS
  <2>1. i # 0
    BY <1>4, FoundRow
  <2>2. i \in DOMAIN rows[d] /\ DOMAIN rows[d] = 1..Len(rows[d]) /\ Len(rows[d]) \in Nat
    BY <1>4, <2>1, FoundRow
  <2>3. i = 1 /\ j = 1
    BY <2>2
  <2> QED
    BY <1>6, <2>1, <2>3
<1>8. Set(c, IF Upgrades(state) THEN go ELSE refuse)
  OBVIOUS
<1> HIDE DEF state
<1>9. /\ go \in Locals /\ go.pc = "mapFind" /\ go.todo \subseteq h[c].todo /\ go.d = d
      /\ go.seen = rows[d] /\ go.state = state
  BY <1>2, <1>4, <1>6, LocalsMade
<1>10. /\ refuse \in Locals /\ refuse.pc = "mapWrite" /\ refuse.todo \subseteq h[c].todo
       /\ refuse.d = d /\ refuse.seen = rows[d] /\ refuse.state = state /\ refuse.target = 0
  BY <1>2, <1>4, <1>6, LocalsMade
<1> HIDE DEF go, refuse
<1>11. Upgrades(state) => Local(go, estimated, rows, items, reports)
  BY <1>2, <1>4, <1>7, <1>9 DEF Local, AssessLocal, AdvanceLocal, ItemLocal, RowLocal, Decided,
     Finding, Writing, Storing, Seen
<1>12. ~Upgrades(state) => Local(refuse, estimated, rows, items, reports)
  BY <1>2, <1>4, <1>10 DEF Local, AssessLocal, AdvanceLocal, ItemLocal, RowLocal, Decided,
     Finding, Writing, Storing, Seen
<1>13. Tables' /\ Grows /\ left' \in [Bounds -> Nat]
  BY <1>1, TablesSame, LeftTyped
<1> QED
  BY <1>8, <1>9, <1>10, <1>11, <1>12, <1>13, StepMade

LEMMA MapFindsStepped == ASSUME Inv1, NEW c \in Clients, MapFinds(c) PROVE Stepped(c)
<1>1. /\ h[c].pc = "mapFind" /\ h[c] \in Locals /\ Local(h[c], estimated, rows, items, reports)
      /\ UNCHANGED <<stage, estimated, contradicted, rows, items, reports, left, raced>>
  BY AtPlace DEF MapFinds, At
<1>2. /\ h[c].todo \subseteq Domains /\ h[c].said \in Said /\ h[c].d \in Domains
      /\ h[c].state \in MappingStates /\ h[c].seen \in Seq(Rows)
  BY <1>1, LocalsGive
<1>3. PICK i \in Found(h[c].d) :
          Set(c, [pc |-> "mapWrite", todo |-> h[c].todo, said |-> h[c].said, d |-> h[c].d,
                  state |-> h[c].state, seen |-> h[c].seen, target |-> i])
  BY DEF MapFinds
<1> DEFINE u == [pc |-> "mapWrite", todo |-> h[c].todo, said |-> h[c].said, d |-> h[c].d,
                 state |-> h[c].state, seen |-> h[c].seen, target |-> i]
<1>4. /\ i \in Nat /\ (i = 0 <=> rows[h[c].d] = <<>>) /\ (i # 0 => i \in DOMAIN rows[h[c].d])
  BY <1>2, FoundRow
<1>5. /\ u \in Locals /\ u.pc = "mapWrite" /\ u.todo = h[c].todo /\ u.said = h[c].said
      /\ u.d = h[c].d /\ u.state = h[c].state /\ u.seen = h[c].seen /\ u.target = i
      /\ Set(c, u)
  BY <1>2, <1>3, <1>4, LocalsMade
<1> HIDE DEF u
<1>6. Local(u, estimated, rows, items, reports)
  BY <1>1, <1>4, <1>5 DEF Local, AssessLocal, AdvanceLocal, ItemLocal, RowLocal, Decided,
     Finding, Writing, Storing, Seen
<1>7. Tables' /\ Grows /\ left' \in [Bounds -> Nat]
  BY <1>1, TablesSame, LeftTyped
<1> QED
  BY <1>5, <1>6, <1>7, StepMade

LEMMA MapWritesStepped == ASSUME Inv1, NEW c \in Clients, MapWrites(c) PROVE Stepped(c)
<1> DEFINE d == h[c].d
           item == [answer |-> items[d].answer, prefilled |-> items[d].prefilled,
                    mapping |-> h[c].state, resolution |-> items[d].resolution]
           u == [pc |-> "map", todo |-> h[c].todo, said |-> h[c].said]
<1>1. /\ h[c].pc = "mapWrite" /\ h[c] \in Locals /\ Local(h[c], estimated, rows, items, reports)
      /\ UNCHANGED <<stage, estimated, contradicted, reports, left>>
      /\ items' = [items EXCEPT ![d] = item] /\ Set(c, u)
  BY AtPlace DEF MapWrites, At
<1>2. /\ h[c].todo \subseteq Domains /\ h[c].said \in Said /\ d \in Domains
      /\ h[c].state \in MappingStates /\ h[c].target \in Nat
  BY <1>1, LocalsGive
<1>3. items[d] \in Items
  BY <1>1, <1>2, ItemThere DEF Local, ItemLocal
<1>4. item \in Items /\ (Fixed(items[d]) => Fixed(item))
  <2>1. item \in Items /\ h[c].state # None
    BY <1>2, <1>3, StageAssumption DEF Items
  <2> QED
    BY <2>1, StageAssumption DEF Fixed
<1>5. u \in Locals /\ u.pc = "map" /\ u.todo = h[c].todo
  BY <1>2, LocalsMade
<1> HIDE DEF item, u
<1>6. Local(u, estimated, rows, items, reports)
  BY <1>1, <1>5 DEF Local, AssessLocal, AdvanceLocal, ItemLocal, RowLocal, Decided,
     Finding, Writing, Storing
<1>7. Tables' /\ Grows
  <2>1. CASE Upgrades(h[c].state)
    <3>1. Store(d, h[c].target, ClientRow(h[c].said[d]), h[c].seen)
      BY <2>1 DEF MapWrites
    <3>2. ClientRow(h[c].said[d]) \in Rows
      BY <1>2, ClientRowTyped DEF Said
    <3>3. /\ items' \in [Domains -> Items \cup {None}]
          /\ \A e \in Domains : /\ items[e] # None => items'[e] # None
                                /\ Fixed(items[e]) => Fixed(items'[e])
      BY <1>1, <1>2, <1>4, ItemWritten DEF Inv1
    <3> QED
      BY <1>1, <1>2, <3>1, <3>2, <3>3, RowTables
  <2>2. CASE ~Upgrades(h[c].state)
    <3>1. UNCHANGED <<rows, raced>>
      BY <2>2 DEF MapWrites
    <3> QED
      BY <1>1, <1>2, <1>4, <3>1, ItemTables
  <2> QED
    BY <2>1, <2>2
<1>8. left' \in [Bounds -> Nat]
  BY <1>1, LeftTyped
<1> QED
  BY <1>1, <1>5, <1>6, <1>7, <1>8, StepMade

LEMMA ResolveReadsStepped ==
    ASSUME Inv1, NEW c \in Clients, NEW d \in Domains, NEW resolution \in Resolutions,
           ResolveReads(c, d, resolution)
    PROVE  Stepped(c)
<1> DEFINE supersedes == resolution = "CLIENT_SUPERSEDES_PUBLIC"
           go == [pc |-> "resolveFind", d |-> d, resolution |-> resolution,
                  said |-> items[d].answer, seen |-> rows[d]]
           keep == [pc |-> "resolveWrite", d |-> d, resolution |-> resolution,
                    said |-> items[d].answer, seen |-> rows[d], target |-> 0]
<1>1. items[d] # None /\ items[d].answer \in Answers \cup {None} /\ rows[d] \in Seq(Rows)
  BY ItemThere DEF ResolveReads, Present, Items, Inv1, TypeOK, RowSeq
<1>2. /\ go \in Locals /\ go.pc = "resolveFind" /\ go.d = d /\ go.seen = rows[d]
      /\ go.resolution = resolution
  BY <1>1, LocalsMade
<1>3. /\ keep \in Locals /\ keep.pc = "resolveWrite" /\ keep.d = d /\ keep.seen = rows[d]
      /\ keep.resolution = resolution /\ keep.target = 0
  BY <1>1, LocalsMade
<1>4. Set(c, IF supersedes THEN go ELSE keep)
  BY DEF ResolveReads
<1> HIDE DEF go, keep
<1>5. supersedes => Local(go, estimated, rows, items, reports)
  BY <1>1, <1>2 DEF Local, AssessLocal, AdvanceLocal, ItemLocal, RowLocal, Decided, Finding,
     Writing, Storing, Seen
<1>6. ~supersedes => Local(keep, estimated, rows, items, reports)
  BY <1>1, <1>3 DEF Local, AssessLocal, AdvanceLocal, ItemLocal, RowLocal, Decided, Finding,
     Writing, Storing, Seen
<1>7. Tables' /\ Grows /\ left' \in [Bounds -> Nat]
  BY TablesSame, KindTaken DEF ResolveReads, Kinds
<1> QED
  BY <1>2, <1>3, <1>4, <1>5, <1>6, <1>7, StepMade

LEMMA ResolveFindsStepped == ASSUME Inv1, NEW c \in Clients, ResolveFinds(c) PROVE Stepped(c)
<1>1. /\ h[c].pc = "resolveFind" /\ h[c] \in Locals /\ Local(h[c], estimated, rows, items, reports)
      /\ UNCHANGED <<stage, estimated, contradicted, rows, items, reports, left, raced>>
  BY AtPlace DEF ResolveFinds, At
<1>2. /\ h[c].d \in Domains /\ h[c].resolution \in Resolutions
      /\ h[c].said \in Answers \cup {None} /\ h[c].seen \in Seq(Rows)
  BY <1>1, LocalsGive
<1>3. PICK i \in Found(h[c].d) :
          Set(c, [pc |-> "resolveWrite", d |-> h[c].d, resolution |-> h[c].resolution,
                  said |-> h[c].said, seen |-> h[c].seen, target |-> i])
  BY DEF ResolveFinds
<1> DEFINE u == [pc |-> "resolveWrite", d |-> h[c].d, resolution |-> h[c].resolution,
                 said |-> h[c].said, seen |-> h[c].seen, target |-> i]
<1>4. /\ i \in Nat /\ (i = 0 <=> rows[h[c].d] = <<>>) /\ (i # 0 => i \in DOMAIN rows[h[c].d])
  BY <1>2, FoundRow
<1>5. /\ u \in Locals /\ u.pc = "resolveWrite" /\ u.d = h[c].d /\ u.seen = h[c].seen
      /\ u.target = i /\ Set(c, u)
  BY <1>2, <1>3, <1>4, LocalsMade
<1> HIDE DEF u
<1>6. Local(u, estimated, rows, items, reports)
  BY <1>1, <1>4, <1>5 DEF Local, AssessLocal, AdvanceLocal, ItemLocal, RowLocal, Decided,
     Finding, Writing, Storing, Seen
<1>7. Tables' /\ Grows /\ left' \in [Bounds -> Nat]
  BY <1>1, TablesSame, LeftTyped
<1> QED
  BY <1>5, <1>6, <1>7, StepMade

LEMMA ResolveWritesStepped == ASSUME Inv1, NEW c \in Clients, ResolveWrites(c) PROVE Stepped(c)
<1> DEFINE d == h[c].d
           item == [answer |-> items[d].answer, prefilled |-> items[d].prefilled,
                    mapping |-> items[d].mapping, resolution |-> h[c].resolution]
<1>1. /\ h[c].pc = "resolveWrite" /\ h[c] \in Locals /\ Local(h[c], estimated, rows, items, reports)
      /\ UNCHANGED <<stage, estimated, contradicted, reports, left>>
      /\ items' = [items EXCEPT ![d] = item] /\ Set(c, Idle)
  BY AtPlace DEF ResolveWrites, At, Finish
<1>2. /\ d \in Domains /\ h[c].resolution \in Resolutions /\ h[c].said \in Answers \cup {None}
      /\ h[c].target \in Nat
  BY <1>1, LocalsGive
<1>3. items[d] \in Items
  BY <1>1, <1>2, ItemThere DEF Local, ItemLocal
<1>4. item \in Items /\ (Fixed(items[d]) => Fixed(item))
  <2>1. item \in Items
    BY <1>2, <1>3 DEF Items
  <2> QED
    BY <2>1, StageAssumption DEF Fixed
<1> HIDE DEF item
<1>5. Tables' /\ Grows
  <2>1. CASE h[c].resolution = "CLIENT_SUPERSEDES_PUBLIC"
    <3>1. Store(d, h[c].target, ClientRow(h[c].said), h[c].seen)
      BY <2>1 DEF ResolveWrites
    <3>2. ClientRow(h[c].said) \in Rows
      BY <1>2, ClientRowTyped
    <3>3. /\ items' \in [Domains -> Items \cup {None}]
          /\ \A e \in Domains : /\ items[e] # None => items'[e] # None
                                /\ Fixed(items[e]) => Fixed(items'[e])
      BY <1>1, <1>2, <1>4, ItemWritten DEF Inv1
    <3> QED
      BY <1>1, <1>2, <3>1, <3>2, <3>3, RowTables
  <2>2. CASE h[c].resolution # "CLIENT_SUPERSEDES_PUBLIC"
    <3>1. UNCHANGED <<rows, raced>>
      BY <2>2 DEF ResolveWrites
    <3> QED
      BY <1>1, <1>2, <1>4, <3>1, ItemTables
  <2> QED
    BY <2>1, <2>2
<1>6. left' \in [Bounds -> Nat] /\ Idle \in Locals
  BY <1>1, LeftTyped, LocalsMade
<1> QED
  BY <1>1, <1>5, <1>6, IdleLocal, StepMade

----------------------------------------------------------------------------
(* A manual save *)

LEMMA PutReadsStepped ==
    ASSUME Inv1, NEW c \in Clients, NEW d \in Domains, NEW x \in Dispositions, NEW valid \in BOOLEAN,
           PutReads(c, d, x, valid)
    PROVE  Stepped(c)
<1> DEFINE row == [disposition |-> x, valid |-> valid, evidence |-> None]
<1>1. PICK i \in Found(d) : Set(c, [pc |-> "put", d |-> d, seen |-> rows[d], target |-> i, row |-> row])
  BY DEF PutReads
<1> DEFINE u == [pc |-> "put", d |-> d, seen |-> rows[d], target |-> i, row |-> row]
<1>2. /\ i \in Nat /\ rows[d] \in Seq(Rows) /\ (i = 0 <=> rows[d] = <<>>)
      /\ (i # 0 => i \in DOMAIN rows[d])
  BY FoundRow
<1>3. row \in Rows /\ row.evidence = None
  BY DEF Rows
<1> HIDE DEF row
<1>4. /\ u \in Locals /\ u.pc = "put" /\ u.d = d /\ u.seen = rows[d] /\ u.target = i /\ u.row = row
      /\ Set(c, u)
  BY <1>1, <1>2, <1>3, LocalsMade
<1> HIDE DEF u
<1>5. Local(u, estimated, rows, items, reports)
  BY <1>2, <1>3, <1>4 DEF Local, AssessLocal, AdvanceLocal, ItemLocal, RowLocal, Decided,
     Finding, Writing, Storing, Seen
<1>6. Tables' /\ Grows /\ left' \in [Bounds -> Nat]
  BY TablesSame, KindTaken DEF PutReads, Kinds
<1> QED
  BY <1>4, <1>5, <1>6, StepMade

\* The row a manual save stores: the new claim, with the evidence cleared or not.
PutRow(c, clear) ==
    [disposition |-> h[c].row.disposition, valid |-> h[c].row.valid,
     evidence |-> IF clear THEN None ELSE rows[h[c].d][h[c].target].evidence]

LEMMA PutStores ==
    ASSUME Inv1, NEW c \in Clients, PutWrites(c)
    PROVE  /\ h[c].pc = "put" /\ h[c].d \in Domains /\ h[c].target \in Nat
           /\ \E row \in Rows :
                 /\ Store(h[c].d, h[c].target, row, h[c].seen)
                 /\ \/ h[c].target = 0 /\ row = h[c].row
                    \/ /\ h[c].target \in DOMAIN rows[h[c].d]
                       /\ \E clear \in Clears(h[c].seen[h[c].target], h[c].row.disposition) :
                             row = PutRow(c, clear)
<1>1. h[c].pc = "put" /\ h[c] \in Locals /\ Local(h[c], estimated, rows, items, reports)
  BY AtPlace DEF PutWrites, At
<1>2. h[c].d \in Domains /\ h[c].row \in Rows /\ h[c].target \in Nat
  BY <1>1, LocalsGive
<1>3. CASE h[c].target = 0
  BY <1>1, <1>2, <1>3 DEF PutWrites
<1>4. CASE h[c].target # 0
  <2>1. h[c].target \in DOMAIN rows[h[c].d] /\ rows[h[c].d] \in Seq(Rows)
    BY <1>1, <1>2, <1>4 DEF Local, RowLocal, Writing, Inv1, TypeOK, RowSeq
  <2>2. rows[h[c].d][h[c].target] \in Rows
    BY <2>1
  <2>3. PICK clear \in Clears(h[c].seen[h[c].target], h[c].row.disposition) :
           Store(h[c].d, h[c].target, PutRow(c, clear), h[c].seen)
    BY <1>4 DEF PutWrites, PutRow
  <2>4. PutRow(c, clear) \in Rows
    BY <1>2, <2>2 DEF PutRow, Rows
  <2> QED
    BY <1>1, <1>2, <2>1, <2>3, <2>4
<1> QED
  BY <1>3, <1>4

LEMMA PutWritesStepped == ASSUME Inv1, NEW c \in Clients, PutWrites(c) PROVE Stepped(c)
<1>1. /\ Set(c, Idle)
      /\ UNCHANGED <<stage, estimated, contradicted, items, reports, left>>
  BY DEF PutWrites, Finish
<1>2. PICK row \in Rows : Store(h[c].d, h[c].target, row, h[c].seen)
  BY PutStores
<1>3. items' \in [Domains -> Items \cup {None}]
  BY <1>1 DEF Inv1, TypeOK
<1>4. Tables' /\ Grows
  BY <1>1, <1>2, <1>3, PutStores, RowTables
<1>5. left' \in [Bounds -> Nat] /\ Idle \in Locals
  BY <1>1, LeftTyped, LocalsMade
<1> QED
  BY <1>1, <1>4, <1>5, IdleLocal, StepMade

----------------------------------------------------------------------------
(* Research *)

LEMMA OutcomesTyped == Outcomes \subseteq Rows
BY DEF Outcomes, Rows, Dispositions

LEMMA ResearchReadsStepped ==
    ASSUME Inv1, NEW c \in Clients, NEW overwrite \in BOOLEAN, ResearchReads(c, overwrite)
    PROVE  Stepped(c)
<1> DEFINE u == [pc |-> "research", todo |-> Targets(overwrite), start |-> rows]
<1>1. Targets(overwrite) \subseteq Domains /\ \A d \in Targets(overwrite) : Unclaimed(rows[d])
  BY DEF Targets, Protected, Unclaimed
<1>2. rows \in RowSeq
  BY DEF Inv1, TypeOK
<1>3. u \in Locals /\ u.pc = "research" /\ u.todo = Targets(overwrite) /\ u.start = rows
  BY <1>1, <1>2, LocalsMade
<1>4. Set(c, u) /\ Tables' /\ Grows /\ left' \in [Bounds -> Nat]
  BY TablesSame, KindTaken DEF ResearchReads, Kinds
<1> HIDE DEF u
<1>5. Local(u, estimated, rows, items, reports)
  BY <1>1, <1>3 DEF Local, AssessLocal, AdvanceLocal, ItemLocal, RowLocal, Decided, Finding, Writing,
     Storing
<1> QED
  BY <1>3, <1>4, <1>5, StepMade

LEMMA ResearchGoesOn ==
    ASSUME Inv1, NEW c \in Clients, h[c].pc \in {"research", "researchFind", "researchWrite"},
           NEW T \in SUBSET h[c].todo
    PROVE  /\ [pc |-> "research", todo |-> T, start |-> h[c].start] \in Locals
           /\ Local([pc |-> "research", todo |-> T, start |-> h[c].start],
                    estimated, rows, items, reports)
<1> DEFINE u == [pc |-> "research", todo |-> T, start |-> h[c].start]
<1>1. h[c] \in Locals /\ Local(h[c], estimated, rows, items, reports)
  BY AtPlace
<1>2. T \subseteq Domains /\ h[c].start \in RowSeq
  BY <1>1, LocalsGive
<1>3. u \in Locals /\ u.pc = "research" /\ u.todo = T /\ u.start = h[c].start
  BY <1>2, LocalsMade
<1> HIDE DEF u
<1>4. Local(u, estimated, rows, items, reports)
  BY <1>1, <1>3 DEF Local, AssessLocal, AdvanceLocal, ItemLocal, RowLocal, Decided, Finding, Writing,
     Storing
<1> QED
  BY <1>3, <1>4 DEF u

LEMMA ResearchFailsStepped == ASSUME Inv1, NEW c \in Clients, ResearchFails(c) PROVE Stepped(c)
<1>1. /\ h[c].pc = "research"
      /\ UNCHANGED <<stage, estimated, contradicted, rows, items, reports, left, raced>>
  BY DEF ResearchFails, At
<1>2. PICK T \in SUBSET h[c].todo : Set(c, [pc |-> "research", todo |-> T, start |-> h[c].start])
  BY DEF ResearchFails
<1>3. Tables' /\ Grows /\ left' \in [Bounds -> Nat]
  BY <1>1, TablesSame, LeftTyped
<1> QED
  BY <1>1, <1>2, <1>3, ResearchGoesOn, StepMade

LEMMA ResearchFindsStepped == ASSUME Inv1, NEW c \in Clients, ResearchFinds(c) PROVE Stepped(c)
<1>1. /\ h[c].pc = "research" /\ h[c] \in Locals /\ Local(h[c], estimated, rows, items, reports)
      /\ UNCHANGED <<stage, estimated, contradicted, rows, items, reports, left, raced>>
  BY AtPlace DEF ResearchFinds, At
<1>2. PICK d \in h[c].todo, row \in Outcomes :
          Set(c, [pc |-> "researchFind", todo |-> h[c].todo \ {d}, start |-> h[c].start,
                  d |-> d, row |-> row])
  BY DEF ResearchFinds
<1>3. h[c].todo \subseteq Domains /\ h[c].start \in RowSeq /\ row \in Rows
  BY <1>1, LocalsGive, OutcomesTyped
<1> DEFINE u == [pc |-> "researchFind", todo |-> h[c].todo \ {d}, start |-> h[c].start,
                 d |-> d, row |-> row]
<1>4. /\ u \in Locals /\ u.pc = "researchFind" /\ u.todo \subseteq h[c].todo /\ u.start = h[c].start
      /\ u.d = d /\ u.row = row /\ Set(c, u)
  BY <1>2, <1>3, LocalsMade
<1> HIDE DEF u
<1>5. Local(u, estimated, rows, items, reports)
  BY <1>1, <1>4 DEF Local, AssessLocal, AdvanceLocal, ItemLocal, RowLocal, Decided, Finding, Writing,
     Storing, Seen
<1>6. Tables' /\ Grows /\ left' \in [Bounds -> Nat]
  BY <1>1, TablesSame, LeftTyped
<1> QED
  BY <1>4, <1>5, <1>6, StepMade

LEMMA UpsertReadsStepped == ASSUME Inv1, NEW c \in Clients, UpsertReads(c) PROVE Stepped(c)
<1>1. /\ h[c].pc = "researchFind" /\ h[c] \in Locals /\ Local(h[c], estimated, rows, items, reports)
      /\ UNCHANGED <<stage, estimated, contradicted, rows, items, reports, left, raced>>
  BY AtPlace DEF UpsertReads, At
<1>2. h[c].todo \subseteq Domains /\ h[c].start \in RowSeq /\ h[c].row \in Rows /\ h[c].d \in Domains
  BY <1>1, LocalsGive
<1>3. PICK i \in Found(h[c].d) :
          Set(c, [pc |-> "researchWrite", todo |-> h[c].todo, start |-> h[c].start,
                  d |-> h[c].d, row |-> h[c].row, target |-> i])
  BY DEF UpsertReads
<1> DEFINE u == [pc |-> "researchWrite", todo |-> h[c].todo, start |-> h[c].start,
                 d |-> h[c].d, row |-> h[c].row, target |-> i]
<1>4. /\ i \in Nat /\ (i = 0 <=> rows[h[c].d] = <<>>) /\ (i # 0 => i \in DOMAIN rows[h[c].d])
  BY <1>2, FoundRow
<1>5. /\ u \in Locals /\ u.pc = "researchWrite" /\ u.todo = h[c].todo /\ u.start = h[c].start
      /\ u.d = h[c].d /\ u.row = h[c].row /\ u.target = i /\ Set(c, u)
  BY <1>2, <1>3, <1>4, LocalsMade
<1> HIDE DEF u
<1>6. Local(u, estimated, rows, items, reports)
  BY <1>1, <1>4, <1>5 DEF Local, AssessLocal, AdvanceLocal, ItemLocal, RowLocal, Decided,
     Finding, Writing, Storing, Seen
<1>7. Tables' /\ Grows /\ left' \in [Bounds -> Nat]
  BY <1>1, TablesSame, LeftTyped
<1> QED
  BY <1>5, <1>6, <1>7, StepMade

LEMMA UpsertWritesStepped == ASSUME Inv1, NEW c \in Clients, UpsertWrites(c) PROVE Stepped(c)
<1>1. /\ h[c].pc = "researchWrite" /\ h[c] \in Locals
      /\ Store(h[c].d, h[c].target, h[c].row, h[c].start[h[c].d])
      /\ Set(c, [pc |-> "research", todo |-> h[c].todo, start |-> h[c].start])
      /\ UNCHANGED <<stage, estimated, contradicted, items, reports, left>>
  BY AtPlace DEF UpsertWrites, At
<1>2. h[c].row \in Rows /\ h[c].d \in Domains /\ h[c].target \in Nat
  BY <1>1, LocalsGive
<1>3. items' \in [Domains -> Items \cup {None}]
  BY <1>1 DEF Inv1, TypeOK
<1>4. Tables' /\ Grows /\ left' \in [Bounds -> Nat]
  BY <1>1, <1>2, <1>3, RowTables, LeftTyped
<1> QED
  BY <1>1, <1>4, ResearchGoesOn, StepMade

LEMMA EndsStepped == ASSUME Inv1, NEW c \in Clients, Ends(c) PROVE Stepped(c)
<1>1. Set(c, Idle) /\ Tables' /\ Grows /\ left' \in [Bounds -> Nat]
  BY TablesSame, LeftTyped DEF Ends, Finish
<1> QED
  BY <1>1, IdleLocal, LocalsMade, StepMade

----------------------------------------------------------------------------
(* Assessment and advance *)

GoodReport(report, E, R, I) ==
    report.open = {} =>
        /\ Ready(E, R) /\ report.seen # {}
        /\ \A d \in report.seen : Fixed(I[d])

GoodReports == \A i \in DOMAIN reports : GoodReport(reports[i], estimated, rows, items)

\* The places of an assessment, and how it goes from one to the next.
LEMMA AssessGoes ==
    ASSUME Inv1, NEW c \in Clients, NEW u \in Locals, Set(c, u),
           UNCHANGED <<stage, estimated, contradicted, rows, items, reports, raced>>,
           left' \in [Bounds -> Nat],
           u.pc \in {"estimate?", "dispositions?", "items?", "conflicts?", "facts?", "report"},
           AssessLocal(u, estimated, rows, items)
    PROVE  Stepped(c)
<1>1. Local(u, estimated, rows, items, reports)
  BY DEF Local, AdvanceLocal, ItemLocal, RowLocal, Decided, Finding, Writing, Storing
<1> QED
  BY <1>1, TablesSame, StepMade

LEMMA UnlessTyped ==
    ASSUME NEW ok, NEW x \in Conditions, NEW o \in SUBSET Conditions
    PROVE  o \cup Unless(ok, x) \subseteq Conditions /\ Unless(ok, x) \subseteq Conditions
BY DEF Unless

LEMMA AssessStepped ==
    ASSUME Inv1, NEW c \in Clients,
           \/ AssessReadsCase(c) \/ AssessReadsEstimate(c) \/ AssessReadsDispositions(c)
           \/ AssessReadsItems(c) \/ AssessReadsConflicts(c) \/ AssessReadsFacts(c)
    PROVE  Stepped(c)
<1>0. h[c] \in Locals /\ AssessLocal(h[c], estimated, rows, items)
  BY AtPlace DEF Local
<1>1. CASE AssessReadsCase(c)
  <2> DEFINE o == Unless(stage = "V0", "stage")
             u == [pc |-> "estimate?", open |-> o]
  <2>1. o \in SUBSET Conditions
    BY DEF Unless, Conditions
  <2>2. /\ Set(c, u)
        /\ UNCHANGED <<stage, estimated, contradicted, rows, items, reports, raced>>
    BY <1>1 DEF AssessReadsCase
  <2> HIDE DEF o
  <2>3. u \in Locals /\ u.pc = "estimate?"
    BY <2>1, LocalsMade
  <2>4. left' \in [Bounds -> Nat]
    BY <1>1, KindTaken DEF AssessReadsCase, Kinds
  <2> HIDE DEF u
  <2> QED
    BY <2>2, <2>3, <2>4, AssessGoes DEF AssessLocal
<1>2. CASE AssessReadsEstimate(c)
  <2> DEFINE o == h[c].open \cup Unless(estimated, "estimate")
             u == [pc |-> "dispositions?", open |-> o]
  <2>1. /\ h[c].pc = "estimate?" /\ Set(c, u)
        /\ UNCHANGED <<stage, estimated, contradicted, rows, items, reports, left, raced>>
    BY <1>2 DEF AssessReadsEstimate, At
  <2>2. o \in SUBSET Conditions
    BY <1>0, <2>1, LocalsGive, UnlessTyped DEF Conditions
  <2>3. "estimate" \in o \/ estimated
    BY DEF Unless
  <2> HIDE DEF o
  <2>4. u \in Locals /\ u.pc = "dispositions?" /\ u.open = o
    BY <2>2, LocalsMade
  <2> HIDE DEF u
  <2> QED
    BY <2>1, <2>3, <2>4, LeftTyped, AssessGoes DEF AssessLocal
<1>3. CASE AssessReadsDispositions(c)
  <2> DEFINE o == h[c].open \cup Unless(Valid, "dispositions")
             u == [pc |-> "items?", open |-> o]
  <2>1. /\ h[c].pc = "dispositions?" /\ Set(c, u)
        /\ UNCHANGED <<stage, estimated, contradicted, rows, items, reports, left, raced>>
    BY <1>3 DEF AssessReadsDispositions, At
  <2>2. o \in SUBSET Conditions
    BY <1>0, <2>1, LocalsGive, UnlessTyped DEF Conditions
  <2>3. /\ "estimate" \in o \/ estimated
        /\ "dispositions" \in o \/ \A d \in Domains : rows[d] # <<>>
    BY <1>0, <2>1 DEF Unless, Valid, AssessLocal
  <2> HIDE DEF o
  <2>4. u \in Locals /\ u.pc = "items?" /\ u.open = o
    BY <2>2, LocalsMade
  <2> HIDE DEF u
  <2> QED
    BY <2>1, <2>3, <2>4, LeftTyped, AssessGoes DEF AssessLocal
<1>4. CASE AssessReadsItems(c)
  <2> DEFINE o == h[c].open \cup Unless(Present # {} /\ Present = Answered, "questionnaire")
                            \cup Unless(MappingOpen(Present) = {}, "mapping")
             u == [pc |-> "conflicts?", items |-> Present, open |-> o]
  <2>1. /\ h[c].pc = "items?" /\ Set(c, u)
        /\ UNCHANGED <<stage, estimated, contradicted, rows, items, reports, left, raced>>
    BY <1>4 DEF AssessReadsItems, At
  <2>2. o \in SUBSET Conditions
    <3>1. h[c].open \in SUBSET Conditions
      BY <1>0, <2>1, LocalsGive
    <3>2. h[c].open \cup Unless(Present # {} /\ Present = Answered, "questionnaire") \in SUBSET Conditions
      BY <3>1, UnlessTyped DEF Conditions
    <3> QED
      BY <3>2, UnlessTyped DEF Conditions
  <2>3. /\ "estimate" \in o \/ estimated
        /\ "dispositions" \in o \/ \A d \in Domains : rows[d] # <<>>
    BY <1>0, <2>1 DEF AssessLocal
  <2>4. \/ "questionnaire" \in o \/ "mapping" \in o
        \/ Present # {} /\ \A d \in Present : Fixed(items[d])
    BY DEF Unless, MappingOpen, Present, Answered, Fixed
  <2> HIDE DEF o
  <2>5. u \in Locals /\ u.pc = "conflicts?" /\ u.open = o /\ u.items = Present
    BY <2>2, LocalsMade DEF Present
  <2> HIDE DEF u
  <2> QED
    BY <2>1, <2>3, <2>4, <2>5, LeftTyped, AssessGoes DEF AssessLocal
<1>5. ASSUME NEW l \in {"conflicts?", "facts?"}, NEW m \in {"facts?", "report"}, NEW ok,
             NEW x \in Conditions, h[c].pc = l,
             Set(c, [pc |-> m, items |-> h[c].items, open |-> h[c].open \cup Unless(ok, x)]),
             UNCHANGED <<stage, estimated, contradicted, rows, items, reports, left, raced>>
      PROVE  Stepped(c)
  <2> DEFINE o == h[c].open \cup Unless(ok, x)
             u == [pc |-> m, items |-> h[c].items, open |-> o]
  <2>1. h[c].open \subseteq Conditions /\ h[c].items \subseteq Domains
    BY <1>0, <1>5, LocalsGive
  <2>2. o \in SUBSET Conditions /\ h[c].open \subseteq o
    BY <1>5, <2>1, UnlessTyped
  <2> HIDE DEF o
  <2>3. u \in Locals /\ u.pc = m /\ u.open = o /\ u.items = h[c].items
    BY <2>1, <2>2, LocalsMade
  <2>4. Set(c, u)
    BY <1>5 DEF o
  <2> HIDE DEF u
  <2>5. AssessLocal(u, estimated, rows, items)
    BY <1>0, <1>5, <2>2, <2>3 DEF AssessLocal
  <2> QED
    BY <1>5, <2>3, <2>4, <2>5, LeftTyped, AssessGoes
<1>6. CASE AssessReadsConflicts(c)
  BY <1>5, <1>6 DEF AssessReadsConflicts, At, Conditions
<1>7. CASE AssessReadsFacts(c)
  BY <1>5, <1>7 DEF AssessReadsFacts, At, Conditions
<1> QED
  BY <1>1, <1>2, <1>3, <1>4, <1>6, <1>7

LEMMA AssessInsertsStepped ==
    ASSUME Inv1, GoodReports, NEW c \in Clients, AssessInserts(c)
    PROVE  Stepped(c) /\ GoodReports'
<1> DEFINE report == [open |-> h[c].open, acknowledged |-> FALSE, seen |-> h[c].items]
<1>1. /\ h[c].pc = "report" /\ h[c] \in Locals /\ AssessLocal(h[c], estimated, rows, items)
      /\ reports' = Append(reports, report) /\ Set(c, Idle)
      /\ UNCHANGED <<stage, estimated, contradicted, rows, items, left, raced>>
  BY AtPlace DEF AssessInserts, At, Local, Finish
<1>2. h[c].open \subseteq Conditions /\ h[c].items \subseteq Domains
  BY <1>1, LocalsGive
<1>3. /\ report \in Reports /\ report.open = h[c].open /\ report.seen = h[c].items
      /\ reports \in Seq(Reports)
  BY <1>2 DEF Reports, Inv1, TypeOK
<1> HIDE DEF report
<1>4. /\ reports' \in Seq(Reports) /\ DOMAIN reports' = 1..(Len(reports) + 1)
      /\ DOMAIN reports = 1..Len(reports) /\ Len(reports) \in Nat
      /\ reports'[Len(reports) + 1] = report
      /\ \A i \in 1..Len(reports) : reports'[i] = reports[i]
  BY <1>1, <1>3
<1>5. Tables' /\ Grows
  BY <1>1, <1>4 DEF Inv1, TypeOK, Tables, Grows
<1>6. GoodReport(report, estimated, rows, items)
  BY <1>1, <1>3 DEF GoodReport, AssessLocal, Ready
<1>7. GoodReports'
  <2>1. ASSUME NEW i \in DOMAIN reports' PROVE GoodReport(reports'[i], estimated, rows, items)
    <3>1. CASE i = Len(reports) + 1
      BY <1>4, <1>6, <3>1
    <3>2. CASE i # Len(reports) + 1
      <4>1. i \in DOMAIN reports /\ reports'[i] = reports[i]
        BY <1>4, <2>1, <3>2
      <4> QED
        BY <4>1 DEF GoodReports
    <3> QED
      BY <3>1, <3>2
  <2> QED
    BY <1>1, <2>1 DEF GoodReports
<1>8. left' \in [Bounds -> Nat] /\ Idle \in Locals
  BY <1>1, LeftTyped, LocalsMade
<1> QED
  BY <1>1, <1>5, <1>7, <1>8, IdleLocal, StepMade

LEMMA AcknowledgeStepped ==
    ASSUME Inv1, GoodReports, NEW c \in Clients, NEW i \in DOMAIN reports, Acknowledge(c, i)
    PROVE  Stepped(c) /\ GoodReports'
<1> DEFINE report == [open |-> reports[i].open, acknowledged |-> TRUE, seen |-> reports[i].seen]
<1>1. /\ reports' = [reports EXCEPT ![i] = report] /\ UNCHANGED h
      /\ UNCHANGED <<stage, estimated, contradicted, rows, items, left, raced>>
  BY DEF Acknowledge
<1>2. /\ reports \in Seq(Reports) /\ reports[i] \in Reports /\ DOMAIN reports = 1..Len(reports)
      /\ Len(reports) \in Nat
  BY DEF Inv1, TypeOK
<1>3. /\ report \in Reports /\ report.open = reports[i].open /\ report.seen = reports[i].seen
      /\ report.acknowledged
  BY <1>2 DEF Reports
<1> HIDE DEF report
<1>4. /\ reports' \in Seq(Reports) /\ DOMAIN reports' = DOMAIN reports
      /\ \A j \in DOMAIN reports : reports'[j] = IF j = i THEN report ELSE reports[j]
  BY <1>1, <1>2, <1>3
<1>5. Tables' /\ Grows
  BY <1>1, <1>3, <1>4 DEF Inv1, TypeOK, Tables, Grows
<1>6. GoodReports'
  BY <1>1, <1>3, <1>4 DEF GoodReports, GoodReport
<1> QED
  BY <1>1, <1>5, <1>6, LeftTyped, StepBeside

LEMMA AdvanceStepped ==
    ASSUME Inv1, GoodReports, NEW c \in Clients, Advance(c)
    PROVE  Stepped(c)
<1>0. h[c] \in Locals /\ Local(h[c], estimated, rows, items, reports)
  BY AtPlace
<1>1. CASE AdvanceReadsCase(c)
  <2> DEFINE u == [pc |-> "latest?", at |-> stage]
  <2>1. u \in Locals /\ u.pc = "latest?"
    BY LocalsMade DEF Inv1, TypeOK
  <2>2. Set(c, u) /\ Tables' /\ Grows /\ left' \in [Bounds -> Nat]
    BY <1>1, TablesSame, KindTaken DEF AdvanceReadsCase, Kinds
  <2> HIDE DEF u
  <2>3. Local(u, estimated, rows, items, reports)
    BY <2>1 DEF Local, AssessLocal, AdvanceLocal, ItemLocal, RowLocal, Decided, Finding, Writing,
       Storing
  <2> QED
    BY <2>1, <2>2, <2>3, StepMade
<1>2. CASE AdvanceReadsReport(c)
  <2> DEFINE u == [pc |-> "advance", at |-> h[c].at]
             i == Len(reports)
  <2>1. /\ h[c].pc = "latest?" /\ reports # <<>> /\ ~BlocksAdvance(reports[i]) /\ Set(c, u)
        /\ UNCHANGED <<stage, estimated, contradicted, rows, items, reports, left, raced>>
    BY <1>2 DEF AdvanceReadsReport, At
  <2>2. u \in Locals /\ u.pc = "advance"
    BY <1>0, <2>1, LocalsGive, LocalsMade
  <2>3. i \in DOMAIN reports
    BY <2>1 DEF Inv1, TypeOK
  <2>4. CompleteIn(reports[i], items) /\ Ready(estimated, rows)
    BY <2>1, <2>3 DEF GoodReports, GoodReport, BlocksAdvance, CompleteIn
  <2> HIDE DEF u, i
  <2>5. Local(u, estimated, rows, items, reports)
    BY <2>2, <2>3, <2>4 DEF Local, AssessLocal, AdvanceLocal, ItemLocal, RowLocal, Decided,
       Finding, Writing, Storing
  <2> QED
    BY <2>1, <2>2, <2>5, TablesSame, LeftTyped, StepMade
<1>3. CASE AdvanceWrites(c)
  <2>1. /\ Set(c, Idle) /\ stage' = "V1"
        /\ UNCHANGED <<estimated, contradicted, rows, items, reports, left, raced>>
    BY <1>3 DEF AdvanceWrites, Finish
  <2>2. Tables' /\ Grows
    BY <2>1 DEF Inv1, TypeOK, Tables, Grows
  <2> QED
    BY <2>1, <2>2, LeftTyped, IdleLocal, LocalsMade, StepMade
<1> QED
  BY <1>1, <1>2, <1>3 DEF Advance

LEMMA BesideStepped ==
    ASSUME Inv1, NEW c \in Clients, Estimate \/ Corroborate(c)
    PROVE  Stepped(c)
<1>1. UNCHANGED h /\ Tables' /\ Grows
  BY DEF Estimate, Corroborate, Inv1, TypeOK, Tables, Grows
<1>2. left' \in [Bounds -> Nat]
  BY KindTaken, LeftTyped DEF Estimate, Corroborate, Kinds
<1> QED
  BY <1>1, <1>2, StepBeside

----------------------------------------------------------------------------
LEMMA EveryStep ==
    ASSUME Inv1, GoodReports, NEW c \in Clients,
           \/ Questionnaire(c) \/ Mapping(c) \/ Manual(c) \/ Research(c)
           \/ Assess(c) \/ Advance(c) \/ Corroborate(c) \/ Ends(c) \/ Estimate
    PROVE  Stepped(c)
<1>1. CASE Questionnaire(c)
  BY <1>1, CreateStepped, PrefillStepped, AnswerStepped DEF Questionnaire
<1>2. CASE Mapping(c)
  BY <1>2, MapReadsStepped, MapJudgesStepped, MapFindsStepped, MapWritesStepped,
     ResolveReadsStepped, ResolveFindsStepped, ResolveWritesStepped DEF Mapping
<1>3. CASE Manual(c)
  BY <1>3, PutReadsStepped, PutWritesStepped DEF Manual
<1>4. CASE Research(c)
  BY <1>4, ResearchReadsStepped, ResearchFailsStepped, ResearchFindsStepped, UpsertReadsStepped,
     UpsertWritesStepped DEF Research
<1>5. CASE Assess(c)
  BY <1>5, AssessStepped, AssessInsertsStepped, AcknowledgeStepped DEF Assess
<1> QED
  BY <1>1, <1>2, <1>3, <1>4, <1>5, AdvanceStepped, BesideStepped, EndsStepped

\* Only an assessment's last step and an acknowledgement change the reports.
LEMMA ReportsChange ==
    ASSUME NEW c \in Clients,
           \/ Questionnaire(c) \/ Mapping(c) \/ Manual(c) \/ Research(c)
           \/ Assess(c) \/ Advance(c) \/ Corroborate(c) \/ Ends(c) \/ Estimate,
           ~AssessInserts(c), ~ \E i \in DOMAIN reports : Acknowledge(c, i)
    PROVE  UNCHANGED reports
BY DEF Questionnaire, Mapping, Manual, Research, Assess, Advance, Corroborate, Ends, Estimate,
   CreateReads, CreateInserts, PrefillReads, PrefillProposes, Answer, MapReads, MapJudges, MapFinds,
   MapWrites, ResolveReads, ResolveFinds, ResolveWrites, PutReads, PutWrites, ResearchReads,
   ResearchFails, ResearchFinds, UpsertReads, UpsertWrites, AssessReadsCase, AssessReadsEstimate,
   AssessReadsDispositions, AssessReadsItems, AssessReadsConflicts, AssessReadsFacts,
   AdvanceReadsCase, AdvanceReadsReport, AdvanceWrites

LEMMA StageChanges ==
    ASSUME NEW c \in Clients,
           \/ Questionnaire(c) \/ Mapping(c) \/ Manual(c) \/ Research(c)
           \/ Assess(c) \/ Advance(c) \/ Corroborate(c) \/ Ends(c),
           ~AdvanceWrites(c)
    PROVE  stage' = stage
BY DEF Questionnaire, Mapping, Manual, Research, Assess, Advance, Corroborate, Ends,
   CreateReads, CreateInserts, PrefillReads, PrefillProposes, Answer, MapReads, MapJudges, MapFinds,
   MapWrites, ResolveReads, ResolveFinds, ResolveWrites, PutReads, PutWrites, ResearchReads,
   ResearchFails, ResearchFinds, UpsertReads, UpsertWrites, AssessReadsCase, AssessReadsEstimate,
   AssessReadsDispositions, AssessReadsItems, AssessReadsConflicts, AssessReadsFacts,
   AssessInserts, Acknowledge, AdvanceReadsCase, AdvanceReadsReport

LEMMA GoodReportsKept ==
    ASSUME Inv1, GoodReports, Grows, UNCHANGED reports
    PROVE  GoodReports'
<1>1. ASSUME NEW i \in DOMAIN reports PROVE GoodReport(reports[i], estimated', rows', items')
  <2>1. reports[i] \in Reports
    BY DEF Inv1, TypeOK
  <2>2. reports[i].seen \subseteq Domains
    BY <2>1 DEF Reports
  <2> QED
    BY <2>2 DEF GoodReports, GoodReport, Grows, Ready
<1> QED
  BY <1>1 DEF GoodReports

LEMMA Inv1Step ==
    ASSUME Inv1, GoodReports, [Next]_vars
    PROVE  Inv1' /\ GoodReports' /\ Grows
<1>1. ASSUME NEW c \in Clients,
             \/ Questionnaire(c) \/ Mapping(c) \/ Manual(c) \/ Research(c)
             \/ Assess(c) \/ Advance(c) \/ Corroborate(c) \/ Ends(c) \/ Estimate
      PROVE  Inv1' /\ GoodReports' /\ Grows
  <2>1. Stepped(c)
    BY <1>1, EveryStep
  <2>2. ASSUME NEW b \in Clients PROVE Local(h'[b], estimated', rows', items', reports')
    <3>1. CASE b = c
      BY <2>1, <3>1 DEF Stepped
    <3>2. CASE b # c
      BY <2>1, <3>2, AtPlace, LocalStays DEF Stepped, Others, Inv1
    <3> QED
      BY <3>1, <3>2
  <2>3. Inv1' /\ Grows
    BY <2>1, <2>2 DEF Stepped, Inv1
  <2>4. GoodReports'
    BY <1>1, <2>3, ReportsChange, GoodReportsKept, AssessInsertsStepped, AcknowledgeStepped
  <2> QED
    BY <2>3, <2>4
<1>2. CASE UNCHANGED vars
  <2>1. Grows /\ TypeOK' /\ UNCHANGED reports
    BY <1>2 DEF vars, Inv1, TypeOK, Grows
  <2>2. GoodReports'
    BY <2>1, GoodReportsKept
  <2> QED
    BY <1>2, <2>1, <2>2 DEF vars, Inv1
<1>3. CASE Estimate /\ Clients = {}
  <2>1. Grows /\ TypeOK' /\ UNCHANGED reports
    BY <1>3 DEF Estimate, Inv1, TypeOK, Grows
  <2> QED
    BY <1>3, <2>1, GoodReportsKept DEF Inv1
<1> QED
  BY <1>1, <1>2, <1>3 DEF Next

LEMMA Inv1Holds == Init => Inv1 /\ GoodReports
<1> SUFFICES ASSUME Init PROVE Inv1 /\ GoodReports
  OBVIOUS
<1>1. ASSUME NEW x \in Dispositions
      PROVE  <<[disposition |-> x, valid |-> TRUE, evidence |-> None]>> \in Seq(Rows)
  <2>1. [disposition |-> x, valid |-> TRUE, evidence |-> None] \in Rows
    BY DEF Rows
  <2> QED
    BY <2>1
<1>2. rows \in RowSeq
  <2>1. <<>> \in Seq(Rows)
    OBVIOUS
  <2>2. \A d \in Domains : rows[d] \in Seq(Rows) /\ rows = [e \in Domains |-> rows[e]]
    BY <1>1, <2>1 DEF Init
  <2>3. rows = [e \in Domains |-> rows[e]]
    BY DEF Init
  <2> QED
    BY <2>2, <2>3 DEF RowSeq
<1>3. TypeOK
  <2>1. h \in [Clients -> Locals] /\ items \in [Domains -> Items \cup {None}]
    BY LocalsMade DEF Init
  <2>2. left \in [Bounds -> Nat] /\ reports \in Seq(Reports)
    BY StageAssumption DEF Init
  <2> QED
    BY <1>2, <2>1, <2>2 DEF Init, TypeOK
<1>4. \A c \in Clients : Local(h[c], estimated, rows, items, reports)
  BY IdleLocal DEF Init
<1>5. GoodReports
  BY DEF Init, GoodReports
<1> QED
  BY <1>3, <1>4, <1>5 DEF Inv1

LEMMA Inv1Invariant == Spec => [](Inv1 /\ GoodReports)
BY Inv1Holds, Inv1Step, PTL DEF Spec

\* Every table and every handler keeps to its range, in every instance.
THEOREM TypeCorrect == Spec => []TypeOK
<1>1. Inv1 /\ GoodReports => TypeOK
  BY DEF Inv1
<1> QED
  BY <1>1, Inv1Invariant, PTL

\* Whatever the stage gate reads stays true while it works and afterwards: an estimate, a
\* row, an answer, a mapping, an acknowledgement, and what a report says, are never taken
\* back by any of the writers (stage.advance re-checks nothing).
THEOREM NothingIsTakenBack == Spec => [][Grows]_vars
<1>1. Inv1 /\ GoodReports /\ [Next]_vars => [Grows]_vars
  BY Inv1Step
<1> QED
  BY <1>1, Inv1Invariant, PTL DEF Spec

\* AdvancedOnComplete in every instance.
THEOREM AdvanceRestsOnComplete == Spec => []AdvancedOnComplete
<1> DEFINE Rests == stage = "V1" => Ready(estimated, rows) /\ \E i \in DOMAIN reports : CompleteIn(reports[i], items)
<1>1. Init => Rests
  BY DEF Init
<1>2. ASSUME Inv1, GoodReports, Rests, [Next]_vars PROVE Rests'
  <2>0. Grows
    BY <1>2, Inv1Step
  <2>1. ASSUME Ready(estimated, rows), NEW i \in DOMAIN reports, CompleteIn(reports[i], items)
        PROVE  /\ Ready(estimated', rows')
               /\ \E j \in DOMAIN reports' : CompleteIn(reports'[j], items')
    <3>1. reports[i] \in Reports
      BY <1>2 DEF Inv1, TypeOK
    <3>2. reports[i].seen \subseteq Domains
      BY <3>1 DEF Reports
    <3>3. i \in DOMAIN reports' /\ CompleteIn(reports'[i], items')
      BY <2>0, <2>1, <3>2 DEF Grows, CompleteIn
    <3> QED
      BY <2>0, <2>1, <3>3 DEF Grows, Ready
  <2>2. CASE stage' = stage
    BY <1>2, <2>1, <2>2
  <2>3. ASSUME NEW c \in Clients, AdvanceWrites(c) PROVE Rests'
    <3>1. AdvanceLocal(h[c], estimated, rows, items, reports) /\ h[c].pc = "advance"
      BY <1>2, <2>3, AtPlace DEF Local, AdvanceWrites, At
    <3> QED
      BY <2>1, <3>1 DEF AdvanceLocal
  <2>4. stage' = stage \/ \E c \in Clients : AdvanceWrites(c)
    BY <1>2, StageChanges DEF Next, vars, Estimate
  <2> QED
    BY <2>2, <2>3, <2>4
<1>3. Rests => AdvancedOnComplete
  BY DEF Ready, CompleteIn, Fixed, AdvancedOnComplete, Complete
<1> QED
  BY <1>1, <1>2, <1>3, Inv1Invariant, PTL DEF Spec

----------------------------------------------------------------------------
(* Who changes a row, and to what. *)

\* The evidence a saved row keeps is that of the row it was read from, which
\* had none or made the same claim.
Kept(c, row) ==
    LET t == h[c].target IN
    /\ t \in DOMAIN rows[h[c].d]
    /\ row.evidence = rows[h[c].d][t].evidence
    /\ h[c].seen[t].evidence = None \/ h[c].seen[t].disposition = row.disposition

StoresBy(c, row) ==
    /\ h[c].pc \in Writing /\ Storing(h[c]) /\ h[c].d \in Domains /\ h[c].target \in Nat
    /\ Store(h[c].d, h[c].target, row, Seen(h[c]))
    /\ h[c].pc \in {"mapWrite", "resolveWrite"} => \E a \in Answers \cup {None} : row = ClientRow(a)
    /\ h[c].pc = "researchWrite" => row \in Outcomes
    /\ h[c].pc = "put" => row.evidence = None \/ Kept(c, row)

LEMMA MapStores ==
    ASSUME Inv1, NEW c \in Clients, MapWrites(c)
    PROVE  UNCHANGED <<rows, raced>> \/ \E row \in Rows : StoresBy(c, row)
<1>1. h[c].pc = "mapWrite" /\ h[c] \in Locals
  BY AtPlace DEF MapWrites, At
<1>2. h[c].said \in Said /\ h[c].d \in Domains /\ h[c].target \in Nat /\ Seen(h[c]) = h[c].seen
  BY <1>1, LocalsGive DEF Seen
<1> DEFINE a == h[c].said[h[c].d]
<1>3. a \in Answers \cup {None}
  BY <1>2 DEF Said
<1>4. CASE Upgrades(h[c].state)
  <2>1. Store(h[c].d, h[c].target, ClientRow(a), h[c].seen)
    BY <1>4 DEF MapWrites
  <2>2. ClientRow(a) \in Rows
    BY <1>3, ClientRowTyped
  <2>3. StoresBy(c, ClientRow(a))
    BY <1>1, <1>2, <1>3, <1>4, <2>1 DEF StoresBy, Writing, Storing
  <2> QED
    BY <2>2, <2>3
<1>5. CASE ~Upgrades(h[c].state)
  BY <1>5 DEF MapWrites
<1> QED
  BY <1>4, <1>5

LEMMA ResolveStores ==
    ASSUME Inv1, NEW c \in Clients, ResolveWrites(c)
    PROVE  UNCHANGED <<rows, raced>> \/ \E row \in Rows : StoresBy(c, row)
<1>1. h[c].pc = "resolveWrite" /\ h[c] \in Locals
  BY AtPlace DEF ResolveWrites, At
<1>2. /\ h[c].said \in Answers \cup {None} /\ h[c].d \in Domains /\ h[c].target \in Nat
      /\ Seen(h[c]) = h[c].seen
  BY <1>1, LocalsGive DEF Seen
<1>3. CASE h[c].resolution = "CLIENT_SUPERSEDES_PUBLIC"
  <2>1. Store(h[c].d, h[c].target, ClientRow(h[c].said), h[c].seen)
    BY <1>3 DEF ResolveWrites
  <2>2. ClientRow(h[c].said) \in Rows
    BY <1>2, ClientRowTyped
  <2>3. StoresBy(c, ClientRow(h[c].said))
    BY <1>1, <1>2, <1>3, <2>1 DEF StoresBy, Writing, Storing
  <2> QED
    BY <2>2, <2>3
<1>4. CASE h[c].resolution # "CLIENT_SUPERSEDES_PUBLIC"
  BY <1>4 DEF ResolveWrites
<1> QED
  BY <1>3, <1>4

LEMMA SaveStores ==
    ASSUME Inv1, NEW c \in Clients, PutWrites(c)
    PROVE  \E row \in Rows : StoresBy(c, row)
<1>1. /\ h[c].pc = "put" /\ h[c].d \in Domains /\ h[c].target \in Nat
      /\ Seen(h[c]) = h[c].seen /\ h[c].row.evidence = None
  BY PutStores, AtPlace DEF Seen, Local, Decided
<1>2. PICK row \in Rows :
         /\ Store(h[c].d, h[c].target, row, h[c].seen)
         /\ \/ h[c].target = 0 /\ row = h[c].row
            \/ /\ h[c].target \in DOMAIN rows[h[c].d]
               /\ \E clear \in Clears(h[c].seen[h[c].target], h[c].row.disposition) :
                     row = PutRow(c, clear)
  BY PutStores
<1>3. row.evidence = None \/ Kept(c, row)
  <2>1. ASSUME h[c].target \in DOMAIN rows[h[c].d],
               NEW clear \in Clears(h[c].seen[h[c].target], h[c].row.disposition),
               row = PutRow(c, clear)
        PROVE  row.evidence = None \/ Kept(c, row)
    <3>1. row.disposition = h[c].row.disposition
      BY <2>1 DEF PutRow
    <3>2. CASE clear
      BY <2>1, <3>2 DEF PutRow
    <3>3. CASE ~clear
      <4>1. row.evidence = rows[h[c].d][h[c].target].evidence
        BY <2>1, <3>3 DEF PutRow
      <4>2. \/ h[c].seen[h[c].target].evidence = None
            \/ h[c].seen[h[c].target].disposition = h[c].row.disposition
        BY <2>1, <3>3 DEF Clears
      <4> QED
        BY <2>1, <3>1, <4>1, <4>2 DEF Kept
    <3> QED
      BY <3>2, <3>3
  <2> QED
    BY <1>1, <1>2, <2>1
<1> QED
  BY <1>1, <1>2, <1>3 DEF StoresBy, Writing, Storing

LEMMA UpsertStores ==
    ASSUME Inv1, NEW c \in Clients, UpsertWrites(c)
    PROVE  \E row \in Rows : StoresBy(c, row)
<1>1. /\ h[c].pc = "researchWrite" /\ h[c] \in Locals
      /\ Store(h[c].d, h[c].target, h[c].row, h[c].start[h[c].d])
      /\ h[c].row \in Outcomes
  BY AtPlace DEF UpsertWrites, At, Local, Decided
<1>2. h[c].row \in Rows /\ h[c].d \in Domains /\ h[c].target \in Nat
  BY <1>1, LocalsGive
<1>3. StoresBy(c, h[c].row)
  BY <1>1, <1>2 DEF StoresBy, Writing, Storing, Seen
<1> QED
  BY <1>2, <1>3

LEMMA RowsChange ==
    ASSUME Inv1, [Next]_vars
    PROVE  UNCHANGED <<rows, raced>> \/ \E c \in Clients, row \in Rows : StoresBy(c, row)
<1>1. ASSUME NEW c \in Clients,
             \/ Questionnaire(c) \/ Mapping(c) \/ Manual(c) \/ Research(c)
             \/ Assess(c) \/ Advance(c) \/ Corroborate(c) \/ Ends(c),
             ~MapWrites(c), ~ResolveWrites(c), ~PutWrites(c), ~UpsertWrites(c)
      PROVE  UNCHANGED <<rows, raced>>
  BY <1>1 DEF Questionnaire, Mapping, Manual, Research, Assess, Advance, Corroborate, Ends,
     CreateReads, CreateInserts, PrefillReads, PrefillProposes, Answer, MapReads, MapJudges,
     MapFinds, ResolveReads, ResolveFinds, PutReads, ResearchReads, ResearchFails,
     ResearchFinds, UpsertReads, AssessReadsCase, AssessReadsEstimate, AssessReadsDispositions,
     AssessReadsItems, AssessReadsConflicts, AssessReadsFacts, AssessInserts, Acknowledge,
     AdvanceReadsCase, AdvanceReadsReport, AdvanceWrites
<1>2. CASE Estimate \/ UNCHANGED vars
  BY <1>2 DEF Estimate, vars
<1> QED
  BY <1>1, <1>2, MapStores, ResolveStores, SaveStores, UpsertStores DEF Next

\* What a stored row does to the rows of its domain, and to the others.
LEMMA StoreShape ==
    ASSUME Inv1, NEW c \in Clients, NEW row \in Rows, StoresBy(c, row)
    PROVE  /\ raced \subseteq raced'
           /\ \A e \in Domains : e # h[c].d => rows'[e] = rows[e]
           /\ \A i \in DOMAIN rows'[h[c].d] :
                 \/ rows'[h[c].d][i] = row
                 \/ i \in DOMAIN rows[h[c].d] /\ rows'[h[c].d][i] = rows[h[c].d][i]
           /\ DOMAIN rows[h[c].d] \subseteq DOMAIN rows'[h[c].d]
           /\ h[c].d \notin raced' => rows[h[c].d] = Seen(h[c])
           /\ h[c].d \notin raced' /\ Len(rows[h[c].d]) <= 1 => Len(rows'[h[c].d]) <= 1
<1> DEFINE d == h[c].d
           t == h[c].target
<1>1. d \in Domains /\ t \in Nat /\ Store(d, t, row, Seen(h[c])) /\ rows[d] \in Seq(Rows)
  BY DEF StoresBy, Inv1, TypeOK, RowSeq
<1>2. /\ raced \subseteq raced' /\ rows'[d] = Written(rows[d], t, row)
      /\ \A e \in Domains : e # d => rows'[e] = rows[e]
      /\ d \notin raced' => rows[d] = Seen(h[c])
  BY <1>1, Stored DEF Inv1
<1>3. /\ t = 0 \/ t \in DOMAIN rows[d]
      /\ t = 0 => Seen(h[c]) = <<>>
  BY AtPlace DEF StoresBy, Local, RowLocal
<1> HIDE DEF d, t
<1>4. d \notin raced' /\ Len(rows[d]) <= 1 => Len(rows'[d]) <= 1
  <2> DEFINE s == rows[d]
             w == Written(s, t, row)
  <2>1. s \in Seq(Rows) /\ rows'[d] = w
    BY <1>1, <1>2
  <2>2. d \notin raced' => t \in DOMAIN s \/ s = <<>>
    BY <1>2, <1>3
  <2>3. ASSUME t \in DOMAIN s, Len(s) <= 1 PROVE Len(w) <= 1
    BY <1>1, <2>1, <2>3, RowWritten
  <2>4. ASSUME s = <<>> PROVE Len(w) <= 1
    <3> HIDE DEF s
    <3>1. w = Append(<<>>, row)
      BY <2>4 DEF Written
    <3>2. Len(Append(<<>>, row)) = 1
      OBVIOUS
    <3> HIDE DEF w
    <3> QED
      BY <3>1, <3>2
  <2> QED
    BY <2>1, <2>2, <2>3, <2>4
<1>5. /\ DOMAIN rows[d] \subseteq DOMAIN rows'[d]
      /\ \A i \in DOMAIN rows'[d] :
            \/ rows'[d][i] = row
            \/ i \in DOMAIN rows[d] /\ rows'[d][i] = rows[d][i]
  <2> DEFINE s == rows[d]
             w == Written(s, t, row)
  <2>1. s \in Seq(Rows) /\ rows'[d] = w
    BY <1>1, <1>2
  <2>2. /\ DOMAIN s \subseteq DOMAIN w
        /\ \A i \in DOMAIN w : w[i] = row \/ (i \in DOMAIN s /\ i # t /\ w[i] = s[i])
    BY <1>1, <2>1, RowWritten
  <2> HIDE DEF w
  <2> QED
    BY <2>1, <2>2
<1> QED
  BY <1>2, <1>4, <1>5 DEF d

Backed(row) ==
    /\ row.evidence = "research" => row.disposition \in {"EVIDENCED_PUBLIC", "DECLARED_UNKNOWN"}
    /\ row.evidence \in Answers => row.disposition = "CLIENT_CONFIRMED"

\* Short of a race a domain has one row, and its evidence is of its claim.
Inv2 == \A d \in Domains \ raced : Len(rows[d]) <= 1 /\ \A i \in DOMAIN rows[d] : Backed(rows[d][i])

LEMMA BackedStore ==
    ASSUME Inv1, Inv2, NEW c \in Clients, NEW row \in Rows, StoresBy(c, row), h[c].d \notin raced'
    PROVE  Backed(row)
<1> DEFINE d == h[c].d
           t == h[c].target
<1>1. d \in Domains \ raced /\ rows[d] = Seen(h[c])
  BY StoreShape DEF StoresBy
<1>2. CASE h[c].pc \in {"mapWrite", "resolveWrite"}
  BY <1>2, StageAssumption DEF StoresBy, ClientRow, Backed
<1>3. CASE h[c].pc = "researchWrite"
  BY <1>3, StageAssumption DEF StoresBy, Outcomes, Backed
<1>4. CASE h[c].pc = "put"
  <2>1. CASE row.evidence = None
    BY <2>1, StageAssumption DEF Backed
  <2>2. CASE Kept(c, row)
    <3>1. t \in DOMAIN rows[d] /\ row.evidence = rows[d][t].evidence /\ rows[d] = h[c].seen
      BY <1>1, <1>4, <2>2 DEF Kept, Seen
    <3>2. rows[d][t].evidence = None \/ rows[d][t].disposition = row.disposition
      BY <2>2, <3>1 DEF Kept
    <3>3. Backed(rows[d][t])
      BY <1>1, <3>1 DEF Inv2
    <3> HIDE DEF d, t
    <3> QED
      BY <3>1, <3>2, <3>3, StageAssumption DEF Backed
  <2> QED
    BY <1>4, <2>1, <2>2 DEF StoresBy
<1> QED
  BY <1>2, <1>3, <1>4 DEF StoresBy, Writing

LEMMA Inv2Step ==
    ASSUME Inv1, Inv2, [Next]_vars
    PROVE  Inv2'
<1>1. CASE UNCHANGED <<rows, raced>>
  BY <1>1 DEF Inv2
<1>2. ASSUME NEW c \in Clients, NEW row \in Rows, StoresBy(c, row) PROVE Inv2'
  <2>1. ASSUME NEW d \in Domains, d \notin raced'
        PROVE  Len(rows'[d]) <= 1 /\ \A i \in DOMAIN rows'[d] : Backed(rows'[d][i])
    <3>1. d \in Domains \ raced /\ Len(rows[d]) <= 1 /\ \A i \in DOMAIN rows[d] : Backed(rows[d][i])
      BY <1>2, <2>1, StoreShape DEF Inv2
    <3>2. CASE d = h[c].d
      BY <1>2, <2>1, <3>1, <3>2, StoreShape, BackedStore
    <3>3. CASE d # h[c].d
      BY <1>2, <3>1, <3>3, StoreShape
    <3> QED
      BY <3>2, <3>3
  <2> QED
    BY <2>1 DEF Inv2
<1> QED
  BY <1>1, <1>2, RowsChange

LEMMA Inv2Holds == Init => Inv2
<1> SUFFICES ASSUME Init, NEW d \in Domains
             PROVE  Len(rows[d]) <= 1 /\ \A i \in DOMAIN rows[d] : Backed(rows[d][i])
  BY DEF Inv2
<1>1. CASE rows[d] = <<>>
  BY <1>1
<1>2. ASSUME NEW x \in Dispositions,
             rows[d] = <<[disposition |-> x, valid |-> TRUE, evidence |-> None]>>
      PROVE  Len(rows[d]) <= 1 /\ \A i \in DOMAIN rows[d] : Backed(rows[d][i])
  BY <1>2, StageAssumption DEF Backed
<1> QED
  BY <1>1, <1>2 DEF Init

LEMMA Inv2Invariant == Spec => []Inv2
<1>1. Inv1 /\ Inv2 /\ [Next]_vars => Inv2'
  BY Inv2Step
<1> QED
  BY <1>1, Inv2Holds, Inv1Invariant, PTL DEF Spec

\* OneRowPerDomain in every instance.
THEOREM OneRow == Spec => []OneRowPerDomain
<1>1. Inv2 => OneRowPerDomain
  BY DEF Inv2, OneRowPerDomain
<1> QED
  BY <1>1, Inv2Invariant, PTL

\* EvidenceBacksClaim in every instance.
THEOREM EvidenceIsOfItsClaim == Spec => []EvidenceBacksClaim
<1>1. Inv2 => EvidenceBacksClaim
  BY DEF Inv2, EvidenceBacksClaim, Backed
<1> QED
  BY <1>1, Inv2Invariant, PTL

\* OnlyAPersonUnconfirms in every instance: research decided on rows without a
\* client's answer, and mapping writes nothing but answers.
THEOREM AnswersSurviveResearch == Spec => OnlyAPersonUnconfirms
<1>1. ASSUME Inv1, [Next]_vars, NEW d \in Domains, Unconfirmed(d), d \notin raced'
      PROVE  \E c \in Clients : At(c, "put") /\ h[c].d = d
  <2>1. PICK i \in DOMAIN rows[d] : /\ rows[d][i].disposition = "CLIENT_CONFIRMED"
                                    /\ rows'[d][i].disposition # "CLIENT_CONFIRMED"
    BY <1>1 DEF Unconfirmed
  <2>2. ASSUME UNCHANGED <<rows, raced>> PROVE FALSE
    BY <2>1, <2>2
  <2>3. ASSUME NEW c \in Clients, NEW row \in Rows, StoresBy(c, row)
        PROVE  At(c, "put") /\ h[c].d = d
    <3>1. d = h[c].d
      BY <1>1, <2>1, <2>3, StoreShape
    <3>2. i \in DOMAIN rows'[d] /\ rows'[d][i] = row /\ rows[d] = Seen(h[c])
      BY <1>1, <2>1, <2>3, <3>1, StoreShape
    <3>3. h[c].pc \notin {"mapWrite", "resolveWrite"}
      BY <2>1, <2>3, <3>2 DEF StoresBy, ClientRow
    <3>4. ASSUME h[c].pc = "researchWrite" PROVE FALSE
      <4>1. Unclaimed(h[c].start[d]) /\ Seen(h[c]) = h[c].start[d]
        BY <1>1, <3>1, <3>4, AtPlace DEF Local, Decided, Seen
      <4> QED
        BY <2>1, <3>2, <4>1 DEF Unclaimed
    <3> QED
      BY <2>3, <3>1, <3>3, <3>4 DEF StoresBy, Writing, At
  <2> QED
    BY <1>1, <2>2, <2>3, RowsChange
<1>2. Inv1 /\ [Next]_vars =>
         [\A d \in Domains : Unconfirmed(d) /\ d \notin raced'
             => \E c \in Clients : At(c, "put") /\ h[c].d = d]_vars
  BY <1>1
<1> QED
  BY <1>2, Inv1Invariant, PTL DEF Spec, OnlyAPersonUnconfirms

\* MappingKeepsPublicEvidence in every instance: an answer judged as an upgrade
\* met no public row, and that row was the only one.
THEOREM PublicSurvivesMapping == Spec => MappingKeepsPublicEvidence
<1> DEFINE Replaced(d) == \E i \in DOMAIN rows[d] : /\ rows[d][i].disposition = "EVIDENCED_PUBLIC"
                                                    /\ rows'[d][i].disposition = "CLIENT_CONFIRMED"
<1>1. ASSUME Inv1, Inv2, [Next]_vars, NEW d \in Domains, Replaced(d), d \notin raced'
      PROVE  \E c \in Clients : At(c, "put") \/ At(c, "resolveWrite")
  <2>1. PICK i \in DOMAIN rows[d] : /\ rows[d][i].disposition = "EVIDENCED_PUBLIC"
                                    /\ rows'[d][i].disposition = "CLIENT_CONFIRMED"
    BY <1>1
  <2>2. ASSUME UNCHANGED <<rows, raced>> PROVE FALSE
    BY <2>1, <2>2
  <2>3. ASSUME NEW c \in Clients, NEW row \in Rows, StoresBy(c, row)
        PROVE  At(c, "put") \/ At(c, "resolveWrite")
    <3>1. d = h[c].d
      BY <1>1, <2>1, <2>3, StoreShape
    <3>2. i \in DOMAIN rows'[d] /\ rows'[d][i] = row /\ rows[d] = Seen(h[c]) /\ d \notin raced
      BY <1>1, <2>1, <2>3, <3>1, StoreShape
    <3>3. h[c].pc # "researchWrite"
      BY <2>1, <2>3, <3>2 DEF StoresBy, Outcomes
    <3>4. ASSUME h[c].pc = "mapWrite" PROVE FALSE
      <4>1. Upgrades(h[c].state) /\ Seen(h[c]) = h[c].seen /\ Len(rows[d]) <= 1
        BY <1>1, <2>3, <3>2, <3>4 DEF StoresBy, Storing, Seen, Inv2
      <4>2. \A j \in DOMAIN h[c].seen : h[c].seen[j].disposition # "EVIDENCED_PUBLIC"
        BY <1>1, <3>2, <3>4, <4>1, AtPlace DEF Local, Decided
      <4> QED
        BY <2>1, <3>2, <4>1, <4>2
    <3> QED
      BY <2>3, <3>3, <3>4 DEF StoresBy, Writing, At
  <2> QED
    BY <1>1, <2>2, <2>3, RowsChange
<1>2. Inv1 /\ Inv2 /\ [Next]_vars =>
         [\A d \in Domains :
             /\ \E i \in DOMAIN rows[d] : rows[d][i].disposition = "EVIDENCED_PUBLIC"
                                          /\ rows'[d][i].disposition = "CLIENT_CONFIRMED"
             /\ d \notin raced'
             => \E c \in Clients : At(c, "put") \/ At(c, "resolveWrite")]_vars
  BY <1>1
<1> QED
  BY <1>2, Inv1Invariant, Inv2Invariant, PTL DEF Spec, MappingKeepsPublicEvidence
=============================================================================
