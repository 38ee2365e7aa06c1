-------------------------- MODULE PriceReviewProofs --------------------------
(***************************************************************************)
(* Theorems about the review of prices, for every number of processes,      *)
(* prices, figures, pairs and requests, and every request a person can      *)
(* send.                                                                    *)
(***************************************************************************)
EXTENDS PriceReviewProps, WellFoundedInduction, TLAPS

Cards == [Prices -> Rows \cup {None}]

\* What a process holds at each of its steps.
Held(l) ==
    /\ l.pc = "prices" =>
          /\ l.request \in Promotions
          /\ l.todo \subseteq PriceFindings
          /\ l.write \in [Prices -> Figures \cup {None}]
          /\ l.seen \in Cards
          /\ l.pairs.todo \subseteq Pairs
          /\ l.pairs.gone \in [Pairs -> SUBSET Counts]
          /\ l.pairs.after \in [Pairs -> Nat]
    /\ l.pc = "verdicts" => l.seen \in Cards
    /\ l.pc \in {"read", "write"} =>
          l.p \in Prices /\ l.action \in Actions /\ l.width \in {"card", "stated"}
    /\ l.pc = "read" => l.about \in Figures \cup {None} /\ l.checked \in Figures
    /\ l.pc = "write" => l.about \in Figures /\ l.seen \in [{l.p} -> Rows]

\* A row of the card is never removed, so what a process picked is there.
Names(C, l) ==
    /\ l.pc \in {"read", "write"} => C[l.p] # None
    /\ l.pc = "verdicts" => \A p \in Prices : l.seen[p] # None => C[p] # None

\* The two tables hold rows of their shape, every process is at a step of its
\* work, and what it names is on the card.
TypeOK ==
    /\ card \in Cards
    /\ estate \in [Pairs -> SUBSET Counts]
    /\ offered = [q \in Pairs |-> offered[q]]
    /\ \A q \in Pairs : offered[q].nth \in Nat
    /\ looked \in [Prices -> Figures \cup {None}]
    /\ h = [c \in Clients |-> h[c]]
    /\ \A c \in Clients : Held(h[c]) /\ Names(card, h[c])

LEMMA SetOne ==
    ASSUME TypeOK, NEW c \in Clients, NEW l, Set(c, l)
    PROVE  /\ h' = [e \in Clients |-> h'[e]]
           /\ \A e \in Clients : h'[e] = IF e = c THEN l ELSE h[e]
BY DEF TypeOK, Set

LEMMA Proposes ==
    ASSUME NEW figure \in Figures
    PROVE  /\ Proposed(figure) \in Rows /\ Proposed(figure) # None
           /\ ~Proposed(figure).approved
<1>1. Proposed(figure) \in Rows /\ ~Proposed(figure).approved
  BY DEF Proposed, Rows, Widths
<1> QED
  BY <1>1, RowsAssumption

LEMMA ApprovedRow ==
    ASSUME NEW row \in Rows, NEW read \in Rows, NEW width \in {"card", "stated"}
    PROVE  /\ Approved(row, read, width) \in Rows
           /\ Approved(row, read, width).base = row.base
           /\ Approved(row, read, width).bandOf = read.base
<1>1. row.base \in Figures /\ row.mark \in Marks \cup {None} /\ read.base \in Figures
  BY DEF Rows
<1>2. Approved(row, read, width) \in Rows
  BY <1>1 DEF Approved, Rows, Widths
<1> QED
  BY <1>2 DEF Approved

LEMMA MarkedRow ==
    ASSUME NEW row \in Rows, NEW mark \in Marks
    PROVE  /\ Marked(row, mark) \in Rows
           /\ Marked(row, mark).base = row.base
           /\ ~Marked(row, mark).approved
<1>1. row.base \in Figures /\ row.bandOf \in Figures /\ row.width \in Widths
  BY DEF Rows
<1>2. Marked(row, mark) \in Rows
  BY <1>1 DEF Marked, Rows
<1> QED
  BY <1>2 DEF Marked

\* What each step makes of the card.  Rows come, and none goes.
CardGrows ==
    /\ card' \in Cards
    /\ \A p \in Prices : card[p] # None => card'[p] # None

LEMMA OperationRow ==
    ASSUME TypeOK, NEW c \in Clients, OperationWrites(c)
    PROVE  /\ h[c].p \in Prices /\ card[h[c].p] \in Rows
           /\ card' = [card EXCEPT ![h[c].p] = card'[h[c].p]]
           /\ card'[h[c].p] \in Rows
           /\ card'[h[c].p].base = card[h[c].p].base
           /\ card'[h[c].p].approved =>
                 card'[h[c].p].bandOf = h[c].seen[h[c].p].base
<1> DEFINE p == h[c].p
           row == IF h[c].action = "approve"
                  THEN Approved(card[p], h[c].seen[p], h[c].width)
                  ELSE Marked(card[p], MarkOf(h[c].action))
<1>1. /\ p \in Prices /\ h[c].action \in Actions /\ h[c].width \in {"card", "stated"}
      /\ h[c].seen \in [{p} -> Rows] /\ card[p] # None
  BY DEF OperationWrites, At, TypeOK, Held, Names
<1>2. card[p] \in Rows /\ h[c].seen[p] \in Rows
  BY <1>1 DEF TypeOK, Cards
<1>3. card' = [card EXCEPT ![p] = row]
  BY DEF OperationWrites
<1>4. CASE h[c].action = "approve"
  <2>1. row = Approved(card[p], h[c].seen[p], h[c].width)
    BY <1>4
  <2>2. /\ row \in Rows /\ row.base = card[p].base
        /\ row.bandOf = h[c].seen[p].base
    <3> HIDE DEF row
    <3> QED
      BY <1>1, <1>2, <2>1, ApprovedRow
  <2> HIDE DEF row
  <2>3. card'[p] = row
    BY <1>1, <1>3 DEF TypeOK, Cards
  <2> QED
    BY <1>1, <1>2, <1>3, <2>2, <2>3
<1>5. CASE h[c].action # "approve"
  <2>1. row = Marked(card[p], MarkOf(h[c].action))
    BY <1>5
  <2>2. MarkOf(h[c].action) \in Marks
    BY <1>1, <1>5 DEF MarkOf, Marks, Actions
  <2>3. row \in Rows /\ row.base = card[p].base /\ ~row.approved
    <3> HIDE DEF row
    <3> QED
      BY <1>1, <1>2, <2>1, <2>2, MarkedRow
  <2> HIDE DEF row
  <2>4. card'[p] = row
    BY <1>1, <1>3 DEF TypeOK, Cards
  <2> QED
    BY <1>1, <1>2, <1>3, <2>3, <2>4
<1> QED
  BY <1>4, <1>5

LEMMA RefreshRow ==
    ASSUME TypeOK, NEW c \in Clients, RefreshWrites(c), NEW p \in Prices
    PROVE  \/ card'[p] = card[p]
           \/ /\ card[p] \in Rows /\ card'[p] \in Rows
              /\ card'[p].base = card[p].base /\ card'[p].bandOf = card[p].bandOf
              /\ card'[p].approved = card[p].approved
              /\ p \in raced' \/ card'[p] = card[p]
<1>1. PICK changed \in SUBSET {q \in Prices : h[c].seen[q] # None} :
          /\ card' = [q \in Prices |-> IF q \in changed
                                       THEN [card[q] EXCEPT !.mark = h[c].seen[q].mark]
                                       ELSE card[q]]
          /\ raced' = raced \cup Changed(c, changed)
  BY DEF RefreshWrites
<1>2. CASE p \notin changed
  BY <1>1, <1>2
<1>3. CASE p \in changed
  <2>1. h[c].seen \in Cards /\ h[c].seen[p] # None /\ card[p] # None
    BY <1>1, <1>3 DEF RefreshWrites, At, TypeOK, Held, Names
  <2>2. card[p] \in Rows /\ h[c].seen[p] \in Rows
    BY <2>1 DEF TypeOK, Cards
  <2>3. card'[p] = [card[p] EXCEPT !.mark = h[c].seen[p].mark]
    BY <1>1, <1>3
  <2>4. /\ card'[p] \in Rows /\ card'[p].base = card[p].base
        /\ card'[p].bandOf = card[p].bandOf /\ card'[p].approved = card[p].approved
    BY <2>2, <2>3 DEF Rows
  <2>5. p \in raced' \/ card'[p] = card[p]
    <3>1. CASE card[p] = h[c].seen[p]
      BY <2>2, <2>3, <3>1 DEF Rows
    <3>2. CASE card[p] # h[c].seen[p]
      BY <1>1, <1>3, <3>2 DEF Changed
    <3> QED
      BY <3>1, <3>2
  <2> QED
    BY <2>2, <2>4, <2>5
<1> QED
  BY <1>2, <1>3

LEMMA PromotedRow ==
    ASSUME TypeOK, NEW c \in Clients, PromoteCommits(c), NEW p \in Prices
    PROVE  IF h[c].write[p] = None
           THEN card'[p] = card[p] /\ looked'[p] = looked[p]
           ELSE /\ h[c].write[p] \in Figures /\ card'[p] = Proposed(h[c].write[p])
                /\ p \in raced' \/ card[p] = h[c].seen[p]
<1>1. h[c].write \in [Prices -> Figures \cup {None}]
  BY DEF PromoteCommits, At, TypeOK, Held
<1> QED
  BY <1>1 DEF PromoteCommits, Changed

\* No other step touches the card.
LEMMA OnlyTheseChangeCard ==
    ASSUME Next
    PROVE  \/ card' = card
           \/ \E c \in Clients : PromoteCommits(c) \/ RefreshWrites(c) \/ OperationWrites(c)
<1>1. ASSUME NEW c \in Clients, NEW request, Promote(c, request) PROVE card' = card
  BY <1>1 DEF Promote
<1>2. ASSUME NEW c \in Clients, NEW q, StandingDecision(c) \/ ReplacesCount(c, q)
      PROVE  card' = card
  BY <1>2 DEF StandingDecision, ReplacesCount
<1>3. ASSUME NEW c \in Clients, RefreshReads(c) \/ Retract(c) \/ OperationReads(c) \/ Dies(c)
      PROVE  card' = card
  BY <1>3 DEF RefreshReads, Retract, OperationReads, Dies
<1>4. ASSUME NEW c \in Clients, NEW p, NEW action, NEW figure, NEW width,
             Register(c, p, action, figure, width)
      PROVE  card' = card
  BY <1>4 DEF Register
<1>5. ASSUME NEW c \in Clients, NEW p, HoldUnnamed(c, p) PROVE card' = card
  BY <1>5 DEF HoldUnnamed
<1>6. ASSUME NEW c \in Clients, NEW p, NEW action, NEW width, Decide(c, p, action, width)
      PROVE  card' = card
  BY <1>6 DEF Decide
<1> QED
  BY <1>1, <1>2, <1>3, <1>4, <1>5, <1>6 DEF Next, Promotion, Steward

LEMMA CardTyped ==
    ASSUME TypeOK, Next
    PROVE  CardGrows
<1>1. CASE card' = card
  BY <1>1 DEF CardGrows, TypeOK
<1>2. ASSUME NEW c \in Clients, PromoteCommits(c) PROVE CardGrows
  <2>1. card' = [p \in Prices |-> card'[p]]
    BY <1>2 DEF PromoteCommits
  <2>2. ASSUME NEW p \in Prices
        PROVE  card'[p] \in Rows \cup {None} /\ (card[p] # None => card'[p] # None)
    BY <1>2, PromotedRow, Proposes DEF TypeOK, Cards
  <2> QED
    BY <2>1, <2>2 DEF CardGrows, Cards
<1>3. ASSUME NEW c \in Clients, RefreshWrites(c) PROVE CardGrows
  <2>1. card' = [p \in Prices |-> card'[p]]
    BY <1>3 DEF RefreshWrites
  <2>2. ASSUME NEW p \in Prices
        PROVE  card'[p] \in Rows \cup {None} /\ (card[p] # None => card'[p] # None)
    BY <1>3, RefreshRow, RowsAssumption DEF TypeOK, Cards
  <2> QED
    BY <2>1, <2>2 DEF CardGrows, Cards
<1>4. ASSUME NEW c \in Clients, OperationWrites(c) PROVE CardGrows
  BY <1>4, OperationRow, RowsAssumption DEF TypeOK, CardGrows, Cards
<1> QED
  BY <1>1, <1>2, <1>3, <1>4, OnlyTheseChangeCard

\* What a step leaves a process holding is typed, and on the card it read.
LEMMA HandlersTyped ==
    ASSUME TypeOK, Next
    PROVE  /\ h' = [e \in Clients |-> h'[e]]
           /\ \A e \in Clients : Held(h'[e]) /\ Names(card, h'[e])
<1> DEFINE Good(l) == Held(l) /\ Names(card, l)
           Goal == /\ h' = [e \in Clients |-> h'[e]]
                   /\ \A e \in Clients : Good(h'[e])
<1>0. \A e \in Clients : Good(h[e])
  BY DEF TypeOK
<1> HIDE DEF Good
<1>1. ASSUME NEW c \in Clients, NEW l, Set(c, l), Good(l) PROVE Goal
  BY <1>0, <1>1, SetOne
<1>2. ASSUME NEW c \in Clients, NEW l, Set(c, l),
             l.pc \notin {"prices", "verdicts", "read", "write"}
      PROVE  Goal
  BY <1>1, <1>2 DEF Good, Held, Names
<1> HIDE DEF Goal
<1>3. Idle.pc = "idle" /\ \A by : Refreshing(by).pc = "refresh"
  BY DEF Idle, Refreshing
<1>4. ASSUME NEW c \in Clients, Promotion(c) PROVE Goal
  <2>1. ASSUME NEW request \in Promotions, Promote(c, request) PROVE Goal
    <3> DEFINE l == [pc |-> "prices", request |-> request,
                     todo |-> {f \in request.prices : Usable(f, request.accept)},
                     write |-> [p \in Prices |-> None], seen |-> [p \in Prices |-> None],
                     pairs |-> [todo |-> Replaced(request), gone |-> [q \in Pairs |-> {}],
                                after |-> [q \in Pairs |-> 0]]]
    <3>1. request \in Promotions /\ request.prices \subseteq PriceFindings
      BY ReviewAssumption DEF Promotions
    <3>2. Good(l)
      BY <3>1 DEF Good, Held, Names, Cards, Replaced
    <3> QED
      BY <1>1, <2>1, <3>2 DEF Promote
  <2>2. CASE StandingDecision(c)
    <3>1. Good(h[c]) /\ h[c].pc = "prices"
      BY <1>0, <2>2 DEF StandingDecision, At
    <3>2. PICK f \in h[c].todo :
             LET own == h[c].write[f.price] # None
                 writes == own \/ Undecided(card[f.price])
             IN Set(c, [pc |-> "prices", request |-> h[c].request, todo |-> h[c].todo \ {f},
                        write |-> IF writes THEN [h[c].write EXCEPT ![f.price] = f.figure]
                                  ELSE h[c].write,
                        seen |-> IF writes /\ ~own
                                 THEN [h[c].seen EXCEPT ![f.price] = card[f.price]]
                                 ELSE h[c].seen,
                        pairs |-> h[c].pairs])
      BY <2>2 DEF StandingDecision
    <3>3. /\ h[c].request \in Promotions /\ h[c].todo \subseteq PriceFindings
          /\ h[c].write \in [Prices -> Figures \cup {None}] /\ h[c].seen \in Cards
      BY <3>1 DEF Good, Held
    <3>4. f.price \in Prices /\ f.figure \in Figures
      BY <3>3 DEF PriceFindings
    <3>5. [h[c].write EXCEPT ![f.price] = f.figure] \in [Prices -> Figures \cup {None}]
      BY <3>3, <3>4
    <3>6. [h[c].seen EXCEPT ![f.price] = card[f.price]] \in Cards
      BY <3>3, <3>4 DEF Cards, TypeOK
    <3>7. ASSUME NEW w \in [Prices -> Figures \cup {None}], NEW s \in Cards
          PROVE  Good([pc |-> "prices", request |-> h[c].request, todo |-> h[c].todo \ {f},
                       write |-> w, seen |-> s, pairs |-> h[c].pairs])
      BY <3>1, <3>3 DEF Good, Held, Names
    <3> QED
      BY <1>1, <3>2, <3>3, <3>5, <3>6, <3>7
  <2>7. ASSUME NEW q \in Pairs, ReplacesCount(c, q) PROVE Goal
    <3>1. Held(h[c]) /\ h[c].pc = "prices"
      BY <1>0, <2>7 DEF ReplacesCount, At, Good
    <3>2. /\ h[c].request \in Promotions /\ h[c].todo \subseteq PriceFindings
          /\ h[c].write \in [Prices -> Figures \cup {None}] /\ h[c].seen \in Cards
          /\ h[c].pairs.todo \ {q} \subseteq Pairs
      BY <3>1 DEF Held
    <3>3. [h[c].pairs.gone EXCEPT ![q] = estate[q]] \in [Pairs -> SUBSET Counts]
      BY <3>1 DEF Held, TypeOK
    <3>4. [h[c].pairs.after EXCEPT ![q] = offered[q].nth] \in [Pairs -> Nat]
      BY <3>1 DEF Held, TypeOK
    <3>5. ASSUME NEW g \in [Pairs -> SUBSET Counts], NEW a \in [Pairs -> Nat]
          PROVE  Good([pc |-> "prices", request |-> h[c].request, todo |-> h[c].todo,
                       write |-> h[c].write, seen |-> h[c].seen,
                       pairs |-> [todo |-> h[c].pairs.todo \ {q}, gone |-> g, after |-> a]])
      BY <3>2 DEF Good, Held, Names
    <3> QED
      BY <1>1, <2>7, <3>3, <3>4, <3>5 DEF ReplacesCount
  <2>3. CASE PromoteCommits(c)
    BY <1>2, <1>3, <2>3 DEF PromoteCommits
  <2>4. CASE RefreshReads(c)
    <3>1. Good([pc |-> "verdicts", by |-> h[c].by, seen |-> card])
      BY DEF Good, Held, Names, TypeOK
    <3> QED
      BY <1>1, <2>4, <3>1 DEF RefreshReads
  <2>5. CASE RefreshWrites(c)
    <3>1. CASE Set(c, [pc |-> "retract"])
      BY <1>2, <3>1
    <3>2. CASE Set(c, Idle)
      BY <1>2, <1>3, <3>2
    <3> QED
      BY <2>5, <3>1, <3>2 DEF RefreshWrites
  <2>6. CASE Retract(c)
    BY <1>2, <1>3, <2>6 DEF Retract
  <2> QED
    BY <1>4, <2>1, <2>2, <2>3, <2>4, <2>5, <2>6, <2>7 DEF Promotion
<1>5. ASSUME NEW c \in Clients, Steward(c) PROVE Goal
  <2>1. ASSUME NEW by, NEW p \in Prices, NEW action \in Actions, NEW width \in {"card", "stated"},
               NEW about \in Figures \cup {None}, card[p] # None,
               Set(c, Operation(by, p, action, width, about))
        PROVE  Goal
    <3>1. card[p].base \in Figures
      BY <2>1 DEF TypeOK, Cards, Rows
    <3>2. Good(Operation(by, p, action, width, about))
      BY <2>1, <3>1 DEF Good, Held, Names, Operation
    <3> QED
      BY <1>1, <2>1, <3>2
  <2>2. ASSUME NEW p \in Prices, NEW figure \in Figures, NEW width \in {"card", "stated"},
               NEW action \in {"approve", "revoke", "hold"}, Register(c, p, action, figure, width)
        PROVE  Goal
    <3>1. CASE Applies(card[p], action, figure, width)
      BY <2>1, <2>2, <3>1 DEF Register, Applies, Actions
    <3>2. CASE ~Applies(card[p], action, figure, width)
      BY <1>2, <1>3, <2>2, <3>2 DEF Register
    <3> QED
      BY <3>1, <3>2
  <2>3. ASSUME NEW p \in Prices, HoldUnnamed(c, p) PROVE Goal
    BY <2>1, <2>3 DEF HoldUnnamed, Actions
  <2>4. ASSUME NEW p \in Prices, NEW action \in Actions, NEW width \in {"card", "stated"},
               Decide(c, p, action, width)
        PROVE  Goal
    BY <2>1, <2>4 DEF Decide
  <2>5. CASE OperationReads(c)
    <3> DEFINE p == h[c].p
               about == IF h[c].about = None THEN card[p].base ELSE h[c].about
               l == [pc |-> "write", by |-> h[c].by, p |-> p, action |-> h[c].action,
                     width |-> h[c].width, about |-> about, seen |-> [p1 \in {p} |-> card[p]]]
    <3>1. /\ p \in Prices /\ h[c].action \in Actions /\ h[c].width \in {"card", "stated"}
          /\ h[c].about \in Figures \cup {None} /\ card[p] # None
      BY <1>0, <2>5 DEF OperationReads, At, Good, Held, Names
    <3>2. card[p] \in Rows
      BY <3>1 DEF TypeOK, Cards
    <3>3. about \in Figures
      BY <3>1, <3>2 DEF Rows
    <3>4. Set(c, l)
      BY <2>5 DEF OperationReads
    <3> HIDE DEF about
    <3>5. Good(l)
      BY <3>1, <3>2, <3>3 DEF Good, Held, Names
    <3> QED
      BY <1>1, <3>4, <3>5
  <2>6. CASE OperationWrites(c)
    <3>1. CASE Set(c, Refreshing("register"))
      BY <1>2, <1>3, <3>1
    <3>2. CASE Set(c, Idle)
      BY <1>2, <1>3, <3>2
    <3> QED
      BY <2>6, <3>1, <3>2 DEF OperationWrites
  <2> QED
    BY <1>5, <2>2, <2>3, <2>4, <2>5, <2>6 DEF Steward
<1>6. ASSUME NEW c \in Clients, Dies(c) PROVE Goal
  BY <1>2, <1>3, <1>6 DEF Dies
<1>7. Goal
  BY <1>4, <1>5, <1>6 DEF Next
<1> QED
  BY <1>7 DEF Goal, Good

\* A set of bounded numbers has a greatest one (by the least-number principle
\* on the distances to the bound).
LEMMA Greatest ==
    ASSUME NEW m \in Nat, NEW S \in SUBSET (0..m), S # {}
    PROVE  \E i \in S : \A j \in S : j <= i
<1> DEFINE T == {k \in Nat : m - k \in S}
<1>1. T \subseteq Nat /\ T # {}
  <2>1. PICK i \in S : TRUE
    OBVIOUS
  <2>2. m - i \in T
    BY <2>1
  <2> QED
    BY <2>2
<1>2. PICK k \in T : \A l \in T : ~(<<l, k>> \in OpToRel(<, Nat))
  <2> HIDE DEF T
  <2> QED
    BY <1>1, NatLessThanWellFounded, WFMin
<1>3. \A l \in T : ~(l < k)
  BY <1>2 DEF OpToRel
<1>4. m - k \in S
  OBVIOUS
<1>5. ASSUME NEW j \in S PROVE j <= m - k
  <2>1. m - j \in T
    OBVIOUS
  <2>2. ~(m - j < k)
    BY <1>3, <2>1
  <2> QED
    BY <2>2
<1> QED
  BY <1>4, <1>5

LEMMA Winners ==
    ASSUME NEW request \in Promotions, NEW q \in Pairs, Group(request, q) # {}
    PROVE  LET usable == {f \in Group(request, q) : Usable(f, request.accept)}
               from == IF usable = {} THEN Group(request, q) ELSE usable
               best == Winner(Group(request, q), request.accept)
           IN best \in from /\ \A f \in from : f.sites <= best.sites
<1> DEFINE usable == {f \in Group(request, q) : Usable(f, request.accept)}
           from == IF usable = {} THEN Group(request, q) ELSE usable
           counts == {f.sites : f \in from}
<1>1. from \subseteq CountFindings /\ from # {}
  BY ReviewAssumption DEF Promotions, Group
<1>2. counts \in SUBSET (0..MaxSites) /\ counts # {} /\ MaxSites \in Nat
  BY <1>1, ReviewAssumption DEF CountFindings
<1>3. PICK n \in counts : \A j \in counts : j <= n
  BY <1>2, Greatest
<1>4. PICK f \in from : f.sites = n
  OBVIOUS
<1>5. \E g \in from : \A other \in from : other.sites <= g.sites
  BY <1>3, <1>4
<1>6. Winner(Group(request, q), request.accept)
         = CHOOSE g \in from : \A other \in from : other.sites <= g.sites
  BY DEF Winner
<1> HIDE DEF from
<1>7. /\ Winner(Group(request, q), request.accept) \in from
      /\ \A g \in from : g.sites <= Winner(Group(request, q), request.accept).sites
  BY <1>5, <1>6
<1> QED
  BY <1>7 DEF from

\* A promotion replaces a pair when it has a usable count for it, and by the
\* largest of those.
LEMMA PairPromoted ==
    ASSUME TypeOK, NEW request \in Promotions, NEW q \in Pairs
    PROVE  LET usable == UsableOf(request, q)
               row == Promoted(request, q)
           IN /\ q \in Replaced(request) <=> usable # {}
              /\ usable # {} =>
                    /\ row \in Counts /\ ~row.future
                    /\ \E f \in usable : f.sites = row.sites
                    /\ \A f \in usable : f.sites <= row.sites
<1> DEFINE group == Group(request, q)
           usable == UsableOf(request, q)
           best == Winner(group, request.accept)
<1>0. usable = {f \in group : Usable(f, request.accept)}
  BY DEF UsableOf
<1>1. CASE group = {}
  BY <1>0, <1>1 DEF Replaced
<1>2. CASE group # {} /\ usable = {}
  <2>1. best \in group
    BY <1>0, <1>2, Winners
  <2>2. ~Usable(best, request.accept)
    BY <1>0, <1>2, <2>1
  <2> QED
    BY <1>2, <2>2 DEF Replaced
<1>3. CASE usable # {}
  <2>1. best \in usable /\ \A f \in usable : f.sites <= best.sites
    BY <1>0, <1>3, Winners
  <2>2. best \in CountFindings /\ group # {} /\ Usable(best, request.accept)
    BY <1>0, <2>1, ReviewAssumption DEF Promotions, Group
  <2>3. Promoted(request, q)
           = [nth |-> offered[q].nth + 1, sites |-> best.sites,
              conflicted |-> best.conflicted, future |-> FALSE]
    BY DEF Promoted
  <2>4. q \in Replaced(request)
    BY <2>2 DEF Replaced
  <2>5. offered[q].nth + 1 \in Nat
    BY DEF TypeOK
  <2> HIDE DEF best
  <2>6. /\ Promoted(request, q) \in Counts /\ ~Promoted(request, q).future
        /\ Promoted(request, q).sites = best.sites
    BY <2>2, <2>3, <2>5 DEF Counts, CountFindings
  <2> QED
    BY <1>3, <2>1, <2>4, <2>6
<1> QED
  BY <1>1, <1>2, <1>3

\* The estate changes in two steps only.
LEMMA EstateStep ==
    ASSUME TypeOK, Next
    PROVE  \/ UNCHANGED <<estate, offered>>
           \/ \E c \in Clients : PromoteCommits(c) \/ Retract(c)
<1> DEFINE Same == UNCHANGED <<estate, offered>>
           Other(c) == PromoteCommits(c) \/ Retract(c)
<1>1. ASSUME NEW c \in Clients, Promotion(c) PROVE Same \/ Other(c)
  <2>1. ASSUME NEW request, Promote(c, request) PROVE Same
    BY <2>1 DEF Promote
  <2>2. ASSUME NEW q, StandingDecision(c) \/ ReplacesCount(c, q) PROVE Same
    BY <2>2 DEF StandingDecision, ReplacesCount
  <2>3. CASE RefreshReads(c)
    BY <2>3 DEF RefreshReads
  <2>4. CASE RefreshWrites(c)
    BY <2>4 DEF RefreshWrites
  <2> HIDE DEF Same
  <2> QED
    BY <1>1, <2>1, <2>2, <2>3, <2>4 DEF Promotion
<1>2. ASSUME NEW c \in Clients, Steward(c) PROVE Same
  <2>1. ASSUME NEW p, NEW action, NEW figure, NEW width, Register(c, p, action, figure, width)
        PROVE  Same
    BY <2>1 DEF Register
  <2>2. ASSUME NEW p, HoldUnnamed(c, p) PROVE Same
    BY <2>2 DEF HoldUnnamed
  <2>3. ASSUME NEW p, NEW action, NEW width, Decide(c, p, action, width) PROVE Same
    BY <2>3 DEF Decide
  <2>4. CASE OperationReads(c)
    BY <2>4 DEF OperationReads
  <2>5. CASE OperationWrites(c)
    BY <2>5 DEF OperationWrites
  <2> HIDE DEF Same
  <2> QED
    BY <1>2, <2>1, <2>2, <2>3, <2>4, <2>5 DEF Steward
<1>3. ASSUME NEW c \in Clients, Dies(c) PROVE Same
  BY <1>3 DEF Dies
<1> HIDE DEF Same
<1>4. Same \/ \E c \in Clients : PromoteCommits(c) \/ Retract(c)
  BY <1>1, <1>2, <1>3 DEF Next
<1> QED
  BY <1>4 DEF Same

\* What a commit makes of a pair: nothing, or a new row instead of those its
\* delete found.
LEMMA PairCommitted ==
    ASSUME TypeOK, NEW c \in Clients, PromoteCommits(c), NEW q \in Pairs
    PROVE  /\ h[c].request \in Promotions
           /\ IF UsableOf(h[c].request, q) = {}
              THEN estate'[q] = estate[q] /\ offered'[q] = offered[q]
              ELSE /\ q \in Replaced(h[c].request) /\ h[c].pairs.todo = {}
                   /\ estate'[q] = (estate[q] \ h[c].pairs.gone[q])
                                       \cup {Promoted(h[c].request, q)}
                   /\ offered'[q].nth = offered[q].nth + 1
                   /\ offered'[q].counts = Group(h[c].request, q)
                   /\ offered'[q].accept = h[c].request.accept
                   /\ offered'[q].alone <=> h[c].pairs.after[q] = offered[q].nth
<1>1. h[c].request \in Promotions
  BY DEF PromoteCommits, At, TypeOK, Held
<1> QED
  BY <1>1, PairPromoted DEF PromoteCommits

LEMMA EstateTyped ==
    ASSUME TypeOK, Next
    PROVE  /\ estate' \in [Pairs -> SUBSET Counts]
           /\ offered' = [q \in Pairs |-> offered'[q]]
           /\ \A q \in Pairs : offered'[q].nth \in Nat
<1>1. ASSUME NEW c \in Clients, PromoteCommits(c)
      PROVE  /\ estate' \in [Pairs -> SUBSET Counts]
             /\ offered' = [q \in Pairs |-> offered'[q]]
             /\ \A q \in Pairs : offered'[q].nth \in Nat
  <2>1. ASSUME NEW q \in Pairs PROVE estate'[q] \subseteq Counts /\ offered'[q].nth \in Nat
    <3>1. h[c].request \in Promotions
      BY <1>1, PairCommitted
    <3>2. estate[q] \subseteq Counts /\ offered[q].nth \in Nat
      BY DEF TypeOK
    <3> QED
      BY <1>1, <3>1, <3>2, PairCommitted, PairPromoted
  <2>2. /\ estate' = [q \in Pairs |-> estate'[q]]
        /\ offered' = [q \in Pairs |-> offered'[q]]
    BY <1>1 DEF PromoteCommits
  <2> QED
    BY <2>1, <2>2
<1>2. ASSUME NEW c \in Clients, Retract(c)
      PROVE  /\ estate' \in [Pairs -> SUBSET Counts] /\ offered' = offered
  BY <1>2 DEF Retract, TypeOK
<1> QED
  BY <1>1, <1>2, EstateStep DEF TypeOK

\* The card and the figures that approvals were about change together.
LEMMA OnlyTheseChangeApprovals ==
    ASSUME Next
    PROVE  \/ UNCHANGED <<card, looked>>
           \/ \E c \in Clients : \/ PromoteCommits(c)
                                 \/ RefreshWrites(c) /\ looked' = looked
                                 \/ OperationWrites(c)
<1> DEFINE Same == UNCHANGED <<card, looked>>
<1>1. ASSUME NEW c \in Clients, NEW request, Promote(c, request) PROVE Same
  BY <1>1 DEF Promote
<1>2. ASSUME NEW c \in Clients, NEW q, StandingDecision(c) \/ ReplacesCount(c, q) PROVE Same
  BY <1>2 DEF StandingDecision, ReplacesCount
<1>3. ASSUME NEW c \in Clients, RefreshReads(c) \/ Retract(c) \/ OperationReads(c) \/ Dies(c)
      PROVE  Same
  BY <1>3 DEF RefreshReads, Retract, OperationReads, Dies
<1>4. ASSUME NEW c \in Clients, NEW p, NEW action, NEW figure, NEW width,
             Register(c, p, action, figure, width)
      PROVE  Same
  BY <1>4 DEF Register
<1>5. ASSUME NEW c \in Clients, NEW p, HoldUnnamed(c, p) PROVE Same
  BY <1>5 DEF HoldUnnamed
<1>6. ASSUME NEW c \in Clients, NEW p, NEW action, NEW width, Decide(c, p, action, width)
      PROVE  Same
  BY <1>6 DEF Decide
<1>7. ASSUME NEW c \in Clients, RefreshWrites(c) PROVE looked' = looked
  BY <1>7 DEF RefreshWrites
<1> HIDE DEF Same
<1>8. ASSUME NEW c \in Clients, Promotion(c)
      PROVE  \/ Same
             \/ PromoteCommits(c)
             \/ RefreshWrites(c) /\ looked' = looked
  BY <1>1, <1>2, <1>3, <1>7, <1>8 DEF Promotion
<1>9. ASSUME NEW c \in Clients, Steward(c)
      PROVE  Same \/ OperationWrites(c)
  BY <1>3, <1>4, <1>5, <1>6, <1>9 DEF Steward
<1>10. Same \/ \E c \in Clients : \/ PromoteCommits(c)
                                  \/ RefreshWrites(c) /\ looked' = looked
                                  \/ OperationWrites(c)
  BY <1>3, <1>8, <1>9 DEF Next
<1> QED
  BY <1>10 DEF Same

LEMMA LookedTyped ==
    ASSUME TypeOK, Next
    PROVE  looked' \in [Prices -> Figures \cup {None}]
<1>1. ASSUME NEW c \in Clients, PromoteCommits(c)
      PROVE  looked' \in [Prices -> Figures \cup {None}]
  BY <1>1 DEF PromoteCommits, TypeOK
<1>2. ASSUME NEW c \in Clients, OperationWrites(c)
      PROVE  looked' \in [Prices -> Figures \cup {None}]
  <2>1. h[c].about \in Figures
    BY <1>2 DEF OperationWrites, At, TypeOK, Held
  <2> QED
    BY <1>2, <2>1 DEF OperationWrites, TypeOK
<1> QED
  BY <1>1, <1>2, OnlyTheseChangeApprovals DEF TypeOK

\* Every table and every process keeps to its range, in every instance.
THEOREM TypeCorrect == Spec => []TypeOK
<1>1. ASSUME Init PROVE TypeOK
  <2>1. card \in Cards
    BY <1>1 DEF Init, Cards, Rows, Widths
  <2>2. estate \in [Pairs -> SUBSET Counts]
    <3>1. 1 \in 1..MaxSites
      BY ReviewAssumption
    <3> DEFINE Old == [nth : {0}, sites : {1}, conflicted : {FALSE}, future : {TRUE}]
    <3>2. ASSUME NEW r \in Old PROVE r \in Counts
      <4>1. r = [nth |-> 0, sites |-> 1, conflicted |-> FALSE, future |-> TRUE]
        BY Zenon
      <4> HIDE DEF Old
      <4> QED
        BY <3>1, <4>1 DEF Counts
    <3>3. estate \in [Pairs -> SUBSET Old]
      BY <1>1 DEF Init
    <3> HIDE DEF Old
    <3> QED
      BY <3>2, <3>3
  <2>3. offered = [q \in Pairs |-> offered[q]] /\ \A q \in Pairs : offered[q].nth \in Nat
    BY <1>1 DEF Init
  <2>4. looked \in [Prices -> Figures \cup {None}]
    BY <1>1 DEF Init
  <2>5. h = [c \in Clients |-> h[c]] /\ \A c \in Clients : Held(h[c]) /\ Names(card, h[c])
    BY <1>1 DEF Init, Idle, Held, Names
  <2> QED
    BY <2>1, <2>2, <2>3, <2>4, <2>5 DEF TypeOK
<1>2. TypeOK /\ [Next]_vars => TypeOK'
  <2> SUFFICES ASSUME TypeOK, [Next]_vars PROVE TypeOK'
    OBVIOUS
  <2>1. CASE UNCHANGED vars
    BY <2>1 DEF vars, TypeOK, Names
  <2>2. CASE Next
    <3>1. /\ estate' \in [Pairs -> SUBSET Counts]
          /\ offered' = [q \in Pairs |-> offered'[q]]
          /\ \A q \in Pairs : offered'[q].nth \in Nat
      BY <2>2, EstateTyped
    <3>2. card' \in Cards
      BY <2>2, CardTyped DEF CardGrows
    <3>3. \A c \in Clients : Names(card', h'[c])
      BY <2>2, HandlersTyped, CardTyped DEF CardGrows, Names, Held
    <3>4. looked' \in [Prices -> Figures \cup {None}]
      BY <2>2, LookedTyped
    <3> QED
      BY <2>2, <3>1, <3>2, <3>3, <3>4, HandlersTyped DEF TypeOK
  <2> QED
    BY <2>1, <2>2
<1> QED
  BY <1>1, <1>2, PTL DEF Spec

----------------------------------------------------------------------------
(* The estate.  A promotion that has deleted the rows of a pair has deleted    *)
(* all there are, unless another promotion of the pair has committed since.    *)

Saw(E, O, l) ==
    l.pc = "prices" =>
        \A q \in Replaced(l.request) \ l.pairs.todo :
            /\ l.pairs.after[q] <= O[q].nth
            /\ l.pairs.after[q] = O[q].nth => E[q] \subseteq l.pairs.gone[q]

\* The last promoted count is there, and no retraction applies to it.
Stands(rows, last) ==
    LET usable == {f \in last.counts : Usable(f, last.accept)}
    IN usable # {} =>
          \E row \in rows :
             /\ ~row.future
             /\ \E f \in usable : f.sites = row.sites
             /\ \A f \in usable : f.sites <= row.sites
             /\ last.alone => rows = {row}

EstateInv ==
    /\ \A c \in Clients : Saw(estate, offered, h[c])
    /\ \A q \in Pairs : Stands(estate[q], offered[q])

\* What a process has just deleted is what was there.
LEMMA DeletersSaw ==
    ASSUME TypeOK, EstateInv, Next, NEW e \in Clients
    PROVE  Saw(estate, offered, h'[e])
<1> DEFINE Good(l) == Saw(estate, offered, l)
<1>0. \A d \in Clients : Good(h[d])
  BY DEF EstateInv
<1> HIDE DEF Good
<1>1. ASSUME NEW c \in Clients, NEW l, Set(c, l), Good(l) PROVE Good(h'[e])
  BY <1>0, <1>1, SetOne
<1>2. ASSUME NEW c \in Clients, NEW l, Set(c, l), l.pc # "prices" PROVE Good(h'[e])
  BY <1>1, <1>2 DEF Good, Saw
<1>3. Idle.pc = "idle" /\ \A by : Refreshing(by).pc = "refresh"
  BY DEF Idle, Refreshing
<1>4. ASSUME NEW c \in Clients, Promotion(c) PROVE Good(h'[e])
  <2>1. ASSUME NEW request, Promote(c, request) PROVE Good(h'[e])
    <3> DEFINE l == [pc |-> "prices", request |-> request,
                     todo |-> {f \in request.prices : Usable(f, request.accept)},
                     write |-> [p \in Prices |-> None], seen |-> [p \in Prices |-> None],
                     pairs |-> [todo |-> Replaced(request), gone |-> [q \in Pairs |-> {}],
                                after |-> [q \in Pairs |-> 0]]]
    <3>1. Good(l)
      BY DEF Good, Saw
    <3> QED
      BY <1>1, <2>1, <3>1 DEF Promote
  <2>2. CASE StandingDecision(c)
    <3>1. h[c].pc = "prices" /\ Good(h[c])
      BY <1>0, <2>2 DEF StandingDecision, At
    <3>2. ASSUME NEW todo, NEW w, NEW s
          PROVE  Good([pc |-> "prices", request |-> h[c].request, todo |-> todo, write |-> w,
                       seen |-> s, pairs |-> h[c].pairs])
      BY <3>1 DEF Good, Saw
    <3> QED
      BY <1>1, <2>2, <3>2 DEF StandingDecision
  <2>3. ASSUME NEW q \in Pairs, ReplacesCount(c, q) PROVE Good(h'[e])
    <3> DEFINE gone == [h[c].pairs.gone EXCEPT ![q] = estate[q]]
               after == [h[c].pairs.after EXCEPT ![q] = offered[q].nth]
               l == [pc |-> "prices", request |-> h[c].request, todo |-> h[c].todo,
                     write |-> h[c].write, seen |-> h[c].seen,
                     pairs |-> [todo |-> h[c].pairs.todo \ {q}, gone |-> gone, after |-> after]]
    <3>1. h[c].pc = "prices" /\ Saw(estate, offered, h[c]) /\ Held(h[c])
      BY <1>0, <2>3 DEF ReplacesCount, At, Good, TypeOK
    <3>2. /\ h[c].pairs.gone \in [Pairs -> SUBSET Counts]
          /\ h[c].pairs.after \in [Pairs -> Nat]
          /\ offered[q].nth \in Nat
      BY <3>1 DEF Held, TypeOK
    <3>3. gone[q] = estate[q] /\ after[q] = offered[q].nth
      BY <3>2
    <3>4. \A r \in Pairs : r # q => gone[r] = h[c].pairs.gone[r] /\ after[r] = h[c].pairs.after[r]
      BY <3>2
    <3> HIDE DEF gone, after
    <3>5. ASSUME NEW r \in Replaced(l.request) \ l.pairs.todo
          PROVE  /\ after[r] <= offered[r].nth
                 /\ after[r] = offered[r].nth => estate[r] \subseteq gone[r]
      <4>1. r \in Pairs
        BY DEF Replaced
      <4>2. CASE r = q
        BY <3>2, <3>3, <4>2
      <4>3. CASE r # q
        BY <3>1, <3>4, <4>1, <4>3 DEF Saw
      <4> QED
        BY <4>2, <4>3
    <3>6. Good(l)
      BY <3>5 DEF Good, Saw
    <3>7. Set(c, l)
      BY <2>3 DEF ReplacesCount, gone, after
    <3> QED
      BY <1>1, <3>6, <3>7
  <2>4. CASE PromoteCommits(c)
    BY <1>2, <1>3, <2>4 DEF PromoteCommits
  <2>5. CASE RefreshReads(c)
    BY <1>2, <2>5 DEF RefreshReads
  <2>6. CASE RefreshWrites(c)
    <3>1. CASE Set(c, [pc |-> "retract"])
      BY <1>2, <3>1
    <3>2. CASE Set(c, Idle)
      BY <1>2, <1>3, <3>2
    <3> QED
      BY <2>6, <3>1, <3>2 DEF RefreshWrites
  <2>7. CASE Retract(c)
    BY <1>2, <1>3, <2>7 DEF Retract
  <2> QED
    BY <1>4, <2>1, <2>2, <2>3, <2>4, <2>5, <2>6, <2>7 DEF Promotion
<1>5. ASSUME NEW c \in Clients, Steward(c) PROVE Good(h'[e])
  <2>1. ASSUME NEW by, NEW p, NEW action, NEW width, NEW about,
               Set(c, Operation(by, p, action, width, about))
        PROVE  Good(h'[e])
    <3>1. Operation(by, p, action, width, about).pc # "prices"
      BY DEF Operation
    <3> QED
      BY <1>2, <2>1, <3>1
  <2>2. ASSUME NEW p, NEW figure, NEW width, NEW action, Register(c, p, action, figure, width)
        PROVE  Good(h'[e])
    BY <1>2, <1>3, <2>1, <2>2 DEF Register
  <2>3. ASSUME NEW p, HoldUnnamed(c, p) PROVE Good(h'[e])
    BY <2>1, <2>3 DEF HoldUnnamed
  <2>4. ASSUME NEW p, NEW action, NEW width, Decide(c, p, action, width) PROVE Good(h'[e])
    BY <2>1, <2>4 DEF Decide
  <2>5. CASE OperationReads(c)
    BY <1>2, <2>5 DEF OperationReads
  <2>6. CASE OperationWrites(c)
    BY <1>2, <1>3, <2>6 DEF OperationWrites
  <2> QED
    BY <1>5, <2>2, <2>3, <2>4, <2>5, <2>6 DEF Steward
<1>6. ASSUME NEW c \in Clients, Dies(c) PROVE Good(h'[e])
  BY <1>2, <1>3, <1>6 DEF Dies
<1>7. Good(h'[e])
  BY <1>4, <1>5, <1>6 DEF Next
<1> QED
  BY <1>7 DEF Good

\* A step commits a promotion of a pair, or adds nothing to it.
LEMMA PairStep ==
    ASSUME TypeOK, EstateInv, Next, NEW q \in Pairs
    PROVE  /\ Stands(estate'[q], offered'[q])
           /\ \/ offered'[q].nth = offered[q].nth /\ estate'[q] \subseteq estate[q]
              \/ offered'[q].nth = offered[q].nth + 1
<1>0. Stands(estate[q], offered[q])
  BY DEF EstateInv
<1>1. CASE UNCHANGED <<estate, offered>>
  BY <1>0, <1>1
<1>2. ASSUME NEW c \in Clients, Retract(c)
      PROVE  Stands(estate'[q], offered'[q]) /\ offered' = offered /\ estate'[q] \subseteq estate[q]
  <2>1. offered' = offered /\ estate'[q] = {row \in estate[q] : ~row.future}
    BY <1>2 DEF Retract
  <2> QED
    BY <1>0, <2>1 DEF Stands
<1>3. ASSUME NEW c \in Clients, PromoteCommits(c)
      PROVE  /\ Stands(estate'[q], offered'[q])
             /\ \/ offered'[q] = offered[q] /\ estate'[q] = estate[q]
                \/ offered'[q].nth = offered[q].nth + 1
  <2> DEFINE request == h[c].request
             row == Promoted(request, q)
             usable == {f \in offered'[q].counts : Usable(f, offered'[q].accept)}
  <2>1. CASE UsableOf(request, q) = {}
    BY <1>0, <1>3, <2>1, PairCommitted
  <2>2. CASE UsableOf(request, q) # {}
    <3>1. /\ request \in Promotions /\ q \in Replaced(request) /\ h[c].pairs.todo = {}
          /\ estate'[q] = (estate[q] \ h[c].pairs.gone[q]) \cup {row}
          /\ offered'[q].nth = offered[q].nth + 1
          /\ offered'[q].alone <=> h[c].pairs.after[q] = offered[q].nth
      BY <1>3, <2>2, PairCommitted
    <3>2. usable = UsableOf(request, q)
      BY <1>3, <2>2, PairCommitted DEF UsableOf
    <3>3. /\ ~row.future
          /\ \E f \in usable : f.sites = row.sites
          /\ \A f \in usable : f.sites <= row.sites
      BY <2>2, <3>1, <3>2, PairPromoted
    <3>4. offered'[q].alone => estate'[q] = {row}
      <4>1. Saw(estate, offered, h[c]) /\ h[c].pc = "prices"
        BY <1>3 DEF EstateInv, PromoteCommits, At
      <4>2. h[c].pairs.after[q] = offered[q].nth => estate[q] \subseteq h[c].pairs.gone[q]
        BY <3>1, <4>1 DEF Saw
      <4> HIDE DEF row
      <4> QED
        BY <3>1, <4>2
    <3>5. row \in estate'[q]
      BY <3>1
    <3> HIDE DEF row
    <3>6. Stands(estate'[q], offered'[q])
      BY <3>3, <3>4, <3>5 DEF Stands
    <3> QED
      BY <3>1, <3>6
  <2> QED
    BY <2>1, <2>2
<1> QED
  BY <1>1, <1>2, <1>3, EstateStep

\* NothingUsableLost in every instance: the largest count that the last
\* promotion of a pair could use is on the estate, no retraction takes it away,
\* and it is the only one there unless two promotions of the pair overlapped.
THEOREM UsableIsKept == Spec => []NothingUsableLost
<1>1. Init => EstateInv
  BY DEF Init, EstateInv, Saw, Stands, Idle
<1>2. TypeOK /\ EstateInv /\ [Next]_vars => EstateInv'
  <2> SUFFICES ASSUME TypeOK, EstateInv, [Next]_vars PROVE EstateInv'
    OBVIOUS
  <2>1. CASE UNCHANGED vars
    BY <2>1 DEF EstateInv, vars
  <2>2. CASE Next
    <3>1. ASSUME NEW e \in Clients PROVE Saw(estate', offered', h'[e])
      <4>1. Saw(estate, offered, h'[e]) /\ Held(h'[e])
        BY <2>2, DeletersSaw, HandlersTyped
      <4>2. SUFFICES ASSUME h'[e].pc = "prices",
                            NEW q \in Replaced(h'[e].request) \ h'[e].pairs.todo
                     PROVE  /\ h'[e].pairs.after[q] <= offered'[q].nth
                            /\ h'[e].pairs.after[q] = offered'[q].nth =>
                                  estate'[q] \subseteq h'[e].pairs.gone[q]
        BY DEF Saw
      <4>3. q \in Pairs /\ h'[e].pairs.after[q] \in Nat /\ offered[q].nth \in Nat
        BY <4>1, <4>2 DEF Held, Replaced, TypeOK
      <4>4. /\ h'[e].pairs.after[q] <= offered[q].nth
            /\ h'[e].pairs.after[q] = offered[q].nth => estate[q] \subseteq h'[e].pairs.gone[q]
        BY <4>1, <4>2 DEF Saw
      <4>5. \/ offered'[q].nth = offered[q].nth /\ estate'[q] \subseteq estate[q]
            \/ offered'[q].nth = offered[q].nth + 1
        BY <2>2, <4>3, PairStep
      <4> QED
        BY <4>3, <4>4, <4>5
    <3>2. \A q \in Pairs : Stands(estate'[q], offered'[q])
      BY <2>2, PairStep
    <3> QED
      BY <3>1, <3>2 DEF EstateInv
  <2> QED
    BY <2>1, <2>2
<1>3. EstateInv => NothingUsableLost
  BY DEF EstateInv, Stands, NothingUsableLost, Usable
<1> QED
  BY <1>1, <1>2, <1>3, TypeCorrect, PTL DEF Spec

----------------------------------------------------------------------------
(* The decisions.  A promotion writes over rows it saw undecided, an         *)
(* operation over the figure its steward named; whatever changed in between  *)
(* is in raced, which only grows.                                            *)

Agrees(R, l) ==
    /\ l.pc = "prices" =>
          \A p \in Prices : l.write[p] # None => Undecided(l.seen[p])
    /\ l.pc = "read" => l.about = None \/ l.about = l.checked
    /\ l.pc = "write" => l.p \in R \/ l.about = l.seen[l.p].base

DecisionInv ==
    /\ \A c \in Clients : Agrees(raced, h[c])
    /\ ApprovedWasSeen

LEMMA RacedGrows ==
    ASSUME Next
    PROVE  raced \subseteq raced'
<1>1. ASSUME NEW c \in Clients, Promotion(c) PROVE raced \subseteq raced'
  <2>1. ASSUME NEW request, Promote(c, request) PROVE raced \subseteq raced'
    BY <2>1 DEF Promote
  <2>2. ASSUME NEW q, StandingDecision(c) \/ ReplacesCount(c, q) PROVE raced \subseteq raced'
    BY <2>2 DEF StandingDecision, ReplacesCount
  <2>3. CASE PromoteCommits(c)
    BY <2>3 DEF PromoteCommits
  <2>4. CASE RefreshReads(c) \/ Retract(c)
    BY <2>4 DEF RefreshReads, Retract
  <2>5. CASE RefreshWrites(c)
    BY <2>5 DEF RefreshWrites
  <2> QED
    BY <1>1, <2>1, <2>2, <2>3, <2>4, <2>5 DEF Promotion
<1>2. ASSUME NEW c \in Clients, Steward(c) PROVE raced \subseteq raced'
  <2>1. ASSUME NEW p, NEW action, NEW figure, NEW width, Register(c, p, action, figure, width)
        PROVE  raced \subseteq raced'
    BY <2>1 DEF Register
  <2>2. ASSUME NEW p, HoldUnnamed(c, p) PROVE raced \subseteq raced'
    BY <2>2 DEF HoldUnnamed
  <2>3. ASSUME NEW p, NEW action, NEW width, Decide(c, p, action, width)
        PROVE  raced \subseteq raced'
    BY <2>3 DEF Decide
  <2>4. CASE OperationReads(c)
    BY <2>4 DEF OperationReads
  <2>5. CASE OperationWrites(c)
    BY <2>5 DEF OperationWrites
  <2> QED
    BY <1>2, <2>1, <2>2, <2>3, <2>4, <2>5 DEF Steward
<1>3. ASSUME NEW c \in Clients, Dies(c) PROVE raced \subseteq raced'
  BY <1>3 DEF Dies
<1> QED
  BY <1>1, <1>2, <1>3 DEF Next

LEMMA HandlersAgree ==
    ASSUME TypeOK, DecisionInv, Next, NEW e \in Clients
    PROVE  Agrees(raced', h'[e])
<1> DEFINE Good(l) == Agrees(raced', l)
<1>0. raced \subseteq raced' /\ \A d \in Clients : Good(h[d])
  BY RacedGrows DEF DecisionInv, Agrees
<1> HIDE DEF Good
<1>1. ASSUME NEW c \in Clients, NEW l, Set(c, l), Good(l) PROVE Good(h'[e])
  BY <1>0, <1>1, SetOne
<1>2. ASSUME NEW c \in Clients, NEW l, Set(c, l), l.pc \notin {"prices", "read", "write"}
      PROVE  Good(h'[e])
  BY <1>1, <1>2 DEF Good, Agrees
<1>3. Idle.pc = "idle" /\ \A by : Refreshing(by).pc = "refresh"
  BY DEF Idle, Refreshing
<1>4. ASSUME NEW c \in Clients, Promotion(c) PROVE Good(h'[e])
  <2>1. ASSUME NEW request \in Promotions, Promote(c, request) PROVE Good(h'[e])
    <3> DEFINE l == [pc |-> "prices", request |-> request,
                     todo |-> {f \in request.prices : Usable(f, request.accept)},
                     write |-> [p \in Prices |-> None], seen |-> [p \in Prices |-> None],
                     pairs |-> [todo |-> Replaced(request), gone |-> [q \in Pairs |-> {}],
                                after |-> [q \in Pairs |-> 0]]]
    <3>1. Good(l)
      BY DEF Good, Agrees
    <3> QED
      BY <1>1, <2>1, <3>1 DEF Promote
  <2>2. CASE StandingDecision(c)
    <3>1. /\ h[c].pc = "prices" /\ h[c].todo \subseteq PriceFindings
          /\ h[c].write \in [Prices -> Figures \cup {None}] /\ h[c].seen \in Cards
          /\ \A p \in Prices : h[c].write[p] # None => Undecided(h[c].seen[p])
      BY <2>2 DEF StandingDecision, At, TypeOK, Held, DecisionInv, Agrees
    <3>2. PICK f \in h[c].todo :
             LET own == h[c].write[f.price] # None
                 writes == own \/ Undecided(card[f.price])
             IN Set(c, [pc |-> "prices", request |-> h[c].request, todo |-> h[c].todo \ {f},
                        write |-> IF writes THEN [h[c].write EXCEPT ![f.price] = f.figure]
                                  ELSE h[c].write,
                        seen |-> IF writes /\ ~own
                                 THEN [h[c].seen EXCEPT ![f.price] = card[f.price]]
                                 ELSE h[c].seen,
                        pairs |-> h[c].pairs])
      BY <2>2 DEF StandingDecision
    <3>3. f.price \in Prices
      BY <3>1 DEF PriceFindings
    <3>4. ASSUME NEW w, NEW s,
                 \A p \in Prices : w[p] # None => Undecided(s[p]),
                 Set(c, [pc |-> "prices", request |-> h[c].request, todo |-> h[c].todo \ {f},
                         write |-> w, seen |-> s, pairs |-> h[c].pairs])
          PROVE  Good(h'[e])
      <4> DEFINE l == [pc |-> "prices", request |-> h[c].request, todo |-> h[c].todo \ {f},
                       write |-> w, seen |-> s, pairs |-> h[c].pairs]
      <4>1. Good(l)
        BY <3>4 DEF Good, Agrees
      <4> QED
        BY <1>1, <3>4, <4>1
    <3> DEFINE written == [h[c].write EXCEPT ![f.price] = f.figure]
               read == [h[c].seen EXCEPT ![f.price] = card[f.price]]
    <3>5. CASE h[c].write[f.price] # None
      <4>1. \A p \in Prices : written[p] # None => Undecided(h[c].seen[p])
        BY <3>1, <3>3, <3>5
      <4> QED
        BY <3>2, <3>4, <3>5, <4>1
    <3>6. CASE h[c].write[f.price] = None /\ Undecided(card[f.price])
      <4>1. \A p \in Prices : written[p] # None => Undecided(read[p])
        BY <3>1, <3>3, <3>6 DEF Cards
      <4> QED
        BY <3>2, <3>4, <3>6, <4>1
    <3>7. CASE h[c].write[f.price] = None /\ ~Undecided(card[f.price])
      BY <3>1, <3>2, <3>4, <3>7
    <3> QED
      BY <3>5, <3>6, <3>7
  <2>7. ASSUME NEW q \in Pairs, ReplacesCount(c, q) PROVE Good(h'[e])
    <3>1. h[c].pc = "prices" /\ Agrees(raced', h[c])
      BY <1>0, <2>7 DEF ReplacesCount, At, Good
    <3>2. ASSUME NEW pairs
          PROVE  Good([pc |-> "prices", request |-> h[c].request, todo |-> h[c].todo,
                       write |-> h[c].write, seen |-> h[c].seen, pairs |-> pairs])
      BY <3>1 DEF Good, Agrees
    <3> QED
      BY <1>1, <2>7, <3>2 DEF ReplacesCount
  <2>3. CASE PromoteCommits(c)
    BY <1>2, <1>3, <2>3 DEF PromoteCommits
  <2>4. CASE RefreshReads(c)
    BY <1>2, <2>4 DEF RefreshReads
  <2>5. CASE RefreshWrites(c)
    <3>1. CASE Set(c, [pc |-> "retract"])
      BY <1>2, <3>1
    <3>2. CASE Set(c, Idle)
      BY <1>2, <1>3, <3>2
    <3> QED
      BY <2>5, <3>1, <3>2 DEF RefreshWrites
  <2>6. CASE Retract(c)
    BY <1>2, <1>3, <2>6 DEF Retract
  <2> QED
    BY <1>4, <2>1, <2>2, <2>3, <2>4, <2>5, <2>6, <2>7 DEF Promotion
<1>5. ASSUME NEW c \in Clients, Steward(c) PROVE Good(h'[e])
  <2>1. ASSUME NEW by, NEW p, NEW action, NEW width, NEW about,
               about = None \/ about = card[p].base,
               Set(c, Operation(by, p, action, width, about))
        PROVE  Good(h'[e])
    <3>1. Good(Operation(by, p, action, width, about))
      BY <2>1 DEF Good, Agrees, Operation
    <3> QED
      BY <1>1, <2>1, <3>1
  <2>2. ASSUME NEW p, NEW figure, NEW width, NEW action, Register(c, p, action, figure, width)
        PROVE  Good(h'[e])
    <3>1. CASE Applies(card[p], action, figure, width)
      BY <2>1, <2>2, <3>1 DEF Register, Applies, SameFigure
    <3>2. CASE ~Applies(card[p], action, figure, width)
      BY <1>2, <1>3, <2>2, <3>2 DEF Register
    <3> QED
      BY <3>1, <3>2
  <2>3. ASSUME NEW p, HoldUnnamed(c, p) PROVE Good(h'[e])
    BY <2>1, <2>3 DEF HoldUnnamed
  <2>4. ASSUME NEW p, NEW action, NEW width, Decide(c, p, action, width) PROVE Good(h'[e])
    BY <2>1, <2>4 DEF Decide
  <2>5. CASE OperationReads(c)
    <3> DEFINE p == h[c].p
               about == IF h[c].about = None THEN card[p].base ELSE h[c].about
               l == [pc |-> "write", by |-> h[c].by, p |-> p, action |-> h[c].action,
                     width |-> h[c].width, about |-> about, seen |-> [p1 \in {p} |-> card[p]]]
    <3>1. h[c].about = None \/ h[c].about = h[c].checked
      BY <2>5 DEF OperationReads, At, DecisionInv, Agrees
    <3>2. raced' = IF card[p].base = h[c].checked THEN raced ELSE raced \cup {p}
      BY <2>5 DEF OperationReads
    <3>3. p \in raced' \/ about = card[p].base
      BY <3>1, <3>2
    <3>4. Set(c, l)
      BY <2>5 DEF OperationReads
    <3> HIDE DEF about
    <3>5. Good(l)
      BY <3>3 DEF Good, Agrees
    <3> QED
      BY <1>1, <3>4, <3>5
  <2>6. CASE OperationWrites(c)
    <3>1. CASE Set(c, Refreshing("register"))
      BY <1>2, <1>3, <3>1
    <3>2. CASE Set(c, Idle)
      BY <1>2, <1>3, <3>2
    <3> QED
      BY <2>6, <3>1, <3>2 DEF OperationWrites
  <2> QED
    BY <1>5, <2>2, <2>3, <2>4, <2>5, <2>6 DEF Steward
<1>6. ASSUME NEW c \in Clients, Dies(c) PROVE Good(h'[e])
  BY <1>2, <1>3, <1>6 DEF Dies
<1>7. Good(h'[e])
  BY <1>4, <1>5, <1>6 DEF Next
<1> QED
  BY <1>7 DEF Good

\* What an operation writes, of a row that did not change under it, is the
\* decision of a person about the figure that is there.
LEMMA OperationAgrees ==
    ASSUME TypeOK, DecisionInv, NEW c \in Clients, OperationWrites(c),
           h[c].p \notin raced', card'[h[c].p].approved
    PROVE  LET p == h[c].p
           IN card'[p].base = looked'[p] /\ card'[p].bandOf = card'[p].base
<1> DEFINE p == h[c].p
<1>1. /\ looked' = [looked EXCEPT ![p] = h[c].about]
      /\ raced' = raced \cup Changed(c, {p})
  BY DEF OperationWrites
<1>2. card[p] = h[c].seen[p] /\ p \notin raced
  BY <1>1 DEF Changed
<1>3. h[c].about = card[p].base
  BY <1>2 DEF OperationWrites, At, DecisionInv, Agrees
<1>4. looked'[p] = h[c].about
  BY <1>1, OperationRow DEF TypeOK
<1> QED
  BY <1>2, <1>3, <1>4, OperationRow

LEMMA ApprovalStep ==
    ASSUME TypeOK, DecisionInv, Next
    PROVE  ApprovedWasSeen'
<1> SUFFICES ASSUME NEW p \in Prices, card'[p] # None, card'[p].approved, p \notin raced'
             PROVE  card'[p].base = looked'[p] /\ card'[p].bandOf = card'[p].base
  BY DEF ApprovedWasSeen
<1>0. p \notin raced
  BY RacedGrows
<1>1. ASSUME card'[p] = card[p], looked'[p] = looked[p]
      PROVE  card'[p].base = looked'[p] /\ card'[p].bandOf = card'[p].base
  BY <1>0, <1>1 DEF DecisionInv, ApprovedWasSeen
<1>2. ASSUME NEW c \in Clients, PromoteCommits(c)
      PROVE  card'[p].base = looked'[p] /\ card'[p].bandOf = card'[p].base
  <2>1. CASE h[c].write[p] = None
    BY <1>1, <1>2, <2>1, PromotedRow
  <2>2. CASE h[c].write[p] # None
    <3>1. h[c].write[p] \in Figures /\ card'[p] = Proposed(h[c].write[p])
      BY <1>2, <2>2, PromotedRow
    <3> QED
      BY <3>1, Proposes
  <2> QED
    BY <2>1, <2>2
<1>3. ASSUME NEW c \in Clients, RefreshWrites(c), looked' = looked
      PROVE  card'[p].base = looked'[p] /\ card'[p].bandOf = card'[p].base
  BY <1>1, <1>3, RefreshRow
<1>4. ASSUME NEW c \in Clients, OperationWrites(c)
      PROVE  card'[p].base = looked'[p] /\ card'[p].bandOf = card'[p].base
  <2>1. CASE p = h[c].p
    BY <1>4, <2>1, OperationAgrees
  <2>2. CASE p # h[c].p
    <3>1. card' = [card EXCEPT ![h[c].p] = card'[h[c].p]]
      BY <1>4, OperationRow
    <3>2. looked' = [looked EXCEPT ![h[c].p] = h[c].about]
      BY <1>4 DEF OperationWrites
    <3>3. card'[p] = card[p]
      BY <2>2, <3>1 DEF TypeOK, Cards
    <3>4. looked'[p] = looked[p]
      BY <2>2, <3>2 DEF TypeOK
    <3> QED
      BY <1>1, <3>3, <3>4
  <2> QED
    BY <2>1, <2>2
<1> QED
  BY <1>1, <1>2, <1>3, <1>4, OnlyTheseChangeApprovals

LEMMA DecisionsInvariant == Spec => []DecisionInv
<1>1. Init => DecisionInv
  <2> SUFFICES ASSUME Init PROVE DecisionInv
    OBVIOUS
  <2>1. \A c \in Clients : Agrees(raced, h[c])
    BY DEF Init, Idle, Agrees
  <2>2. ASSUME NEW p \in Prices, card[p] # None PROVE ~card[p].approved
    BY <2>2 DEF Init
  <2> QED
    BY <2>1, <2>2 DEF DecisionInv, ApprovedWasSeen
<1>2. TypeOK /\ DecisionInv /\ [Next]_vars => DecisionInv'
  <2>1. ASSUME DecisionInv, UNCHANGED vars PROVE DecisionInv'
    BY <2>1 DEF DecisionInv, Agrees, ApprovedWasSeen, vars
  <2>2. ASSUME TypeOK, DecisionInv, Next PROVE DecisionInv'
    BY <2>2, HandlersAgree, ApprovalStep DEF DecisionInv
  <2> QED
    BY <2>1, <2>2
<1> QED
  BY <1>1, <1>2, TypeCorrect, PTL DEF Spec

\* ApprovedWasSeen in every instance: a price that prices circuits is the
\* figure a steward looked at, and its band is about that figure.
THEOREM ApprovedIsSeen == Spec => []ApprovedWasSeen
<1>1. DecisionInv => ApprovedWasSeen
  BY DEF DecisionInv
<1> QED
  BY <1>1, DecisionsInvariant, PTL

\* DecisionsStand in every instance: promotions and verdicts leave what a
\* steward decided, and the figure it was about, as they are.
THEOREM DecisionsAreKept == Spec => DecisionsStand
<1> DEFINE Kept(p) ==
        Decided(card[p]) /\ (Decision(card'[p]) # Decision(card[p])
                             \/ card'[p].base # card[p].base) =>
           \/ \E c \in Clients : At(c, "write") /\ h[c].p = p /\ ~At(c, "write")'
           \/ p \in raced'
<1>1. TypeOK /\ DecisionInv /\ [Next]_vars => [\A p \in Prices : Kept(p)]_vars
  <2> SUFFICES ASSUME TypeOK, DecisionInv, Next, NEW p \in Prices
               PROVE  Kept(p)
    OBVIOUS
  <2>1. ASSUME card'[p] = card[p] PROVE Kept(p)
    BY <2>1
  <2>2. ASSUME p \in raced' PROVE Kept(p)
    BY <2>2
  <2>3. ASSUME NEW c \in Clients, PromoteCommits(c) PROVE Kept(p)
    <3>1. CASE h[c].write[p] = None
      BY <2>1, <2>3, <3>1, PromotedRow
    <3>2. CASE h[c].write[p] # None /\ card[p] = h[c].seen[p]
      <4>1. Undecided(h[c].seen[p])
        BY <2>3, <3>2 DEF PromoteCommits, At, DecisionInv, Agrees
      <4>2. ~Decided(card[p])
        BY <3>2, <4>1 DEF Undecided, Decided
      <4> QED
        BY <4>2
    <3>3. CASE h[c].write[p] # None /\ card[p] # h[c].seen[p]
      BY <2>2, <2>3, <3>3, PromotedRow
    <3> QED
      BY <3>1, <3>2, <3>3
  <2>4. ASSUME NEW c \in Clients, RefreshWrites(c) PROVE Kept(p)
    BY <2>1, <2>2, <2>4, RefreshRow
  <2>5. ASSUME NEW c \in Clients, OperationWrites(c) PROVE Kept(p)
    <3>1. CASE p # h[c].p
      <4>1. card' = [card EXCEPT ![h[c].p] = card'[h[c].p]]
        BY <2>5, OperationRow
      <4>2. card'[p] = card[p]
        BY <3>1, <4>1 DEF TypeOK, Cards
      <4> QED
        BY <2>1, <4>2
    <3>2. CASE p = h[c].p
      <4>1. At(c, "write") /\ h'[c].pc # "write"
        <5>1. \E l : Set(c, l) /\ l.pc # "write"
          BY <2>5 DEF OperationWrites, Refreshing, Idle
        <5> QED
          BY <2>5, <5>1, SetOne DEF OperationWrites
      <4> QED
        BY <3>2, <4>1 DEF At
    <3> QED
      BY <3>1, <3>2
  <2> QED
    BY <2>1, <2>3, <2>4, <2>5, OnlyTheseChangeCard
<1> QED
  BY <1>1, TypeCorrect, DecisionsInvariant, PTL DEF Spec, DecisionsStand
=============================================================================
