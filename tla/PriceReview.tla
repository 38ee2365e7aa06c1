----------------------------- MODULE PriceReview -----------------------------
(***************************************************************************)
(* How research findings reach the numbers an estimate reads                *)
(* (domain/promotion.py): a named person promotes findings, counts into the *)
(* case's estate and prices into the rate card, unapproved; stewards        *)
(* approve, revoke, hold and reopen the prices (tools/approve_prices.py     *)
(* applies a register of such decisions); and every promotion rewrites the  *)
(* benchmark verdicts, which share a column with the decisions.             *)
(*                                                                          *)
(* A step is one query or one commit; two processes can be at work.         *)
(***************************************************************************)
EXTENDS Naturals, FiniteSets

CONSTANTS
    Clients,   \* request threads and tool processes
    Prices,    \* ids of researched prices: one per country, product and tier
    Figures,   \* what a source can quote, currency included
    Pairs,     \* (country, archetype) pairs of the estate
    MaxSites,  \* bound: site counts
    Requests,  \* bound: the promotions that may be asked for
    MaxEntries, \* bound: counts one promotion names
    Budget,    \* bound: requests of each kind
    None       \* no value

PriceFindings == [price : Prices, figure : Figures, conflicted : BOOLEAN]
CountFindings == [pair : Pairs, sites : 1..MaxSites, conflicted : BOOLEAN]
Promotions == {r \in Requests : Cardinality(r.counts) <= MaxEntries}
Kinds == {"promote", "register", "decide"}

ASSUME ReviewAssumption ==
    /\ None \notin Figures
    /\ MaxSites \in Nat \ {0}
    /\ Requests \subseteq [prices : SUBSET PriceFindings, counts : SUBSET CountFindings,
                           accept : BOOLEAN]
    /\ MaxEntries \in Nat
    /\ Budget \in [Kinds -> Nat]

VARIABLES
    card,     \* the unit_cost_prior row of each researched price, or None
    estate,   \* the evidenced_footprint rows of each pair: nothing keeps them to one
    h,        \* each process at work
    left,     \* requests still to come (bounded)
    looked,   \* history: the figure the last approval of a price was about
    raced,    \* history: prices whose row changed between a read and the write it led to
    offered   \* history: for each pair, the last promotion that found a usable count for it

vars == <<card, estate, h, left, looked, raced, offered>>

\* The note of a row is read for its last mark.  A band is a width about the
\* figure it was computed from: a point, the card's width, or one stated.
Marks == {"revoked", "held", "reopened"}
Widths == {"point", "card", "stated"}
Rows == [base : Figures, bandOf : Figures, width : Widths, approved : BOOLEAN,
         mark : Marks \cup {None}]
\* nth stands for the row's uuid: its place among the promotions of its pair.
Counts == [nth : Nat, sites : 1..MaxSites, conflicted : BOOLEAN, future : BOOLEAN]

ASSUME RowsAssumption == None \notin Rows

\* decision_on: approval is a column, and comes first; the rest is in the note.
Decision(row) ==
    CASE row = None -> "none"
      [] row # None /\ row.approved -> "approved"
      [] row # None /\ ~row.approved /\ row.mark \in {"revoked", "held"} -> row.mark
      [] OTHER -> "none"

Actions == {"approve", "revoke", "hold", "reopen"}
Idle == [pc |-> "idle"]

\* A card that may already hold undecided prices; a count an earlier
\* version promoted although it is dated in the future.
Init ==
    /\ card \in [Prices -> {None} \cup
           [base : Figures, bandOf : Figures, width : {"point"}, approved : {FALSE},
            mark : {None}]]
    /\ \A p \in Prices : card[p] # None => card[p].bandOf = card[p].base
    /\ estate \in [Pairs -> SUBSET [nth : {0}, sites : {1}, conflicted : {FALSE}, future : {TRUE}]]
    /\ h = [c \in Clients |-> Idle]
    /\ left = Budget
    /\ looked = [p \in Prices |-> None]
    /\ raced = {}
    /\ offered = [q \in Pairs |-> [nth |-> 0, counts |-> {}, accept |-> FALSE, alone |-> TRUE]]

At(c, l) == h[c].pc = l
Set(c, local) == h' = [h EXCEPT ![c] = local]
Receive(c, kind) ==
    /\ At(c, "idle")
    /\ left[kind] > 0
    /\ left' = [left EXCEPT ![kind] = @ - 1]

\* Mutants: of Undecided, SameFigure and Winner.
UndecidedUnlessRuled(row) == Decision(row) \in {"none", "held"}
AnyFigure(row, figure) == TRUE
LargestOfAll(group, accept) ==
    CHOOSE f \in group : \A other \in group : other.sites <= f.sites

----------------------------------------------------------------------------
(* promote: every entry in turn, one commit, and then the verdicts *)

\* A finding whose sources disagree is refused unless someone looked at it.
Usable(f, accept) == accept \/ ~f.conflicted

\* _one_row_per_pair: the largest usable count, or the largest of all, which
\* the gate then refuses.
Winner(group, accept) ==
    LET usable == {f \in group : Usable(f, accept)}
        from == IF usable = {} THEN group ELSE usable
    IN CHOOSE f \in from : \A other \in from : other.sites <= f.sites

Group(request, q) == {f \in request.counts : f.pair = q}
UsableOf(request, q) == {f \in Group(request, q) : Usable(f, request.accept)}

\* The pairs whose winner the gate accepts: a refused one changes nothing.
Replaced(request) ==
    {q \in Pairs : /\ Group(request, q) # {}
                   /\ Usable(Winner(Group(request, q), request.accept), request.accept)}

\* The row an accepted winner becomes.
Promoted(request, q) ==
    LET winner == Winner(Group(request, q), request.accept)
    IN [nth |-> offered[q].nth + 1, sites |-> winner.sites, conflicted |-> winner.conflicted,
        future |-> FALSE]

Promote(c, request) ==
    /\ Receive(c, "promote")
    /\ Set(c, [pc |-> "prices", request |-> request,
               todo |-> {f \in request.prices : Usable(f, request.accept)},
               write |-> [p \in Prices |-> None], seen |-> [p \in Prices |-> None],
               pairs |-> [todo |-> Replaced(request), gone |-> [q \in Pairs |-> {}],
                          after |-> [q \in Pairs |-> 0]]])
    /\ UNCHANGED <<card, estate, looked, raced, offered>>

\* The rows of the pair are deleted and the winner inserted, unseen by others
\* until the commit.  The delete finds the rows committed before it: one that
\* waits for another promotion's delete of the same row still does not see
\* what that promotion inserts.
ReplacesCount(c, q) ==
    /\ At(c, "prices")
    /\ q \in h[c].pairs.todo
    /\ Set(c, [pc |-> "prices", request |-> h[c].request, todo |-> h[c].todo,
               write |-> h[c].write, seen |-> h[c].seen,
               pairs |-> [todo |-> h[c].pairs.todo \ {q},
                          gone |-> [h[c].pairs.gone EXCEPT ![q] = estate[q]],
                          after |-> [h[c].pairs.after EXCEPT ![q] = offered[q].nth]]])
    /\ UNCHANGED <<card, estate, left, looked, raced, offered>>

\* _standing_decision: a decided row is left as it is; the finding is reported.
\* A later finding about the same price sees the row this promotion wrote.
Undecided(row) == Decision(row) = "none"

StandingDecision(c) ==
    /\ At(c, "prices")
    /\ \E f \in h[c].todo :
          LET own == h[c].write[f.price] # None
              writes == own \/ Undecided(card[f.price])
          IN Set(c, [pc |-> "prices", request |-> h[c].request, todo |-> h[c].todo \ {f},
                     write |-> IF writes THEN [h[c].write EXCEPT ![f.price] = f.figure]
                               ELSE h[c].write,
                     seen |-> IF writes /\ ~own
                              THEN [h[c].seen EXCEPT ![f.price] = card[f.price]]
                              ELSE h[c].seen,
                     pairs |-> h[c].pairs])
    /\ UNCHANGED <<card, estate, left, looked, raced, offered>>

\* A researched price is a point, and unapproved.
Proposed(figure) == [base |-> figure, bandOf |-> figure, width |-> "point",
                     approved |-> FALSE, mark |-> None]

\* A promotion and a register end by judging every verdict again.
Refreshing(by) == [pc |-> "refresh", by |-> by]

Changed(c, touched) == {p \in touched : card[p] # h[c].seen[p]}

PromoteCommits(c) ==
    /\ At(c, "prices")
    /\ h[c].todo = {} /\ h[c].pairs.todo = {}
    /\ LET written == {p \in Prices : h[c].write[p] # None} IN
          /\ card' = [p \in Prices |-> IF p \in written THEN Proposed(h[c].write[p]) ELSE card[p]]
          /\ raced' = raced \cup Changed(c, written)
          /\ looked' = [p \in Prices |-> IF p \in written THEN None ELSE looked[p]]
    /\ estate' = [q \in Pairs |->
           IF q \in Replaced(h[c].request)
           THEN (estate[q] \ h[c].pairs.gone[q]) \cup {Promoted(h[c].request, q)}
           ELSE estate[q]]
    /\ offered' = [q \in Pairs |->
           IF UsableOf(h[c].request, q) = {} THEN offered[q]
           ELSE [nth |-> offered[q].nth + 1, counts |-> Group(h[c].request, q),
                 accept |-> h[c].request.accept,
                 alone |-> h[c].pairs.after[q] = offered[q].nth]]
    /\ Set(c, Refreshing("promote"))
    /\ UNCHANGED left

\* refresh_comparisons reads every note, and writes back those whose verdict
\* has changed; a promotion then retracts the counts dated in the future.
RefreshReads(c) ==
    /\ At(c, "refresh")
    /\ Set(c, [pc |-> "verdicts", by |-> h[c].by, seen |-> card])
    /\ UNCHANGED <<card, estate, left, looked, raced, offered>>

Marked(row, mark) ==
    [base |-> row.base, bandOf |-> row.bandOf, width |-> row.width, approved |-> FALSE,
     mark |-> mark]

RefreshWrites(c) ==
    /\ At(c, "verdicts")
    /\ \E changed \in SUBSET {p \in Prices : h[c].seen[p] # None} :
          /\ card' = [p \in Prices |-> IF p \in changed
                                       THEN [card[p] EXCEPT !.mark = h[c].seen[p].mark]
                                       ELSE card[p]]
          /\ raced' = raced \cup Changed(c, changed)
    /\ Set(c, IF h[c].by = "promote" THEN [pc |-> "retract"] ELSE Idle)
    /\ UNCHANGED <<estate, left, looked, offered>>

Retract(c) ==
    /\ At(c, "retract")
    /\ estate' = [q \in Pairs |-> {row \in estate[q] : ~row.future}]
    /\ Set(c, Idle)
    /\ UNCHANGED <<card, left, looked, raced, offered>>

----------------------------------------------------------------------------
(* A steward's decisions *)

\* A line of the register names the figure it was about; a hold need not.  A
\* row in the state the line asks for is left alone.
SameFigure(row, figure) == row.base = figure
Brings(row, action) ==
    CASE action = "approve" -> TRUE
      [] action = "revoke" -> Decision(row) # "revoked"
      [] action = "hold" -> Decision(row) # "held"

ApprovedAt(row, width) == row.approved /\ row.width = width /\ row.bandOf = row.base

Applies(row, action, figure, width) ==
    /\ row # None
    /\ SameFigure(row, figure)
    /\ Brings(row, action)
    /\ action = "approve" => ~ApprovedAt(row, width)

Operation(by, p, action, width, about) ==
    [pc |-> "read", by |-> by, p |-> p, action |-> action, width |-> width, about |-> about,
     checked |-> card[p].base]

Register(c, p, action, figure, width) ==
    /\ Receive(c, "register")
    /\ Set(c, IF Applies(card[p], action, figure, width)
              THEN Operation("register", p, action, width, figure)
              ELSE Refreshing("register"))
    /\ UNCHANGED <<card, estate, looked, raced, offered>>

HoldUnnamed(c, p) ==
    /\ Receive(c, "register")
    /\ card[p] # None
    /\ Brings(card[p], "hold")
    /\ Set(c, Operation("register", p, "hold", "card", None))
    /\ UNCHANGED <<card, estate, looked, raced, offered>>

\* Rows named on the command line, or by a caller of the operation itself;
\* the steward decides what is there.
Decide(c, p, action, width) ==
    /\ Receive(c, "decide")
    /\ card[p] # None
    /\ Set(c, Operation("decide", p, action, width, None))
    /\ UNCHANGED <<card, estate, looked, raced, offered>>

\* Each operation reads the row for itself, later than it was picked.
OperationReads(c) ==
    /\ At(c, "read")
    /\ LET p == h[c].p
           about == IF h[c].about = None THEN card[p].base ELSE h[c].about
       IN /\ Set(c, [pc |-> "write", by |-> h[c].by, p |-> p, action |-> h[c].action,
                     width |-> h[c].width, about |-> about, seen |-> [p1 \in {p} |-> card[p]]])
          /\ raced' = IF card[p].base = h[c].checked THEN raced ELSE raced \cup {p}
    /\ UNCHANGED <<card, estate, left, looked, offered>>

\* The band is set about the base that was read, whether or not the row had
\* one; the others leave it as it was.
Approved(row, read, width) ==
    [base |-> row.base, bandOf |-> read.base, width |-> width, approved |-> TRUE,
     mark |-> row.mark]

MarkOf(action) ==
    CASE action = "revoke" -> "revoked"
      [] action = "hold" -> "held"
      [] action = "reopen" -> "reopened"

OperationWrites(c) ==
    /\ At(c, "write")
    /\ LET p == h[c].p IN
          /\ card' = [card EXCEPT ![p] = IF h[c].action = "approve"
                         THEN Approved(card[p], h[c].seen[p], h[c].width)
                         ELSE Marked(card[p], MarkOf(h[c].action))]
          /\ looked' = [looked EXCEPT ![p] = h[c].about]
          /\ raced' = raced \cup Changed(c, {p})
    /\ Set(c, IF h[c].by = "register" THEN Refreshing("register") ELSE Idle)
    /\ UNCHANGED <<estate, left, offered>>

\* A process dies, or its request is refused, between two steps.
Dies(c) ==
    /\ ~At(c, "idle")
    /\ Set(c, Idle)
    /\ UNCHANGED <<card, estate, left, looked, raced, offered>>

Promotion(c) ==
    \/ \E request \in Promotions : Promote(c, request)
    \/ \E q \in Pairs : ReplacesCount(c, q)
    \/ StandingDecision(c) \/ PromoteCommits(c)
    \/ RefreshReads(c) \/ RefreshWrites(c) \/ Retract(c)

Steward(c) ==
    \/ \E p \in Prices, figure \in Figures, width \in {"card", "stated"} :
          \E action \in {"approve", "revoke", "hold"} : Register(c, p, action, figure, width)
    \/ \E p \in Prices : HoldUnnamed(c, p)
    \/ \E p \in Prices, action \in Actions, width \in {"card", "stated"} :
          Decide(c, p, action, width)
    \/ OperationReads(c) \/ OperationWrites(c)

Next == \E c \in Clients : Promotion(c) \/ Steward(c) \/ Dies(c)

Spec == Init /\ [][Next]_vars
=============================================================================
