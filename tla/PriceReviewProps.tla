-------------------------- MODULE PriceReviewProps --------------------------
(***************************************************************************)
(* What the review of researched prices promises                            *)
(* (domain/promotion.py, tools/approve_prices.py).                          *)
(***************************************************************************)
EXTENDS PriceReview

Decided(row) == Decision(row) # "none"

\* What a steward decided about a price, and the figure it was about, change
\* only when a steward writes a decision about that price: promotions and
\* verdicts leave both alone (_standing_decision, promotion.py:1732), unless
\* the row changed between their read and their write.
DecisionsStand ==
    [][\A p \in Prices :
          Decided(card[p]) /\ (Decision(card'[p]) # Decision(card[p])
                               \/ card'[p].base # card[p].base) =>
             \/ \E c \in Clients : At(c, "write") /\ h[c].p = p /\ ~At(c, "write")'
             \/ p \in raced']_vars

\* A price that prices circuits is the figure its approval was about, with a
\* band about that same figure (approve_price, promotion.py:1760;
\* apply_decisions, approve_prices.py:78), unless two writers raced for it.
ApprovedWasSeen ==
    \A p \in Prices : card[p] # None /\ card[p].approved /\ p \notin raced =>
        card[p].base = looked[p] /\ card[p].bandOf = card[p].base

\* The largest count that the last promotion of a pair could use is on the
\* estate (_one_row_per_pair, promotion.py:1225), through every later promotion
\* that finds none it can use and every retraction; and it is there alone
\* (promote, promotion.py:1317) unless another promotion of the pair committed
\* between that promotion's delete and its commit.
NothingUsableLost ==
    \A q \in Pairs :
        LET last == offered[q]
            usable == {f \in last.counts : last.accept \/ ~f.conflicted}
        IN usable # {} =>
              \E row \in estate[q] :
                 /\ \E f \in usable : f.sites = row.sites
                 /\ \A f \in usable : f.sites <= row.sites
                 /\ last.alone => estate[q] = {row}
=============================================================================
