---------------------------- MODULE MCPriceReview ----------------------------
EXTENDS PriceReviewProps, TLC
CONSTANTS p1, q1, usd, eur

\* The counts for French plants that _one_row_per_pair tells of: the larger
\* one is disputed.
Disputed == [pair |-> q1, sites |-> 2, conflicted |-> TRUE]
Clean == [pair |-> q1, sites |-> 1, conflicted |-> FALSE]
InDollars == [price |-> p1, figure |-> usd, conflicted |-> FALSE]
InEuros == [price |-> p1, figure |-> eur, conflicted |-> FALSE]
InDoubt == [price |-> p1, figure |-> usd, conflicted |-> TRUE]

Asked ==
    {[prices |-> {InDollars, InEuros}, counts |-> {}, accept |-> FALSE],
     [prices |-> {}, counts |-> {Disputed, Clean}, accept |-> FALSE],
     [prices |-> {}, counts |-> {Disputed, Clean}, accept |-> TRUE],
     [prices |-> {InDoubt}, counts |-> {Disputed}, accept |-> FALSE]}

\* Three promotions, so that one follows two that overlapped; a line of a register
\* and a row named by hand.
Allowed == [promote |-> 3, register |-> 1, decide |-> 1]

Symmetry == Permutations(Clients)
=============================================================================
