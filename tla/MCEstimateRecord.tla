-------------------------- MODULE MCEstimateRecord --------------------------
EXTENDS EstimateRecordProps, TLC

\* Five requests in all, of a mix that lets the same thing be asked twice at once.
MCBudget == [k \in Kinds \cup {"all"} |->
    CASE k = "all" -> 5
      [] k = "estimate" -> 3
      [] k \in {"corroborate", "narrate"} -> 2
      [] OTHER -> 1]

Symmetry == Permutations(Clients)
=============================================================================
