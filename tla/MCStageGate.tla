---------------------------- MODULE MCStageGate ----------------------------
EXTENDS StageGateProps, TLC

Requests == [create |-> 1, prefill |-> 1, answer |-> 2, map |-> 1, resolve |-> 1, put |-> 1,
             research |-> 1, assess |-> 1, advance |-> 1, corroborate |-> 1, all |-> 6]

Symmetry == Permutations(Clients) \cup Permutations(Answers)
=============================================================================
