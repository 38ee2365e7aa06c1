----------------------------- MODULE MCCaseGate -----------------------------
EXTENDS CaseGateProps, TLC

\* One save, two confirmations and two reports compete with one run.
Requests == [update |-> 1, confirm |-> 2, preflight |-> 2, run |-> 1]

\* Request threads are interchangeable, and so are identities.
Symmetry == Permutations(Clients) \cup Permutations(Identities)
=============================================================================
