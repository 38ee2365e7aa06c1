----------------------------- MODULE MCAgentRun -----------------------------
EXTENDS AgentRunProps, TLC

\* Handlers are interchangeable, and so are the keys clients choose.
Symmetry == Permutations(Callers) \cup Permutations(Keys)
=============================================================================
