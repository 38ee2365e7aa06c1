------------------------------ MODULE MCSimJobs ------------------------------
EXTENDS SimJobsProps, TLC

\* Threads and request handlers are interchangeable; run ids are ordered by created_at.
Symmetry == Permutations(Clients) \cup Permutations(Threads)
============================================================================
