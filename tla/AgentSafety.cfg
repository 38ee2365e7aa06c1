CONSTANTS
    Callers = {c1, c2}
    Keys = {k1}
    None = none
    Styles = {"advise", "corroborate", "collect", "explain"}
    max_attempts = 2
    max_transport_retries = 1
    MaxRequests = 2
    MaxIssued = 2
    MaxCrashes = 1
SPECIFICATION Spec
CHECK_DEADLOCK FALSE
SYMMETRY Symmetry
INVARIANTS
    PublishedPassedTheGate
    EvidenceUsedOnce
    LiveSuccessHasProof
    SameKeySameRun
    SpendBounded
    Settled
