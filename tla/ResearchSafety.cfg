CONSTANTS
    NDomains = 2
    MaxQueries = 2
    MaxDomainCaptures = 2
    MaxRunCaptures = 3
    MinSources = 2
    MaxClaims = 2
    MaxScopes = 2
    MaxRequests = 2
    None = None
SPECIFICATION FairSpec
INVARIANTS WithinBudgets RowsAreTraceable RunsSettle
PROPERTIES FailureWritesNothing InvocationsEnd WalkKeepsPromise
CHECK_DEADLOCK FALSE
