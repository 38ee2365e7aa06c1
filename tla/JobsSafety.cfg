CONSTANTS
    Clients = {c1}
    Threads = {t1, t2}
    Main = main
    None = none
    SIM_WORKERS = 1
    SIM_QUEUE_MAX = 2
    SIM_CHECKPOINT_EVERY = 1
    Passes = 2
    MaxRuns = 2
    MaxRequests = 1
    MaxFaults = 2
    FaultKinds = {"job", "db", "thread", "crash"}
SPECIFICATION FairSpec
INVARIANTS
    TypeOK
    Reproducible
PROPERTIES
    KeepsPromise
    AcceptedRunsFinish
