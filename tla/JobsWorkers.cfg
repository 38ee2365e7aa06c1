CONSTANTS
    Clients = {c1, c2}
    Threads = {t1, t2, t3}
    Main = main
    None = none
    SIM_WORKERS = 2
    SIM_QUEUE_MAX = 1
    SIM_CHECKPOINT_EVERY = 1
    Passes = 1
    MaxRuns = 4
    MaxRequests = 0
    MaxFaults = 1
    FaultKinds = {"job", "db", "crash"}
SPECIFICATION Spec
SYMMETRY Symmetry
INVARIANTS
    WorkerBound
    OneWorkerPerRun
    OverAdmissionBounded
    NothingStranded
