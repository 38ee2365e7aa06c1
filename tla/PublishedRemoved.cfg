CONSTANTS
    Clients = {c1, c2}
    Facts = {f1}
    Sims = {s1}
    Sites = {1, 2}
    MaxSnapshots = 3
    Budget <- MCBudget
    None = none
SPECIFICATION Spec
CHECK_DEADLOCK FALSE
PROPERTY PublishedStays
