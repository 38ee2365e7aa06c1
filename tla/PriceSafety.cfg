CONSTANTS
    p1 = p1
    q1 = q1
    usd = usd
    eur = eur
    Clients = {c1, c2}
    Prices = {p1}
    Figures = {usd, eur}
    Pairs = {q1}
    MaxSites = 2
    MaxEntries = 2
    Requests <- Asked
    Budget <- Allowed
    None = none
SPECIFICATION Spec
CHECK_DEADLOCK FALSE
SYMMETRY Symmetry
INVARIANTS
    ApprovedWasSeen
    NothingUsableLost
PROPERTIES
    DecisionsStand
