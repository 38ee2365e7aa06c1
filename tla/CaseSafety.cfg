CONSTANTS
    Clients = {c1, c2}
    Identities = {e1, e2}
    Intakes = {i1, missing}
    Missing = missing
    Facts = {f1}
    None = none
    Budget <- Requests
SPECIFICATION Spec
CHECK_DEADLOCK FALSE
SYMMETRY Symmetry
INVARIANTS
    GateSound
    RunsWereApproved
    ConfirmationDescribesCase
PROPERTIES
    PerimeterChangesAreVersioned
