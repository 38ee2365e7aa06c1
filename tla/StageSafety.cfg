CONSTANTS
    Clients = {c1, c2}
    Domains = {d1}
    Answers = {a1, a2}
    None = None
    Budget <- Requests
SPECIFICATION Spec
SYMMETRY Symmetry
INVARIANTS AdvancedOnComplete EvidenceBacksClaim OneRowPerDomain
PROPERTIES OnlyAPersonUnconfirms MappingKeepsPublicEvidence
CHECK_DEADLOCK FALSE
