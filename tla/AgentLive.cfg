CONSTANTS
    Callers = {c1, c2}
    Keys = {k1}
    None = none
    Styles = {"corroborate", "collect"}
    max_attempts = 2
    max_transport_retries = 1
    MaxRequests = 2
    MaxIssued = 1
    MaxCrashes = 0
SPECIFICATION FairSpec
CHECK_DEADLOCK FALSE
PROPERTIES
    RequestsEnd
