CONSTANTS
    Services = {api}
    Operators = {op}
    Newer = {next}
    SCHEMA_VERSION = 71
    PastBuilds = {1, 8, 16, 43, 60, 71, 72}
    MaxStarts = 3
    Recent = 43
    None = none
SPECIFICATION Spec
CHECK_DEADLOCK FALSE
INVARIANTS
    StampIsEarned
    ServesWhole
PROPERTIES
    NewerIsUntouched
    EditsSurviveStart
