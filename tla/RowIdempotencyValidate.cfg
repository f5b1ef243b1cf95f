SPECIFICATION Spec
CONSTANTS
    Rows = {1, 2, 3}
    Verdicts = {ok, flagged}
    None = None
    Sessions = {s1, s2}
    Locked = TRUE
    Strict = TRUE
    MaxFailures = 2
CHECK_DEADLOCK FALSE
PROPERTIES
    ImplementsRowOnce
