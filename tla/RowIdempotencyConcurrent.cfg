SPECIFICATION FairSpec
CONSTANTS
    Rows = {1, 2, 3}
    Verdicts = {ok, flagged}
    None = None
    Sessions = {s1, s2}
    Locked = FALSE
    Strict = FALSE
    MaxFailures = 1
CHECK_DEADLOCK FALSE
INVARIANTS
    OutcomesAgree
    EffectsWithResult
PROPERTIES
    EveryRowSettles
