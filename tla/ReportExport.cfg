SPECIFICATION FairSpec
CONSTANTS
    Reports = {r1, r2}
    Keys = {k1, k2}
    Sessions = {s1, s2}
    None = None
    Damaged = Damaged
    MaxFailures = 3
CHECK_DEADLOCK FALSE
INVARIANTS
    FileKept
PROPERTIES
    ImplementsArtifactOnce
    CompletedKept
    EveryExportCompletes
