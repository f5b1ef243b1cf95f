SPECIFICATION Spec
CONSTANTS
    Users = {u}
    Tokens = {t1}
    Requests = {r1, r2, r3}
    None = None
    Throttle = 2
    IdleTimeout = 5
    AbsoluteTimeout = 6
    MaxDuration = 2
    MaxTime = 7
    MaxRefusals = 1
SYMMETRY Alike
CHECK_DEADLOCK FALSE
INVARIANTS
    SessionsTypeOK
    UsedIsSeen
    AuditTells
PROPERTIES
    EndedStaysEnded
