SPECIFICATION Spec
CONSTANTS
    Reports = {"old", "new"}
    Legacy = {"old"}
    GroupOf <- GroupsOfTwo
    VerdictOf <- VerdictsOfTwo
    Parameters <- TwoParameters
    Notes = {"n"}
    Keys = {k1, k2}
    None = None
    MaxConfigs = 2
SYMMETRY KeysAlike
CHECK_DEADLOCK FALSE
INVARIANTS
    ReviewTypeOK
    GrantedIsStored
    PendingIsDecidable
    SampleFollowsConfig
    SummaryAddsUp
