SPECIFICATION FairSpec
CONSTANTS
    w1 = w1
    w2 = w2
    c1 = c1
    c2 = c2
    c3 = c3
    c4 = c4
    Docs = {1, 2}
    FamilyOf <- FamilyOfPair
    Effective <- EffectivePair
    Expiry <- ExpiryPair
    Never = 4
    Chunks = {c1, c2}
    DocOf <- DocOfPair
    Collections = {"a", "b"}
    CollectionOf <- CollectionOfOnly
    MaxGen = 1
    Workers = {w1, w2}
    None = None
    AttemptLimit = 3
    MaxFailures = 1
    MaxCrashes = 1
PROPERTIES
    EveryPublicationSettles
CHECK_DEADLOCK FALSE
