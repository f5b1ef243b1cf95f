SPECIFICATION Spec
CONSTANTS
    w1 = w1
    w2 = w2
    c1 = c1
    c2 = c2
    c3 = c3
    c4 = c4
    Docs = {1, 2}
    FamilyOf <- FamilyOfPair
    Effective <- EffectivePair
    Expiry <- ExpiryPair
    Never = 4
    Chunks = {c1, c2}
    DocOf <- DocOfPair
    Collections = {"a", "b"}
    CollectionOf <- CollectionOfOwn
    MaxGen = 2
    Workers = {w1, w2}
    None = None
    AttemptLimit = 2
    MaxFailures = 1
    MaxCrashes = 1
SYMMETRY WorkerSymmetry
INVARIANTS
    NoSilentMissingVectors
    ActiveCountsPublished
PROPERTIES
    BuildingManifestFrozen
    ActivePointsKept
CHECK_DEADLOCK FALSE
