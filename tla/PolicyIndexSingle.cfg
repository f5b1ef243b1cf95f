SPECIFICATION Spec
CONSTANTS
    w1 = w1
    w2 = w2
    c1 = c1
    c2 = c2
    c3 = c3
    c4 = c4
    Docs = {1, 2, 3}
    FamilyOf <- FamilyOfChain
    Effective <- EffectiveChain
    Expiry <- ExpiryChain
    Never = 4
    Chunks = {c1, c2, c3, c4}
    DocOf <- DocOfChain
    Collections = {"a", "b"}
    CollectionOf <- CollectionOfOnly
    MaxGen = 1
    Workers = {w1, w2}
    None = None
    AttemptLimit = 2
    MaxFailures = 2
    MaxCrashes = 1
SYMMETRY WorkerSymmetry
INVARIANTS
    TypeOK
    ServedIntervalCurrent
    SearchUnambiguous
    LeaseHeldThroughUpsert
PROPERTIES
    ImplementsVersions
CHECK_DEADLOCK FALSE
