SPECIFICATION Spec
CONSTANTS
    w1 = w1
    w2 = w2
    i1 = i1
    i2 = i2
    paid = paid
    travelled = travelled
    MaxFiles = 3
    Contents = {w1, w2}
    HeaderOf <- OwnHeader
    MapConfigs = {paid, travelled}
    Cells <- SharedInvoice
    Failed = Failed
    Keys = {k1, k2}
    RuleIds = {"r1"}
    Definitions <- OneDefinition
    Kinds = {"invoice_duplicate"}
    Dates = {1, 2}
    None = None
    MaxMappings = 3
    MaxRules = 2
VIEW ReasonsAside
SYMMETRY KeysAlike
CHECK_DEADLOCK FALSE
INVARIANTS
    TypeOK
    ReplayFromManifest
    RevisionChain
    
    ValidatedIsSeen
