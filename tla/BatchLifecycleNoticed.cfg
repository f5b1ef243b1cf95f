SPECIFICATION Spec
CONSTANTS
    w1 = w1
    w2 = w2
    i1 = i1
    i2 = i2
    paid = paid
    travelled = travelled
    MaxFiles = 2
    Contents = {w1, w2}
    HeaderOf <- SameHeader
    MapConfigs = {paid}
    Cells <- OneRow
    Failed = Failed
    Keys = {"k1"}
    RuleIds = {"r1"}
    Definitions <- OneDefinition
    Kinds = {"invoice_duplicate"}
    Dates = {1}
    None = None
    MaxMappings = 1
    MaxRules = 1
CHECK_DEADLOCK FALSE
INVARIANTS
    DuplicateNoticed
