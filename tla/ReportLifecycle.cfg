SPECIFICATION ReportSpec
CONSTANTS
    Docs = {1, 2, 3}
    FamilyOf <- FamilyOfThree
    Effective <- EffectiveThree
    Expiry <- ExpiryThree
    Never = 3
    Rules = {"r1"}
    Quotes = {"q1"}
    Files = {"f1", "f2"}
    Findings <- FindingsOfTwo
    BadRows <- BadRowsOfTwo
    Keys = {k1, k2}
    Templates = {t1, t2}
    None = None
    MaxConfigs = 1
    MaxFailures = 1
SYMMETRY KeysAlike
CHECK_DEADLOCK FALSE
INVARIANTS
    ReportTypeOK
    OneVersionCited
    DocumentBoundOnce
    OneSetPerDay
    PreparedIsCurrent
    ReportWhole
    OneRequestPerKey
    CitationsStand
