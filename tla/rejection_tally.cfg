SPECIFICATION FairSpec
CONSTANTS
    Rejections = {r1, r2, r3}
    Cap = 2
    MaxSpans = 2
    MaxFailures = 2
INVARIANTS
    TallyBounded
PROPERTIES
    KeepsLedger
    CloseReturns
    CountsReachTable
CHECK_DEADLOCK FALSE
