SPECIFICATION Spec
CONSTANTS
    Tables = {a, b}
    Keys = {k1, k2}
    Histories <- DriftFirstHistories
    TornReplays = FALSE
    RepairMayFail = FALSE
    MaxLog = 2
    MaxCrashes = 0
    MaxHiccups = 0
INVARIANTS
    AppliedOnceInSourceOrder
