SPECIFICATION TakeoverSpec
CONSTANTS
    Tables = {a, b}
    Keys = {k1, k2}
    Histories <- HealthyHistories
    TornReplays = TRUE
    RepairMayFail = FALSE
    MaxLog = 5
    MaxCrashes = 1
    MaxHiccups = 0
INVARIANTS
    TypeOK
    NoEventLost
    AppliedOnceInSourceOrder
PROPERTIES
    ImplementsMirror
