SPECIFICATION DLSpec
CONSTANTS
    Tables = {a}
    Keys = {k1, k2}
    Histories <- UpsertHistories
    TornReplays = FALSE
    RepairMayFail = TRUE
    MaxLog = 3
    MaxCrashes = 1
    MaxHiccups = 1
    Redelivery = TRUE
    MaxReplays = 2
    MaxDrops = 1
    MaxTimeouts = 1
INVARIANTS NothingLost DroppedStaysDropped RepeatsOnlyAfterCutOff StaleWritesRefused
