SPECIFICATION FairSpec
CONSTANTS
    Tables = {a, b}
    Keys = {k1, k2}
    Histories <- TornHistories
    TornReplays = TRUE
    RepairMayFail = FALSE
    MaxLog = 4
    MaxCrashes = 0
    MaxHiccups = 0
PROPERTIES
    EveryGroupConsumed
