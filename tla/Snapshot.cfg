SPECIFICATION SnapFairSpec
CONSTANTS
    Tables = {a}
    Keys = {k1, k2}
    Histories <- AllHistories
    Scenarios <- AllScenarios
    TornReplays = FALSE
    RepairMayFail = FALSE
    MaxLog = 0
    MaxCrashes = 1
    MaxHiccups = 0
    MaxRepeats = 1
    MaxSlotLosses = 1
INVARIANTS HandoverConverges SnapshotPrecedesStream
PROPERTIES HandoverCompletes
