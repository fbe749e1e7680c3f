SPECIFICATION TakeoverFairSpec
CONSTANTS
    Tables = {a}
    Keys = {k1, k2}
    Histories <- FaultyHistories
    TornReplays = FALSE
    RepairMayFail = FALSE
    MaxLog = 4
    MaxCrashes = 1
    MaxHiccups = 1
INVARIANTS
    NoEventLost
    
    HealthyTransactionsAtomic
    TransactionsInOrder
    
    TakeoverDriftHealed
    NoRowOvertaken
PROPERTIES
    EveryGroupConsumed
