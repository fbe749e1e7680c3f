SPECIFICATION FairSpec
CONSTANTS
    EventCounts = {1, 2}
    MaxRetries = 1
    MaxTx = 2
    MaxCrashes = 0
    MaxDrops = 0
    MaxProduceFailures = 1
PROPERTIES
    OutageRiddenOut
