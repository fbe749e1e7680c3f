SPECIFICATION FairSpec
CONSTANTS
    EventCounts = {0, 2}
    MaxRetries = 2
    MaxTx = 2
    MaxCrashes = 1
    MaxDrops = 1
    MaxProduceFailures = 2
INVARIANTS
    TypeOK
    ConfirmedOnlyAfterKafka
    NeverOutOfSourceOrder
    FirstOccurrencesInSourceOrder
    AtMostOneUnacknowledged
PROPERTIES
    SlotNeverRegresses
    ImplementsTopic
    EveryTransactionAcknowledged
