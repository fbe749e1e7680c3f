SPECIFICATION FairSpec
CONSTANTS
    Readers = {r1, r2}
    Nobody = nobody
    Wal <- TwoTransactions
    MaxExits = 1
    MaxFenceDrops = 1
    MaxStreamDrops = 2
INVARIANTS TypeOK OneReader ConfirmedOnlyAfterKafka FirstOccurrencesInSourceOrder
PROPERTIES FailoverCompletes
