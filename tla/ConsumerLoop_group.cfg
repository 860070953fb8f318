SPECIFICATION FairSpec
CONSTANTS
    Consumers = {c1, c2}
    Nobody = Nobody
    MaxRecords = 3
    MaxFaults = 3
INVARIANTS
    IInv
    NoSilentLoss
PROPERTIES
    ReorderedOnlyAfterFailure
    CommitOnlyForward
    EveryRecordSettles
    ImplementsContract
CHECK_DEADLOCK FALSE
