SPECIFICATION FairSpec
CONSTANTS
    ruwiki = ruwiki
    enwiki = enwiki
    Wikis = {ruwiki, enwiki}
    Polled <- BoundWikis
    Limit = 2
    Capacity = 4
    TimeSteps = {0, 1}
    MaxEdits = 3
    MaxSaved = 5
    MaxFaults = 1
INVARIANTS
    TypeOK
    TakenAgainOnlyAfterOthers
PROPERTIES
    FirstPublishedInTimeOrder
    EveryEditPublishedOrDropped
CHECK_DEADLOCK FALSE
