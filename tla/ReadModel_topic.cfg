SPECIFICATION FairSpec
CONSTANTS
    Articles = {a1, a2}
    Contents <- OnlyHot
    MaxVersions = 2
    MaxFaults = 1
INVARIANTS
    TypeOK
    CommittedIsAnnounced
    DrainedReadsAreCurrent
PROPERTIES
    RowRegressesOnlyBehindLog
    Converges
CHECK_DEADLOCK FALSE
