SPECIFICATION FairSpec
CONSTANTS
    Processes = {d1, d2}
    Nobody = Nobody
    Users = {u1}
    Shas = {s1, s2}
    NoSha = NoSha
    SignalSets <- PlainOnly
    RecentRevisionWindow = 2
    RecentEditWindow = 2
    Day = 2
    SixHours = 1
    MaxRevisions = 2
    MaxReplays = 1
    MaxOutages = 0
    MaxFaults = 2
INVARIANTS
    PublishedOnlyPersisted
    CommittedIsPublished
PROPERTIES
    SnapshotForgetsOnlyUnknown
    ImplementsLoop
CHECK_DEADLOCK FALSE
