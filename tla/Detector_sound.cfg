SPECIFICATION Spec
CONSTANTS
    Processes = {d1}
    Nobody = Nobody
    Users = {u1, u2}
    Shas = {s1, s2, s3}
    NoSha = NoSha
    SignalSets <- PlainOrRevert
    RecentRevisionWindow = 3
    RecentEditWindow = 3
    Day = 2
    SixHours = 1
    MaxRevisions = 4
    MaxReplays = 0
    MaxOutages = 1
    MaxFaults = 1
SYMMETRY Symmetry
INVARIANTS
    TypeOK
    RevertEdgesSound
    RevertsClassified
    ThreeRevertRiskSound
CHECK_DEADLOCK FALSE
