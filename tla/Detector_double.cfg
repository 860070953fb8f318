SPECIFICATION Spec
CONSTANTS
    Processes = {d1}
    Nobody = Nobody
    Users = {u1, u2}
    Shas = {s1, s2}
    NoSha = NoSha
    SignalSets <- PlainOrRevert
    RecentRevisionWindow = 3
    RecentEditWindow = 4
    Day = 2
    SixHours = 1
    MaxRevisions = 2
    MaxReplays = 1
    MaxOutages = 0
    MaxFaults = 1
SYMMETRY Symmetry
INVARIANTS
    ThreeRevertEvidenceTrue
CHECK_DEADLOCK FALSE
