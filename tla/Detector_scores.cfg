SPECIFICATION Spec
CONSTANTS
    Processes = {d1}
    Nobody = Nobody
    Users = {u1, u2, u3}
    Shas = {s1, s2, s3}
    NoSha = NoSha
    SignalSets <- Scored
    RecentRevisionWindow = 5
    RecentEditWindow = 5
    Day = 4
    SixHours = 3
    MaxRevisions = 5
    MaxReplays = 0
    MaxOutages = 0
    MaxFaults = 0
SYMMETRY Symmetry
INVARIANTS
    ClusterClaimsTrue
    ReciprocalPairsExact
PROPERTIES
    ScoreFallsOnlyByExpiryOrCleanup
CHECK_DEADLOCK FALSE
