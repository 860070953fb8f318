SPECIFICATION Spec
CONSTANTS
    Processes = {m1, m2}
    Nobody = Nobody
    NumTopics = 2
    Titles = {"seed", "weak"}
    CategorySets = {"related", "films"}
    NoCategories = "unrelated"
    Rules <- TwoTopics
    MaxEdits = 2
    MaxMoves = 1
    MaxReviews = 1
    MaxFaults = 2
SYMMETRY Symmetry
INVARIANTS
    TypeOK
    SeededEditsPublished
    PublishedIsMember
PROPERTIES
    ConfirmedSticks
    ImplementsLoop
CHECK_DEADLOCK FALSE
