SPECIFICATION FairSpec
CONSTANTS
    Calls = {c1, c2}
INVARIANTS
    TypeOK
PROPERTIES
    ReloadLosesNoSession
    Recovers
CHECK_DEADLOCK FALSE
