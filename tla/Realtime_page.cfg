SPECIFICATION FairSpec
CONSTANTS
    MaxUpdates = 3
    MaxFaults = 1
    MaxReloads = 1
INVARIANTS
    TypeOK
    CurrentUnlessExcused
PROPERTIES
    MessagesGoForward
    MembersCatchUp
CHECK_DEADLOCK FALSE
