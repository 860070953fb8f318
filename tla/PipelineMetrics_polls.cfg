SPECIFICATION Spec
CONSTANTS
    Pages = {pg1, pg2}
    NumPartitions = 2
    CatchingUp = 1
    MaxRecords = 1
    MaxFaults = 1
SYMMETRY Symmetry
INVARIANTS
    MessagesCountedOnce
PROPERTIES
    HealthyWasDrained
CHECK_DEADLOCK FALSE
