SPECIFICATION FairSpec
CONSTANTS
    ruwiki = ruwiki
    enwiki = enwiki
    Wikis = {ruwiki, enwiki}
    Polled <- BoundWikis
    Limit = 2
    Capacity = 2
    TimeSteps = {0, 1}
    MaxEdits = 1
    MaxSaved = 2
    MaxFaults = 1
PROPERTIES
    EveryListedEditPublished
CHECK_DEADLOCK FALSE
