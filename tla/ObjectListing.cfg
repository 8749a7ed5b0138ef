SPECIFICATION FairSpec
CONSTANTS
    Keys <- MCKeys
    ChunkSize = 2
    Slash = 2
    Populations <- MCPopulations
    Selections <- MCSelections
    NodePage = 2
    Budget = 3
    Limit = 2
    MaxSourcePages = 2
    NULL = NULL
    MaxWrites = 2
    MaxFaults = 1
INVARIANTS StableListedInOrder NothingDeadListed
PROPERTY ListingEnds
CHECK_DEADLOCK FALSE
