SPECIFICATION FairSpec
CONSTANTS
    Rows = {"a", "b", "c"}
    Loads <- ThreeLoads
    ChunkSize = 2
    TokenBudget = 4
    PackLimit = 2
    MaxPositions = 8
    Room <- Doubling
    Copies = TRUE
    Capacity = 7
    Workspace = 2
    Scale = 3
    Initial = 2
    Minimum = 1
    RetractSteps = 1
    Cancellable = {"a"}
    MaxStalls = 1
    MaxFaults = 1
CHECK_DEADLOCK FALSE
INVARIANTS TypeOK HeldByOccupants PositionsMatch WaitersServed
PROPERTIES RefusedOnlyIfTooLarge RowsEnd
