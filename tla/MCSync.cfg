SPECIFICATION FairSpec
CONSTANTS
    Id = {a, b}
    Column = {c, d}
    Sync = {s}
    NoSync = NoSync
    Strategies = {"incremental", "replacement"}
    SendCreatedAsUpdated = TRUE
    BatchPerCollection = TRUE
    MaxEdits = 3
    MaxFaults = 1
INVARIANTS NothingSkipped UnsentIsMarked
PROPERTIES LocalEditsSurvive PushesOnlyEdits EventuallyConsistent
CHECK_DEADLOCK FALSE
