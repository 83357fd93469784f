SPECIFICATION Spec
SYMMETRY Symmetry
CONSTANTS
    Id = {a, b}
    NoId = NoId
    Adapters = {"sqlite", "sqliteSync", "loki"}
    CanFail = TRUE
    Stale = FALSE
    MaxVersion = 2
    MaxModels = 2
    MaxInFlight = 2
INVARIANTS TypeOK OnlyDeletedMissed OneLiveModel CacheIsCoherent
PROPERTIES ResetLeavesNothing
CHECK_DEADLOCK FALSE
