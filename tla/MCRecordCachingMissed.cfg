SPECIFICATION Spec
SYMMETRY Symmetry
CONSTANTS
    Id = {a, b}
    NoId = NoId
    Adapters = {"sqlite"}
    CanFail = FALSE
    Stale = FALSE
    MaxVersion = 2
    MaxModels = 2
    MaxInFlight = 2
INVARIANTS NothingMissed
CHECK_DEADLOCK FALSE
