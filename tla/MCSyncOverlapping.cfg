SPECIFICATION Spec
SYMMETRY Symmetry
CONSTANTS
    Id = {a, b}
    Column = {c}
    Sync = {s, t}
    NoSync = NoSync
    Strategies = {"incremental", "replacement"}
    SendCreatedAsUpdated = TRUE
    BatchPerCollection = TRUE
    MaxEdits = 2
    MaxFaults = 0
INVARIANTS UnsentIsMarked
CHECK_DEADLOCK FALSE
