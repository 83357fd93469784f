SPECIFICATION Spec
CONSTANTS
    Id = {a}
    Recurring = FALSE
    Kinds = {"simple", "reloading", "count"}
    Adapters = {"bridge", "synchronous"}
    MaxBatches = 3
    MaxSubscriptions = 2
    MaxHolds = 2
INVARIANTS ObserverIsCurrent
CHECK_DEADLOCK FALSE
