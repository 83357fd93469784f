SPECIFICATION Spec
SYMMETRY Symmetry
CONSTANTS
    Id = {a, b}
    simpleQuery = simpleQuery
    reloadingQuery = reloadingQuery
    first = first
    second = second
    third = third
    Query <- MCQuery
    Simple <- MCSimple
    Subscriber <- MCSubscriber
    Observes <- MCObserves
    Adapters = {"bridge", "synchronous"}
    Reentrant = FALSE
    MaxBatches = 2
    MaxSources = 3
INVARIANTS ListsAreCurrent OneSource
CHECK_DEADLOCK FALSE
