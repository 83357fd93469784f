SPECIFICATION Spec
CONSTANTS
    Id = {r, s}
    ServerIds = {s}
    Adapter = {a1, a2}
    NoAdapter = NoAdapter
    MaxVersion = 2
    MaxBatch = 2
    Locking = {TRUE, FALSE}
    Faults = {"begin", "commit", "select"}
SYMMETRY Symmetry
INVARIANTS CachedWasDelivered
PROPERTIES PulledImpliesLoaded ImplementsStoredDatabase
