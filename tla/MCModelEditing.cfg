SPECIFICATION Spec
SYMMETRY Symmetry
CONSTANTS
    Column = {c, d}
    Depth = 2
    Leaves = 2
    MaxCalls = 3
    MaxSets = 1
    MaxFaults = 1
INVARIANTS NoOrphans ChangesAreMarked
PROPERTIES DeletedForGood
CHECK_DEADLOCK FALSE
