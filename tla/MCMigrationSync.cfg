SPECIFICATION FairSpec
CONSTANTS
    Table = {t}
    Column = {c, d}
    EnabledAt = {0, 1}
    Legacy = TRUE
    BatchPerCollection = FALSE
    MaxVersion = 3
    MaxEdits = 2
    MaxResets = 1
    MaxFaults = 2
INVARIANTS NothingSkipped NeverAhead
PROPERTIES EventuallyConsistent
CHECK_DEADLOCK FALSE
