SPECIFICATION FairSpec
CONSTANTS
    Item = {w1, w2, r1, r2}
    Writer = {w1, w2}
    NoItem = NoItem
    FailFast = FALSE
INVARIANTS TypeOK OneExecutor QueueIsFresh WriterExclusion
PROPERTIES RunsOnce EveryCallSettles ImplementsSerialAccess
CHECK_DEADLOCK FALSE
