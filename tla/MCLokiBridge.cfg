SPECIFICATION Spec
CONSTANTS
    WebWorker = {TRUE, FALSE}
    AllowsFatalError = {TRUE, FALSE}
    Autosaves = {TRUE, FALSE}
    MaxVersion = 2
    MaxCalls = 2
    MaxLaunches = 3
    Refusals = {1, 2}
INVARIANTS ResponsesInOrder UsesItsSchema DiskIsSound
PROPERTIES EveryCallAnswered WritesAreSaved
CHECK_DEADLOCK FALSE
