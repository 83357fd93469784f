SPECIFICATION Spec
CONSTANTS
    Platform = {"node", "ios", "android"}
    Debug = {TRUE, FALSE}
    MaxVersion = 3
    MaxCalls = 2
    MaxLaunches = 3
INVARIANTS UsesItsSchema AnswersInOrder HeldIsStored
PROPERTIES DataIsKept 
CHECK_DEADLOCK FALSE
