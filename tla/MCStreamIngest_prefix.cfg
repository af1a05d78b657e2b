\* One webhook request to a source whose objects have no prefix; nothing fails.
CONSTANTS
    Bodies <- MCNoPrefix
    Posts = {p1}
    Conns = {}
    Replayers = {x1}
    NoMsg = NoMsg
    MaxFrames = 1
    MaxClock = 0
    MaxReplays = 1
    MaxCrashes = 0
    Faults = {}
SPECIFICATION Spec
INVARIANT RegisteredSinkWorks
CHECK_DEADLOCK FALSE
