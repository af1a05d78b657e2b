\* Two webhook requests into a table or into objects, or one websocket connection into
\* objects with and without a prefix; two replays at a time, everything but the dead
\* letters may fail, the process may die.
CONSTANTS
    Bodies <- MCBodies
    Posts = {p1, p2}
    Conns = {c1}
    Replayers = {x1, x2}
    NoMsg = NoMsg
    MaxFrames = 2
    MaxClock = 1
    MaxReplays = 2
    MaxCrashes = 1
    Faults = {"body", "write", "send", "mark"}
SPECIFICATION Spec
SYMMETRY Symmetry
INVARIANTS TypeOK OnlyTwinsReplace ParkedUntilStored OffAtTheDoor
PROPERTY FatesImplemented
CHECK_DEADLOCK FALSE
