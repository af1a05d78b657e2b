\* Two overlapping state requests leave an active source without a task.
CONSTANTS
    Sources = {s1}
    Tasks = {t1, t2, t3}
    NoTask = NoTask
    MaxOffset = 0
    Earliest = TRUE
    NoSource = NoSource
    Handlers = {h1, h2}
    Targets = {"active", "paused"}
    Unconfigured = {}
    Faults = {}
    MaxCrashes = 0
    MaxCopies = 2
SPECIFICATION Spec
SYMMETRY Symmetry
INVARIANT ActiveHasTask
