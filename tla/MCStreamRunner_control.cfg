\* Two state requests at a time against one source, a draining task beside a
\* new one, restarts and a crash; nothing fails.
CONSTANTS
    Sources = {s1}
    Tasks = {t1, t2, t3}
    NoTask = NoTask
    MaxOffset = 1
    Earliest = TRUE
    NoSource = NoSource
    Handlers = {h1, h2}
    Targets = {"active", "paused"}
    Unconfigured = {}
    Faults = {}
    MaxCrashes = 1
    MaxCopies = 2
SPECIFICATION Spec
SYMMETRY Symmetry
INVARIANTS TypeOK OneTaskPerSource CancelHasWaiter PauseIsPending
PROPERTIES PauseIsQuiet SlotsImplemented
