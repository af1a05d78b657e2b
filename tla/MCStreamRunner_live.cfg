\* One state request at a time, any number that fail after their commit, two records and the
\* code's own reset policy: records reach the runner, stops and shutdowns end.
CONSTANTS
    Sources = {s1}
    Tasks = {t1, t2}
    NoTask = NoTask
    MaxOffset = 2
    Earliest = FALSE
    NoSource = NoSource
    Handlers = {h1}
    Targets = {"active", "paused"}
    Unconfigured = {}
    Faults = {"set_state"}
    MaxCrashes = 0
    MaxCopies = 2
SPECIFICATION FairSpec
PROPERTIES EventuallyTaken ShutdownEnds StopAnswers
