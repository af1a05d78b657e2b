\* Every await but the commit of a state may fail; one state request at a time, two
\* sources of which one has no bootstrap address.
CONSTANTS
    Sources = {s1, s2}
    Tasks = {t1, t2}
    NoTask = NoTask
    MaxOffset = 1
    Earliest = TRUE
    NoSource = NoSource
    Handlers = {h1}
    Targets = {"active", "paused"}
    Unconfigured = {s2}
    Faults = {"get", "open_run", "open", "poll", "decode", "check", "write", "bump", "dlq", "bump_err", "close", "close_run"}
    MaxCrashes = 1
    MaxCopies = 2
SPECIFICATION Spec
SYMMETRY Symmetry
INVARIANTS TwiceOnlyIfUnclean RunAccounts ActiveHasTask
PROPERTY FatesImplemented
