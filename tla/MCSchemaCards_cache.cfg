\* Two callers, three scopes over three tables, entries that live for one unit of time; a
\* table comes or goes; loading, resolving, storing and single cards may fail.
CONSTANTS
    Tables <- MCTables
    System <- MCSystem
    Scopes <- MCScopes
    Separator <- MCSeparator
    Wide <- MCWide
    Callers = {c1, c2}
    TTL = 1
    MaxClock = 1
    MaxChanges = 1
    NoBundle = NoBundle
    Faults = {"load", "resolve", "card", "save"}
SPECIFICATION Spec
SYMMETRY Symmetry
INVARIANTS TypeOK AnswerFitsScope FailsOnlyByFault
PROPERTY GoneIsForgotten
