\* Two tool calls with any plan and format, everything may fail, and another client changes a table or an object.
CONSTANTS
    t1 = t1
    t2 = t2
    k1 = k1
    Tables <- MCTables
    ColumnsOf <- MCColumnsOf
    BlobColumns = {"op", "key"}
    Keys = {k1}
    Plans <- MCPlans
    Formats = {"csv", "jsonl", "raw"}
    NoHeader = NoHeader
    NoResult = NoResult
    NoAnswer = NoAnswer
    MaxRows = 6
    MaxSize = 2
    MaxChanges = 1
    Attempts = 2
    Faults = {"sql", "storage", "put", "audit"}
SPECIFICATION Spec
INVARIANTS TypeOK AnswerFitsResult StoredIsWhole EffectsInOrder
CHECK_DEADLOCK FALSE
