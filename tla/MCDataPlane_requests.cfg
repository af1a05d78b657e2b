\* Two requests of any kind, each sent up to twice, an upload past the service; S3, the
\* database, the log and NATS may fail and the process may die. All requests answered is
\* an end.
CONSTANTS
    Reqs = {r1, r2}
    Kinds = {"get", "put", "delete", "stat", "list", "sign", "bucket", "sql", "sql_many"}
    Keys = {k1}
    Payloads = {x, y}
    NoReq = NoReq
    NoObject = NoObject
    MaxTries = 2
    MaxUploads = 1
    MaxCrashes = 1
    Faults = {"s3", "sql", "commit", "nats"}
SPECIFICATION Spec
SYMMETRY Symmetry
CHECK_DEADLOCK FALSE
INVARIANTS TypeOK AnsweredIsAudited PutIsIdempotent LoggedHasHappened
