\* Every response ElasticSearch can give, with one retry, and every update
\* returns once ElasticSearch stays reachable.
SPECIFICATION FairSpec
CONSTANTS
    Threads = {t1, t2}
    Ids = {v1, v2}
    NoId = NoId
    NoThread = NoThread
    Responses = {"ok", "rejected", "missing", "noNode", "other"}
    OfflineRetries = 1
INVARIANTS
    TypeOK LockHasOwner SuccessIsWritten StackBounded ExclusiveUntilThrown
PROPERTIES ReleasedByOwner ImplementsVertexLock UpdatesReturn
