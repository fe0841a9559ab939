\* After a successful delete the cache must not know the vertex.
SPECIFICATION Spec
CONSTANTS
    Threads = {t1, t2}
    Objects = {o1, o2, o3}
    Vertex = v1
    Author = t1
    Deleters = {t1, t2}
    NoThread = NoThread
    NoObject = NoObject
    OfflineRetries = 1
    MaxVersion = 1
INVARIANTS DeletedNotCached
