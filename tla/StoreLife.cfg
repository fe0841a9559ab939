\* Two threads, one retry: everything two objects of a vertex can do.
SPECIFICATION FairSpec
CONSTANTS
    Threads = {t1, t2}
    Objects = {o1, o2, o3}
    Vertex = v1
    Author = t1
    Deleters = {t2}
    NoThread = NoThread
    NoObject = NoObject
    OfflineRetries = 1
    MaxVersion = 2
INVARIANTS TypeOK OneDocument DeletedForGood ReportedSave
PROPERTIES CallsReturn
