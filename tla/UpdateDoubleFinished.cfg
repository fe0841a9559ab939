\* A failed update releases the ID of the update that came after it.
SPECIFICATION Spec
CONSTANTS
    Threads = {t1, t2, t3}
    Ids = {v1}
    NoId = NoId
    NoThread = NoThread
    Responses = {"ok", "other"}
    OfflineRetries = 0
SYMMETRY Symmetry
INVARIANTS MutualExclusion
