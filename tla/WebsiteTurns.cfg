\* Three threads, two addresses, time-outs and one ID that is queued twice.
SPECIFICATION FairSpec
CONSTANTS
    Threads = {t1, t2, t3}
    Values = {u1, u2}
    NoValue = NoValue
    MaxCalls = 3
    MaxMisses = 1
INVARIANTS TypeOK OneTurn StillQueued OneWebsite
PROPERTIES ImplementsValueTurns CallsReturn
CHECK_DEADLOCK FALSE
