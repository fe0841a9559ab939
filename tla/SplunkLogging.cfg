\* Three activities and two mishaps, pages of one and of two, deletes by one
\* thread or by a pool.
SPECIFICATION FairSpec
CONSTANTS
    MaxActivities = 3
    MaxMishaps = 2
    Limit = 1
    MaxIteratorSize = 2
    BatchSize = 2
    Pools = {TRUE, FALSE}
    Debug = TRUE
INVARIANTS TypeOK OnlyTroubleDuplicates
PROPERTIES DeletedIsSent RunEnds AllSent
