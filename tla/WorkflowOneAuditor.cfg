\* One request at a time, every workflow of up to three steps, one the worker
\* looks after, and a store that may fail.
SPECIFICATION FairSpec
CONSTANTS
    Auditors = {a1}
    Worker = w
    Templates <- UpToThree
    MaxCopies = 6
    MaxStarts = 2
    Restarted <- UpToTwo
    Completions = {TRUE, FALSE}
    MaxFaults = 1
INVARIANTS
    TypeOK ApprovedUnlessFaults InOrder OpenUntilDecided DisapprovedByAuditor
    NoOrphans
PROPERTIES DisapprovalStands SequentialOnce WorkflowEnds
CHECK_DEADLOCK FALSE
