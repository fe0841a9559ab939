\* The edge to the next step is not saved.
SPECIFICATION Spec
CONSTANTS
    Auditors = {a1}
    Worker = w
    Templates <- OneByOne
    MaxCopies = 6
    MaxStarts = 1
    Restarted = {}
    Completions = {TRUE}
    MaxFaults = 1
INVARIANTS ApprovedByAll
CHECK_DEADLOCK FALSE
