\* One of two parallel auditors disapproves.
SPECIFICATION Spec
CONSTANTS
    Auditors = {a1, a2}
    Worker = w
    Templates <- TwoInParallel
    MaxCopies = 8
    MaxStarts = 1
    Restarted = {}
    Completions = {TRUE}
    MaxFaults = 0
PROPERTIES DisapprovalStands
CHECK_DEADLOCK FALSE
