\* One request, which doJob() accepts and nobody runs.
SPECIFICATION FairSpec
CONSTANTS
    Callers = {c1}
    MaxRequests = 1
    MaxDays = 0
    Configs = {"none"}
    Kinds = {"run"}
    Timeouts = {}
PROPERTIES AcceptedRuns
CHECK_DEADLOCK FALSE
