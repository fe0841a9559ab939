\* An automated job and one REST thread at a time.
SPECIFICATION Spec
CONSTANTS
    Callers = {c1}
    MaxRequests = 3
    MaxDays = 1
    Configs = {"hour", "always"}
    Kinds = {"run", "stop", "restart"}
    Timeouts = {"loop"}
INVARIANTS TypeOK AtMostOneRun StoppedMeansStopped OncePerDay StartedListens
CHECK_DEADLOCK FALSE
