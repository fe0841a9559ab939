\* Calls return although jobs outlast the minute, and the schedule is kept.
SPECIFICATION FairSpec
CONSTANTS
    Callers = {c1}
    MaxRequests = 2
    MaxDays = 0
    Configs = {"none", "hour", "always"}
    Kinds = {"run", "stop", "restart"}
    Timeouts = {"job", "loop"}
PROPERTIES CallsReturn ScheduleKept
CHECK_DEADLOCK FALSE
