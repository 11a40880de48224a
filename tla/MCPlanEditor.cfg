SPECIFICATION Spec
CONSTANTS
    Plan = {"home", "docs", "system"}
    SystemPlan = {"system"}
    OwnerLine = {"mail"}
    Weekdays = 2
    MonthDays = 3
    Shift = 0
    Overlap = FALSE
    Rest = {"r"}
    FirstFile <- MCFirstFile
    DefaultRest = "r"
    MaxSteps = 2
INVARIANTS TypeOK  CronFollowsPlan RemovedIsUnscheduled
PROPERTIES OwnerLinesKept SuspendStops
CHECK_DEADLOCK FALSE
