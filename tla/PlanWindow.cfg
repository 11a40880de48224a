SPECIFICATION Spec
CONSTANTS
    Day = 2
    MaxTime = 8
    MaxShards = 1
    Limits = {0, 1}
    Commands = {"delete-cycle", "verify"}
INVARIANT NoChangeMissed
CHECK_DEADLOCK FALSE
