SPECIFICATION Spec
CONSTANTS
    Day = 3
    MaxTime = 6
    MaxShards = 2
    Limits = {0}
    Commands = {"rerun", "delete-cycle", "delete-set", "verify", "verify-unfinished", "recover-failed", "finalize-archive"}
PROPERTY RetentionSparesDamaged
CHECK_DEADLOCK FALSE
