SPECIFICATION Spec
CONSTANTS
    Day = 2
    MaxTime = 8
    MaxShards = 1
    Limits = {0, 2}
    Commands = {"delete-cycle", "delete-set", "verify", "verify-unfinished", "recover-failed", "finalize-archive"}
INVARIANT TypeOK
PROPERTIES KeepsACompleteCycle NeverReparents RetentionSparesDamaged
CHECK_DEADLOCK FALSE
