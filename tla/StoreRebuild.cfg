SPECIFICATION Spec
CONSTANTS
    Name = {n1, n2}
    Proc = {p1}
    Root = {}
    Commands = {"delete", "recover-failed", "reindex", "refresh", "lose"}
    OneAtATime = TRUE
    MaxFaults = 2
INVARIANT RowsAreStored
CHECK_DEADLOCK FALSE
