SPECIFICATION Spec
CONSTANTS
    Name = {n1, n2}
    Proc = {p1, p2}
    Root = {}
    Commands = {"delete", "recover-failed", "reindex", "verify", "finalize-archive", "refresh"}
    OneAtATime = TRUE
    MaxFaults = 2
INVARIANTS TypeOK FilesAreTracked RowsAreStored
CHECK_DEADLOCK FALSE
