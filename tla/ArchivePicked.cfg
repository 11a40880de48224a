SPECIFICATION Spec
CONSTANTS
    Archive <- MCArchive
    Stored <- MCStored
    FirstNeed <- MCNeed
    MaxLoads = 2
    MaxSearches = 1
    DiesAtLaunch = FALSE
INVARIANT PickedIsRestored
CHECK_DEADLOCK FALSE
