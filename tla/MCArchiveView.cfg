SPECIFICATION Spec
CONSTANTS
    Archive <- MCArchive
    Stored <- MCStored
    FirstNeed <- MCNeed
    MaxLoads = 2
    MaxSearches = 1
    DiesAtLaunch = FALSE
INVARIANTS TypeOK   ButtonsFollowJobs OneJobEach
PROPERTIES ReportIsTrue LoadsEnd JobsAreReported
CHECK_DEADLOCK FALSE
