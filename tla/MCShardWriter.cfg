SPECIFICATION FairSpec
CONSTANTS
    NFiles = 3
    PipeCap = 1
    QueueMax = 2
    FrameSize = 2
    FlushEvery = 2
    StderrKeep = 1
    MaxFaults = 2
INVARIANTS
    TypeOK
    BuiltIndexIsComplete
    FinalDescribesArchive
    
    
CHECK_DEADLOCK FALSE
PROPERTY RunEnds
