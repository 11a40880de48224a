SPECIFICATION Spec
CONSTANTS
    FrameSize = 2
    MaxHeader = 2
    Length = 5
    Shards = 2
    Below <- MCBelow
    Kinds <- MCKinds
    Requests <- MCRequests
INVARIANTS TypeOK WrittenIsMember FramesAreRead 
CHECK_DEADLOCK FALSE
