SPECIFICATION Spec
CONSTANTS
    Target <- MCTarget
    Archive <- MCArchive
    Candidates <- MCCandidates
    Kind <- MCKind
    Spread <- MCSpread
    Legacy = {"t3"}
    NoIndex = {}
    Frames = 2
    Retries = 1
    Noise = {n1, n2}
    SweepClears = TRUE
INVARIANTS TypeOK CorruptIsDamaged DamageIsFound 
