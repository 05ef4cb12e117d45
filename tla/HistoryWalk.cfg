SPECIFICATION FairSpec
CONSTANTS
    Commits <- MCCommits
    Paths <- MCPaths
    Blobs <- MCBlobs
    NoBlob <- MCNoBlob
    Kind <- MCKind
    ScannedPaths <- MCScannedPaths
    Repositories <- MCRepositories
    NoCap <- MCNoCap
    Ceilings <- MCCeilings
    UsizeModulus <- MCModulus
INVARIANTS
    TypeOK
    NewestKept
    ChildBeforeParent
    EveryTreeCovered
    BlameIsRight
PROPERTIES
    ContractKept
    WalkReturns
CHECK_DEADLOCK FALSE
