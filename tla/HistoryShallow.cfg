SPECIFICATION Spec
CONSTANTS
    Commits <- MCCommits
    Paths <- MCPaths
    Blobs <- MCBlobs
    NoBlob <- MCNoBlob
    Kind <- MCKind
    ScannedPaths <- MCScannedPaths
    Repositories <- MCShallow
    NoCap <- MCNoCap
    Ceilings <- MCCeilings
    UsizeModulus <- MCModulus
INVARIANTS
    ShallowDegrades
CHECK_DEADLOCK FALSE
