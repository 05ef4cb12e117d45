SPECIFICATION Spec
CONSTANTS
    key = key
    key2 = key2
    image = image
    bundle = bundle
    NoContent = NoContent
    Contents <- MCContents
    Kind <- MCKind
    Directory <- MCDirectory
    Plain <- MCPlain
    Forced <- MCForced
    Historical <- MCHistorical
    CommitIds = {1, 2, 3}
    Trees <- MCTrees
    Histories <- MCHistories
    MaxEdits = 3
CHECK_DEADLOCK FALSE
INVARIANTS
    TypeOK
    UnitsAreCanonical
    UnitsHoldSources
    OneReadPerPath
    NothingSlipsThrough
