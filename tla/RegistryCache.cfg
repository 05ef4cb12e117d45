SPECIFICATION Spec
CONSTANTS
    First = First
    Second = Second
    None = None
    Scans <- MCScans
    TTL = 1
    Hold = 1
    MaxSkew = 1
    MaxTime = 5
    MaxDamage = 1
SYMMETRY Exchange
INVARIANTS
    TypeOK
    AnswersAreCurrent
    MetadataIsHonest
PROPERTIES
    SnapshotRegressesLittle
