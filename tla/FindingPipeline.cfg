SPECIFICATION Spec
CONSTANTS
    Anon = Anon
    Service = Service
    Token = Token
    P = P
    Q = Q
    None = None
    Bundle = Bundle
    Server = Server
    Past = Past
    Readable = Readable
    NoPolicy = NoPolicy
    Typosquat = Typosquat
    Keys <- MCKeys
    Class <- MCClass
    Projects <- MCProjects
    NoProject = None
    Places <- MCPlaces
    ClientReachable <- MCClientReachable
    Committed <- MCCommitted
    Occurrences <- MCOccurrences
    Facts <- MCFacts
    About <- MCAbout
    Gates <- MCGates
    MaxEdits = 2
INVARIANTS
    TypeOK
    NothingLost
    ChainIsWitnessed
    MovesStayQuiet
PROPERTIES
    GateSeesAll
