SPECIFICATION Spec
CONSTANTS
    Old = Old
    New = New
    Wheel = Wheel
    Corp = Corp
    Token = Token
    Fork = Fork
    Npm = Npm
    PyPI = PyPI
    Left = Left
    Snake = Snake
    Inner = Inner
    Hidden = Hidden
    Web = Web
    Lock = Lock
    Npmrc = Npmrc
    PipConf = PipConf
    Requirements = Requirements
    Project = Project
    Users = Users
    Orders = Orders
    Dependencies <- MCDependencies
    Package <- MCPackage
    Name <- MCName
    Manifests <- MCManifests
    Texts <- MCTexts
    ManifestOrder <- MCManifestOrder
    RegistryOrder <- MCRegistryOrder
    Checkouts <- MCCheckouts
    MaxEdits <- MCMaxEdits
    Ecosystem <- MCEcosystem
    Sensitive <- MCSensitive
    Direct <- MCDirect
    Scoped <- MCScoped
    Projects <- MCProjects
    Database = Project
    Tables <- MCTables
    Candidates <- MCCandidates
    Worlds <- MCWorlds
    Files <- MCFiles
    Askings <- MCAskings
INVARIANTS
    AttemptsAreReported
CHECK_DEADLOCK FALSE
