SPECIFICATION Spec
CONSTANTS
    PublishOrder <- MCPublishOrder
    CrateDeps <- MCCrateDeps
    PlatformOrder <- MCPlatformOrder
    MainPackage = "vibescan"
    MaxAttempts = 12
    MaxVersion = 2
CHECK_DEADLOCK FALSE
INVARIANTS
    TypeOK
    DependenciesFirst
PROPERTIES
    RunEnds
