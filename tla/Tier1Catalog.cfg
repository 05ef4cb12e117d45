SPECIFICATION Spec
CONSTANTS
    Page = Page
    Admin = Admin
    Library = Library
    Web = Web
    Shop = Shop
    Ours = Ours
    Theirs = Theirs
    Contents <- MCContents
    Scopes <- MCScopes
    Names <- MCNames
    Projects <- MCProjects
    Database = Ours
    Tables <- MCTables
    Policies <- MCPolicies
    Grants <- MCGrants
    Situations <- MCSituations
    MaxChanges = 2
INVARIANTS
    TypeOK
    CriticalIsEarned
    OpenTablesAreTold
    FailuresSuppressOnly
    AppsAreIsolated
    NothingDropsUntold
CHECK_DEADLOCK FALSE
