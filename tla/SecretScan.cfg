SPECIFICATION Spec
CONSTANTS
    key = key
    token = token
    conf = conf
    env = env
    sample = sample
    lib = lib
    Star = Star
    NoContent = NoContent
    Paths <- MCPaths
    HardSkips <- MCHardSkips
    ForceScans <- MCForceScans
    Names = {lib}
    IgnoreFiles <- MCIgnoreFiles
    Contents = {key, token}
    Lines <- MCLines
    DefaultRules = {"provider", "generic"}
    CustomRules = {"custom", "provider"}
    Generic = {"generic"}
    RuleSkips <- MCRuleSkips
    IgnoreTexts <- MCIgnoreTexts
    Repositories <- MCRepositories
    CommitIds = {1, 2}
    MaxEdits = 3
INVARIANTS
    TypeOK
    PlacesAreIndependent
PROPERTIES
    ReportedStaysReported
    RescanAgrees
