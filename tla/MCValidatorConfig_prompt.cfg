\* Reads see all writes so far, one call fails, a user edits and deletes.
SPECIFICATION FairSpec
CONSTANTS
    NoObject = NoObject
    NoHash = NoHash
    NoRelease = NoRelease
    Broken = Broken
    p1 = p1
    p2 = p2
    v1 = v1
    v2 = v2
    Plugins = {p1, p2}
    Values = {v1, v2}
    Versions = {"1.0"}
    Specs <- TwoPlugins
    StaleReads = FALSE
    Faults = {"prepare", "helm", "lookup", "decode", "namespace", "update", "emit"}
    UserOps = {"edit", "delete"}
    CleanupServer = TRUE
    MaxFaults = 1
    MaxCrashes = 0
    MaxEdits = 4
    MaxLag = 2
    MaxGoroutines = 1
INVARIANTS
    TypeOK
    SkippedIsDeployed
    ReleasesTracked
    PassDeploys
PROPERTIES
    DeploysAsPromised
    Converges
    DeletionCompletes
\* Once the bounds are spent and the ValidatorConfig is gone, all may rest.
CHECK_DEADLOCK FALSE
