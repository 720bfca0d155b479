\* One Helm call fails; an edit removes the plugin.
SPECIFICATION Spec
CONSTANTS
    NoObject = NoObject
    NoHash = NoHash
    NoRelease = NoRelease
    Broken = Broken
    p1 = p1
    p2 = p2
    v1 = v1
    v2 = v2
    Plugins = {p1, p2}
    Values = {v1, v2}
    Versions = {"1.0"}
    Specs <- TwoPlugins
    StaleReads = FALSE
    Faults = {"helm"}
    UserOps = {"edit"}
    CleanupServer = TRUE
    MaxFaults = 1
    MaxCrashes = 0
    MaxEdits = 3
    MaxLag = 1
    MaxGoroutines = 1
INVARIANTS
    RemovedPluginsTracked
\* Once the bounds are spent and the ValidatorConfig is gone, all may rest.
CHECK_DEADLOCK FALSE
