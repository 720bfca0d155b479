\* An edit puts a plugin in front of the one that is installed; then deletion.
SPECIFICATION Spec
CONSTANTS
    NoObject = NoObject
    NoHash = NoHash
    NoRelease = NoRelease
    Broken = Broken
    p1 = p1
    p2 = p2
    v1 = v1
    v2 = v2
    Plugins = {p1, p2}
    Values = {v1, v2}
    Versions = {"1.0"}
    Specs <- Prepending
    StaleReads = FALSE
    Faults = {}
    UserOps = {"edit", "delete"}
    CleanupServer = TRUE
    MaxFaults = 0
    MaxCrashes = 0
    MaxEdits = 4
    MaxLag = 1
    MaxGoroutines = 1
INVARIANTS
    DeletesEachPlugin
\* Once the bounds are spent and the ValidatorConfig is gone, all may rest.
CHECK_DEADLOCK FALSE
