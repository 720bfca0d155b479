\* An upgrade fails and the status patch that would say so is lost.
SPECIFICATION Spec
CONSTANTS
    NoObject = NoObject
    NoHash = NoHash
    NoRelease = NoRelease
    Broken = Broken
    p1 = p1
    p2 = p2
    v1 = v1
    v2 = v2
    Plugins = {p1, p2}
    Values = {v1, v2}
    Versions = {"1.0"}
    Specs <- OnePlugin
    StaleReads = FALSE
    Faults = {"helm", "status"}
    UserOps = {"edit"}
    CleanupServer = TRUE
    MaxFaults = 2
    MaxCrashes = 0
    MaxEdits = 2
    MaxLag = 1
    MaxGoroutines = 1
INVARIANTS
    FailuresReattempted
\* Once the bounds are spent and the ValidatorConfig is gone, all may rest.
CHECK_DEADLOCK FALSE
