\* Stale reads, a crash, one failing call of any kind, re-creation and deletion
\* of the namespace; one of the specs lists the same chart twice.  There is no
\* cleanup job to call.
SPECIFICATION Spec
CONSTANTS
    NoObject = NoObject
    NoHash = NoHash
    NoRelease = NoRelease
    Broken = Broken
    p1 = p1
    p2 = p2
    v1 = v1
    v2 = v2
    Plugins = {p1, p2}
    Values = {v1, v2}
    Versions = {"1.0"}
    Specs <- Repeating
    StaleReads = TRUE
    Faults = {"prepare", "helm", "lookup", "decode", "namespace", "patch", "status", "update"}
    UserOps = {"edit", "delete", "recreate", "namespace"}
    CleanupServer = FALSE
    MaxFaults = 1
    MaxCrashes = 1
    MaxEdits = 3
    MaxLag = 2
    MaxGoroutines = 2
INVARIANTS
    DeletionsAwaited
    SafetyInv
    NeverForgotten
PROPERTIES
    UserWritesSurvive
    KeepsRunning
\* Once the bounds are spent and the ValidatorConfig is gone, all may rest.
CHECK_DEADLOCK FALSE
