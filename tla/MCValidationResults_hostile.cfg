\* A crash of the controller, a failed call, stale reads of both processes,
\* a missing result, a deletion, and a plugin whose frequency overflows; with
\* or without a sink.
SPECIFICATION Spec
CONSTANTS
  NoObject = NoObject
  NoRule = NoRule
  NoHash = NoHash
  NoSecret = NoSecret
  DefaultTransport = DefaultTransport
  MaxBlocks = 19
  r1 = r1
  r2 = r2
  Rules = {r1}
  RuleList <- OneRule
  Outcomes = {"pass", "nil"}
  Configs <- SinkOrNone
  Faults = {"patch", "emit"}
  MaxLag = 1
  MaxFaults = 1
  Crashing = {"controller"}
  MaxCrashes = 1
  MaxResults = 2
  MaxChanges = 1
  MaxDeletions = 1
  MaxConfigs = 1
  Second = 10
  Overflow = 1500
  Frequency <- TooLarge
  StalePlugin = TRUE
  StaleReads = TRUE
INVARIANTS TypeOK HashMeansAttempted
PROPERTIES ReportsInOrder
