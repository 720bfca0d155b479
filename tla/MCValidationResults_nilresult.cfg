\* One rule that once returns an error without a result; one Alertmanager, no
\* faults and no stale reads.
SPECIFICATION FairSpec
CONSTANTS
  NoObject = NoObject
  NoRule = NoRule
  NoHash = NoHash
  NoSecret = NoSecret
  DefaultTransport = DefaultTransport
  MaxBlocks = 19
  r1 = r1
  r2 = r2
  Rules = {r1}
  RuleList <- OneRule
  Outcomes = {"pass", "nilError"}
  Configs <- OneSink
  Faults = {}
  MaxLag = 1
  MaxFaults = 0
  Crashing = {}
  MaxCrashes = 0
  MaxResults = 1
  MaxChanges = 1
  MaxDeletions = 0
  MaxConfigs = 1
  Second = 10
  Overflow = 1500
  Frequency <- Malformed
  StalePlugin = FALSE
  StaleReads = FALSE
PROPERTIES Reported
