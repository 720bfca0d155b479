\* One rule that always returns the same, no faults: the controller reads
\* a version of the result that does not have its hash annotation yet.
SPECIFICATION Spec
CONSTANTS
  NoObject = NoObject
  NoRule = NoRule
  NoHash = NoHash
  NoSecret = NoSecret
  DefaultTransport = DefaultTransport
  MaxBlocks = 19
  r1 = r1
  r2 = r2
  Rules = {r1}
  RuleList <- OneRule
  Outcomes = {"fail"}
  Configs <- OneSink
  Faults = {}
  MaxLag = 2
  MaxFaults = 0
  Crashing = {}
  MaxCrashes = 0
  MaxResults = 1
  MaxChanges = 0
  MaxDeletions = 0
  MaxConfigs = 1
  Second = 10
  Overflow = 1500
  Frequency <- Malformed
  StalePlugin = FALSE
  StaleReads = TRUE
PROPERTIES EmittedOnlyIfChanged
