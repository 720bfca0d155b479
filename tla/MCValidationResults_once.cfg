\* Both processes see their own writes and no patch is lost, but an emission
\* may fail, the plugin may restart, the result changes back and forth, and the
\* ValidatorConfig comes and then goes or changes its sink or TLS settings.
SPECIFICATION Spec
CONSTANTS
  NoObject = NoObject
  NoRule = NoRule
  NoHash = NoHash
  NoSecret = NoSecret
  DefaultTransport = DefaultTransport
  MaxBlocks = 10
  r1 = r1
  r2 = r2
  Rules = {r1}
  RuleList <- OneRule
  Outcomes = {"pass", "error"}
  Configs <- SomeSinks
  Faults = {"emit"}
  MaxLag = 1
  MaxFaults = 1
  Crashing = {"plugin"}
  MaxCrashes = 1
  MaxResults = 1
  MaxChanges = 2
  MaxDeletions = 0
  MaxConfigs = 2
  Second = 10
  Overflow = 1500
  Frequency <- Malformed
  StalePlugin = FALSE
  StaleReads = FALSE
INVARIANTS RequestUsesItsSecret SuccessMeansDelivered
PROPERTIES EmittedOnlyIfChanged
