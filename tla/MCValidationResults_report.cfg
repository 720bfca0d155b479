\* Two rules whose outcomes change, a ValidatorConfig that is created late and
\* a Slack sink that refuses the message when both rules fail (21 blocks); the
\* caches have caught up at the moment of a read, and one call may fail.
SPECIFICATION FairSpec
CONSTANTS
  NoObject = NoObject
  NoRule = NoRule
  NoHash = NoHash
  NoSecret = NoSecret
  DefaultTransport = DefaultTransport
  MaxBlocks = 19
  r1 = r1
  r2 = r2
  Rules = {r1, r2}
  RuleList <- TwoRules
  Outcomes = {"pass", "fail", "nil"}
  Configs <- SlackSink
  Faults = {"create", "status", "emit"}
  MaxLag = 1
  MaxFaults = 1
  Crashing = {}
  MaxCrashes = 0
  MaxResults = 1
  MaxChanges = 1
  MaxDeletions = 0
  MaxConfigs = 1
  Second = 10
  Overflow = 1500
  Frequency <- Malformed
  StalePlugin = FALSE
  StaleReads = FALSE
INVARIANTS StateIsVerdict OneConditionPerRule
PROPERTIES Reported RoundIsRecorded
