CONSTANTS
  latency = latency
  webhook = webhook
  slack = slack
  Series = {latency}
  Bucket = {1, 2}
  Observable = {1, 3, 7}
  WindowSize = 3
  MinSamples = 2
  MinConsecutive = 2
  Trigger = 29652
  Clear = 14826
  Rule = {1, 2}
  SeriesOf <- RuleSeries
  Op <- RuleOp
  Threshold <- RuleThreshold
  Sinks <- RuleSinks
  BucketAt <- TickBucket
  Cooldown = 2
  MaxTicks = 6
  MaxFailures = 1
SPECIFICATION Spec
INVARIANTS
  RingHoldsLatest
  CooldownKept
  SinksInformed
PROPERTY FlipsNeedARun
CHECK_DEADLOCK FALSE
