CONSTANTS
  spans = spans
  logs = logs
  t1 = t1
  t2 = t2
  TopicPartition = {spans, logs}
  Topic = {spans, logs}
  TopicOf <- OneEach
  Gated = {spans}
  Exposed = {spans}
  Trace = {t1, t2}
  TraceOf <- TraceOfEpoch
  LogLen = 2
  MaxLosses = 0
  Budgets <- OneFailure
SPECIFICATION Spec
INVARIANT AdvancesOnlyWhenStored
