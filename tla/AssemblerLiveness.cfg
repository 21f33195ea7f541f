CONSTANTS
  t1 = t1
  t2 = t2
  p1 = p1
  Trace = {t1, t2}
  Partition = {p1}
  Route <- OnePartition
  Malformed = Malformed
  LogLen = 2
  SpanSize <- Sizes
  MaxTraces = 1
  MaxBytes = 3
  DecidedCacheSize = 1
  Eviction = "discard"
  MaxFailures = 1
  MaxCrashes = 0
  MaxExpiries = 2
  MaxTakeovers = 0
SPECIFICATION FairSpec
PROPERTIES
  EverythingSettles
  FloorReleased
INVARIANT CommittedIsSettled
