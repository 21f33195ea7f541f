CONSTANTS
  t1 = t1
  t2 = t2
  p1 = p1
  Trace = {t1, t2}
  Partition = {p1}
  Route <- OnePartition
  Malformed = Malformed
  LogLen = 3
  SpanSize <- Sizes
  MaxTraces = 1
  MaxBytes = 3
  DecidedCacheSize = 1
  Eviction = "forced_decision"
  MaxFailures = 1
  MaxCrashes = 1
  MaxExpiries = 0
  MaxTakeovers = 1
SYMMETRY TraceSymmetry
SPECIFICATION Spec
INVARIANTS
  SingleHolder
  BufferKeepsBounds
  FloorRespected
  CommittedIsSettled
PROPERTY OffsetsAdvance
