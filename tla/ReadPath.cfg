\* Four services, traces of up to three spans, four stored rows, 560 queries.
CONSTANTS
  KnownColumns = {"service", "duration", "timestamp", "sampling_weight"}
  Traces <- MCTraces
  Links <- MCLinks
  Weight = 2
  Rows <- MCRows
  Queries <- MCQueries
  MaxRowsScanned = 2
  MaxRollup = 1

SPECIFICATION Spec

INVARIANTS
  AnswersMeanTheQuery
  WalksEnd
  CyclesAreReported
  CutVerticesDisconnect
PROPERTY
  RollupCountsCalls
