CONSTANTS
  c1 = c1
  c2 = c2
  Client = {c1, c2}
  BatchLen <- TwoEach
  Capacity = 3
  High = 2
  Policies = {"reject", "drop_oldest"}
  Size <- Sizes
  MaxRecords = 2
  MaxBytes = 2
  MaxFailures = 1
SPECIFICATION FairSpec
INVARIANTS
  ReleasedOnce
  DepthExact
  PromisesKept
PROPERTIES
  NobodyStarves
  ShutdownCompletes
