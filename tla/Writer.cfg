CONSTANTS
  f1 = f1
  f2 = f2
  f3 = f3
  f4 = f4
  b1 = b1
  b2 = b2
  b3 = b3
  consumer = consumer
  sweeper = sweeper
  Flush = {f1, f2, f3, f4}
  Submitter = {consumer, sweeper}
  Consumer = consumer
  Owner <- Owners
  Batch = {b1, b2, b3}
  BatchOf <- Batches
  Tables = 2
  Tokenless = {2}
  Needs <- TablesOf
  QueueCap = 2
  MaxRetries = 1
  Window = 1
  MaxErrors = 1
SPECIFICATION FairSpec
INVARIANTS
  AckedIsDurable
  StoredOnce
PROPERTIES
  NobodyWaitsForever
