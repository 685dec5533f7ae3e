SPECIFICATION Spec
CONSTANTS
  c1 = c1
  c2 = c2
  Events = {1, 2, 3}
  Stored = {1}
  Faults = {"send"}
  MaxQueueSize = 2
  MaxBatchSize = 2
  FlushEventCount = 2
  RetryDelay = 1
  MaxRetryDelay = 2
  Generations = 3
  Callbacks = {c1, c2}
  MaxNesting = 3
  MaxOrphans = 0
  Environment = {"cancel", "clear"}
  LateCompletions = TRUE
SYMMETRY Symmetry
INVARIANT TypeOK
INVARIANT SingleActiveRequest
INVARIANT CallbacksResolveOnce
INVARIANT NoRequestWhilePaused
PROPERTY DrainedMeansEmpty
