SPECIFICATION FairSpec
CONSTANTS
  c1 = c1
  c2 = c2
  Events = {1, 2}
  Stored = {1}
  Faults = {"save", "load"}
  MaxQueueSize = 2
  MaxBatchSize = 1
  FlushEventCount = 2
  RetryDelay = 1
  MaxRetryDelay = 2
  Generations = 3
  Callbacks = {c1}
  MaxNesting = 1
  MaxOrphans = 0
  Environment = {"offline"}
  LateCompletions = FALSE
PROPERTY CallbacksAreCalled
PROPERTY RecordsLeave
