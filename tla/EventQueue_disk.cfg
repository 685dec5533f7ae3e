\* Storage that fails, a process that dies at any point, and ids that arrive out of order.
SPECIFICATION Spec
CONSTANTS
  c1 = c1
  c2 = c2
  Events = {1, 2, 3, 4, 5}
  Stored = {2, 3, 4}
  Faults = {"save", "delete"}
  MaxQueueSize = 2
  MaxBatchSize = 2
  FlushEventCount = 2
  RetryDelay = 1
  MaxRetryDelay = 1
  Generations = 2
  Callbacks = {}
  MaxNesting = 1
  MaxOrphans = 0
  Environment = {"restart", "disorder"}
  LateCompletions = FALSE
INVARIANT ActiveBatchPersisted
INVARIANT NothingLostSilently
INVARIANT NeverOvertaken
PROPERTY CapacityAfterEnqueue
