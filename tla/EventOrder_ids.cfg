\* Two calls under way, processes that follow each other, a counter that overflows, a time that leaves
\* its bits, and a clock that moves at will.
SPECIFICATION OrderSpec
CONSTANTS
  Threads = {t1, t2}
  None = None
  CounterSize = 2
  MaxTimestamp = 2
  MaxClock = 2
  MaxLast = 3
  MaxIds = 4
  QueueSizes = {1, 2}
  MaxBatchSize = 1
  MaxEvents = 5
INVARIANTS
  IdsInOrder
PROPERTIES
  IdsIncrease
  OldestFirst
