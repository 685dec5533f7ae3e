SPECIFICATION AdaptersSpec
CONSTANTS
  Intervals = {0, 2}
  MaxInterval = 2
  MaxTime = 5
  MaxDepth = 4
  Requests = {r1}
  MaxFires = 2
INVARIANTS
  ReportsDebounced
  RequestContract
PROPERTIES
  SilentAfterCancel
  AlwaysCompleted
