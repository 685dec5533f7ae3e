SPECIFICATION Spec
CONSTANTS
  Callbacks = {c1}
  Quit = quit
  MaxRecords = 2
  FlushEventCount = 2
  AnalyticsEnabled = {TRUE}
  DefaultUserOptIn = {TRUE, FALSE}
  CaptureExceptions = {TRUE}
  Troubles = {{}}
  CallbackCalls = {"capture"}
  MaxNested = 4
INVARIANT NoRequestDuringTeardown
