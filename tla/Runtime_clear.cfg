SPECIFICATION Spec
CONSTANTS
  Callbacks = {c1}
  Quit = quit
  MaxRecords = 1
  FlushEventCount = 2
  AnalyticsEnabled = {TRUE}
  DefaultUserOptIn = {TRUE, FALSE}
  CaptureExceptions = {TRUE}
  Troubles = {{"optIn"}}
  CallbackCalls = {}
  MaxNested = 4
INVARIANT ConsentHasCollaborators
