\* Ordinary processes, ones whose disk fails, whose game opts in from callbacks and whose settings
\* change, and ones that find no World for their timer.
SPECIFICATION LiveSpec
CONSTANTS
  Callbacks = {c1}
  Quit = quit
  MaxRecords = 2
  FlushEventCount = 2
  AnalyticsEnabled = {TRUE, FALSE}
  DefaultUserOptIn = {TRUE, FALSE}
  CaptureExceptions = {TRUE}
  Troubles = {{}, {"disk", "optIn", "settings"}, {"world"}}
  CallbackCalls = {"capture", "flush", "quit", "optOut"}
  MaxNested = 3
INVARIANTS
  AnsweredOnce
  NoRequestWithoutConsent
  NothingKeptAfterOptOut
  ConsentIsOnDisk
  NothingUnsavedAtExit
  DestructionIsQuiet
  HandlersFollowConsent
PROPERTIES
  OnlyCapturesSendAfterShutdown
  QuitContractKept
