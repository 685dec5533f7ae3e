\* Consent changes in any state of the application; the lifecycle state may be unreadable.
SPECIFICATION Spec
CONSTANTS
  SessionTimeout = 1
  MaxSessionLength = 2
  Versions = {1, 2}
  LifecycleEvents = {TRUE, FALSE}
  MaxTime = 4
INVARIANTS
  TypeOK
  NoSessionWithoutConsent
  EventsInLiveSession
  NoRepeatedLifecycleEvents
  InstalledOnce
  ActiveEventsHaveSession
PROPERTIES
  RevivedOnlyOnBackground
