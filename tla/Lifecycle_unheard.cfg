\* An opt-out while the application is inactive.
SPECIFICATION Spec
CONSTANTS
  SessionTimeout = 1
  MaxSessionLength = 2
  Versions = {1, 2}
  LifecycleEvents = {TRUE}
  MaxTime = 4
INVARIANTS
  SessionWheneverActive
