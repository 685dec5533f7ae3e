SPECIFICATION Spec
CONSTANTS
  MaxPlayers = 3
  GroupTypes = {guild}
  SuperKeys = {"mode", "$session_id"}
  Profiles = {"always", "identifiedOnly", "never"}
  CallKeys = {"mode", "$session_id", "$exception_list"}
  Builds <- AllBuilds
INVARIANTS
  PlayersSeparated
  SurvivesRestart
  ComposedInOrder
PROPERTY
  LinkedOnce
