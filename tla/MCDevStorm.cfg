CONSTANTS
  Assets <- MCAssets
  MaxEdits = 1
  Reverts = FALSE
  EditsInTask = FALSE
  UsesIds = TRUE
  Players = {p1, p2}
  Debug = TRUE
  MaxCrashes = 0
  KillsInTask = FALSE
SPECIFICATION Spec
CHECK_DEADLOCK FALSE
PROPERTY HubQuiets
