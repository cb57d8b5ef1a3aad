CONSTANTS
  Assets <- MCAssets
  MaxEdits = 3
  Reverts = FALSE
  EditsInTask = FALSE
  UsesIds = TRUE
  Players = {p1}
  Debug = TRUE
  MaxCrashes = 1
  KillsInTask = FALSE
SPECIFICATION Spec
CHECK_DEADLOCK FALSE
INVARIANTS  IndexResolves OneRoundGrace
  
