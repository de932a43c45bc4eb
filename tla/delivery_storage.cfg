CONSTANTS
  None = None
  Device = {d1}
  MaxCmd = 2
  MaxControl = 0
  MaxKills = 0
  MaxDrops = 0
  StorageFails = TRUE
SPECIFICATION Spec
INVARIANTS
  UntakenStaysQueued
CHECK_DEADLOCK FALSE
