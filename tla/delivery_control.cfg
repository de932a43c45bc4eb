CONSTANTS
  None = None
  Device = {d1, d2}
  MaxCmd = 2
  MaxControl = 2
  MaxKills = 0
  MaxDrops = 0
  StorageFails = TRUE
SPECIFICATION Spec
INVARIANTS
  TakenIsAnswered
  OnlyPassedOverIsLost
PROPERTIES
  QuietAfterControl
SYMMETRY Devices
CHECK_DEADLOCK FALSE
