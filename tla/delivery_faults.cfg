CONSTANTS
  None = None
  Device = {d1}
  MaxCmd = 2
  MaxControl = 1
  MaxKills = 1
  MaxDrops = 1
  StorageFails = FALSE
SPECIFICATION FairSpec
INVARIANTS
  UntakenStaysQueued
PROPERTIES
  StartsOnceInOrder
  QueuedIsAnswered
  RunsItsCourse
CHECK_DEADLOCK FALSE
