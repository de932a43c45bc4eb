CONSTANTS
  MaxCmd = 2
  MaxStep = 2
  MaxControl = 1
  MaxDismiss = 1
SPECIFICATION Spec
INVARIANTS
  HonestReport
  SessionIsOpen
  NothingLeftAttached
  ChainGoesOn
PROPERTIES
  OwnSessionOnly
  NoLateInput
CHECK_DEADLOCK FALSE
