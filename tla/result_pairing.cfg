CONSTANTS
  Device = {d1, d2}
  None = None
  ACK = 1
  REQUEST = 1
  RETRY = 1
  BUDGET = 1
  DELIVERY = 2
  HOLD = 1
  READERS = 2
  MaxCmd = 2
  MaxSessions = 1
  MaxBusy = 0
  MaxLapses = 1
SPECIFICATION Spec
SYMMETRY Interchangeable
INVARIANTS
  LogIsTrue
  SentAsOwner
CHECK_DEADLOCK FALSE
