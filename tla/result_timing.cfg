CONSTANTS
  Device = {d1}
  None = None
  ACK = 1
  REQUEST = 4
  RETRY = 1
  BUDGET = 8
  DELIVERY = 12
  HOLD = 6
  READERS = 2
  MaxCmd = 1
  MaxSessions = 1
  MaxBusy = 1
  MaxLapses = 0
SPECIFICATION FairSpec
INVARIANTS
  BoundedDelivery
  BusyIsNotLost
PROPERTIES
  DeliveryEnds
CHECK_DEADLOCK FALSE
