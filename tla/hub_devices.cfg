CONSTANTS
  Device = {d1, d2}
  Cmd = {c1}
  Request = {}
  Code = {p1}
  Ticket = {k1, k2}
  Body = {"small"}
  Size <- MCSize
  Failure = "failure"
  None = None
  QUEUE_KEEP = 1
  RESULT_TTL = 1
  PAIR_TTL = 1
  TICKET_TTL = 1
  QUEUE_MAX = 2
  OWNER_MAX = 2
  IDEM_MAX = 2
  RESULT_MAX = 2
  DEVICE_MAX = 2
  PAIR_MAX = 1
  TICKET_MAX = 2
  MAX_RESULT_BYTES = 3
  RESULT_TOTAL_BYTES = 2
  Slot = {s1}
  MaxTime = 3
  ClockSteps = FALSE
SPECIFICATION FairSpec
INVARIANTS
  DeliverableIsOwned
  RevokedLeavesNothing
  OneTicketPerDevice
PROPERTIES
  ExpiredRowsGo
CHECK_DEADLOCK FALSE
