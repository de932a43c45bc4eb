CONSTANTS
  Device = {d1}
  Cmd = {c1, c2}
  Request = {r1}
  Code = {}
  Ticket = {}
  Body = {"small"}
  Size <- MCSize
  Failure = "failure"
  None = None
  QUEUE_KEEP = 1
  RESULT_TTL = 2
  PAIR_TTL = 1
  TICKET_TTL = 1
  QUEUE_MAX = 2
  OWNER_MAX = 2
  IDEM_MAX = 2
  RESULT_MAX = 2
  DEVICE_MAX = 2
  PAIR_MAX = 1
  TICKET_MAX = 1
  MAX_RESULT_BYTES = 3
  RESULT_TOTAL_BYTES = 2
  Slot = {s1}
  MaxTime = 3
  ClockSteps = FALSE
SPECIFICATION Spec
SYMMETRY Interchangeable
INVARIANTS
  OwnershipDiesWithResult
CHECK_DEADLOCK FALSE
