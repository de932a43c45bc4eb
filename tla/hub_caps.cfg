CONSTANTS
  Device = {d1}
  Cmd = {c1, c2}
  Request = {r1, r2}
  Code = {}
  Ticket = {}
  Body = {"large", "huge"}
  Size <- MCSize
  Failure = "failure"
  None = None
  QUEUE_KEEP = 1
  RESULT_TTL = 1
  PAIR_TTL = 1
  TICKET_TTL = 1
  QUEUE_MAX = 1
  OWNER_MAX = 2
  IDEM_MAX = 1
  RESULT_MAX = 2
  DEVICE_MAX = 2
  PAIR_MAX = 1
  TICKET_MAX = 1
  MAX_RESULT_BYTES = 3
  RESULT_TOTAL_BYTES = 2
  Slot = {}
  MaxTime = 2
  ClockSteps = TRUE
SPECIFICATION Spec
SYMMETRY Interchangeable
INVARIANTS
  RestartAccepts
PROPERTIES
  SeqGrows
CHECK_DEADLOCK FALSE
