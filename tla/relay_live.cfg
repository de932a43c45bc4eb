CONSTANTS
  Device = {d1, d2}
  Socket = {s1, s2}
  Driver = {q1, q2, q3}
  MaxCmd = 2
  MAX_SOCKETS = 1
  WAITERS_MAX = 2
  None = None
SPECIFICATION Spec
SYMMETRY Interchangeable
INVARIANTS
  NobodySleepsOnSettled
  WaitersCounted
  WelcomedHasAll
  RevokedIsCutOff
  SocketsBounded
  ReplacementAdmitted
CHECK_DEADLOCK FALSE
