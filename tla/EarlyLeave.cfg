SPECIFICATION Spec
CONSTANTS
  Rooms = {r1, r2}
  BadIds = {x1}
  NoRoom = NoRoom
  Env = {"early_leave"}
  MaxRequests = 3
  MaxQueue = 3
INVARIANTS
  SettledAgreement
CHECK_DEADLOCK FALSE
