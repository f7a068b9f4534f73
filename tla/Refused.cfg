SPECIFICATION Spec
CONSTANTS
  Rooms = {r1, r2}
  BadIds = {x1}
  NoRoom = NoRoom
  Env = {"refuse"}
  MaxRequests = 3
  MaxQueue = 3
INVARIANTS
  NoSecondConnection
CHECK_DEADLOCK FALSE
