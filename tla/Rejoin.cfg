SPECIFICATION Spec
CONSTANTS
  Rooms = {r1, r2}
  BadIds = {x1}
  NoRoom = NoRoom
  Env = {"browse", "retry"}
  MaxRequests = 3
  MaxQueue = 3
PROPERTIES
  JoinIsHeard
CHECK_DEADLOCK FALSE
