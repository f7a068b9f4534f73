SPECIFICATION Spec
CONSTANTS
  Rooms = {r1, r2}
  BadIds = {x1}
  NoRoom = NoRoom
  Env = {"close"}
  MaxRequests = 3
  MaxQueue = 3
INVARIANTS
  ClosedIsShown
CHECK_DEADLOCK FALSE
