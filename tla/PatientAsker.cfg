SPECIFICATION Spec
CONSTANTS
  Rooms = {r1, r2}
  BadIds = {x1}
  NoRoom = NoRoom
  Env = {"refuse", "cancel", "no_room", "close", "offer_fails", "no_connection",
         "no_device", "book", "share", "mistype", "browse", "early_leave", "early_share"}
  MaxRequests = 3
  MaxQueue = 2
INVARIANTS
  TypeOK
  ConnectionHasDevices
  OwnDescriptions
CHECK_DEADLOCK FALSE
