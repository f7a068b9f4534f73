SPECIFICATION FairSpec
CONSTANTS
  Rooms = {r1, r2}
  BadIds = {x1}
  NoRoom = NoRoom
  Env = {"share", "no_room", "mistype"}
  MaxRequests = 6
  MaxQueue = 3
INVARIANTS
  NoFault
  SettledAgreement
  DialogClosed
  ShownNumber
  ShareAsShown
PROPERTIES
  CallSettles
  ImplementsMeeting
