SPECIFICATION Spec
CONSTANTS
  Windows = {1, 2}
  Closing = {2}
  Labels = {la, lb}
  Hidden = {lb}
  NoLabel = NoLabel
  Screens = {0}
  Cameras = {0}
  ListLimit = 2
  Env = {"unplug", "after_leave"}
  MaxMeetings = 2
  MaxQueue = 2
INVARIANTS
  TypeOK
  SendsAsShown
  KnownIsOffered
PROPERTIES
  ScreenPickShares
  ChosenIsFound
CHECK_DEADLOCK FALSE
