SPECIFICATION Spec
CONSTANTS
  Windows = {1}
  Closing = {}
  Labels = {la}
  Hidden = {}
  NoLabel = NoLabel
  Screens = {0, 1}
  Cameras = {0, 1}
  ListLimit = 1
  Env = {}
  MaxMeetings = 2
  MaxQueue = 2
PROPERTIES
  WindowPickShares
CHECK_DEADLOCK FALSE
