SPECIFICATION FairSpec
CONSTANTS
  Users = {u1, u2}
  NoUser = NoUser
  Env = {"refuse"}
  MaxConns = 2
  MaxQueue = 3
PROPERTIES
  ConnectReturns
CHECK_DEADLOCK FALSE
