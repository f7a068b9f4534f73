SPECIFICATION FairSpec
CONSTANTS
  Users = {u1, u2}
  NoUser = NoUser
  Env = {"refuse", "unreachable"}
  MaxConns = 3
  MaxQueue = 3
INVARIANTS
  TypeOK
  ShownIsRegistered
  RegisteredIsShown
PROPERTIES
  QuitEnds
CHECK_DEADLOCK FALSE
