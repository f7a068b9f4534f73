SPECIFICATION Spec
CONSTANTS
  Users = {u1, u2}
  NoUser = NoUser
  Env = {"refuse", "unreachable", "drop", "logout", "slow_send", "again", "quit_early"}
  MaxConns = 3
  MaxQueue = 3
INVARIANTS
  ListensToSocket
PROPERTIES
  AnswerIsOwn
CHECK_DEADLOCK FALSE
