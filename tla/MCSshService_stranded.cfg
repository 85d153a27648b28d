SPECIFICATION Spec
CONSTANTS
  Bot = Bot
  Threads = {t1}
  NoLoop = NoLoop
  Users = {"u1"}
  Servers = {"s1"}
  Requests <- MCSingle
  Settings <- MCContended
  MaxRequests = 2
INVARIANT PermitsReturned
CHECK_DEADLOCK FALSE
