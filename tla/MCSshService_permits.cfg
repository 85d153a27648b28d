SPECIFICATION FairSpec
CONSTANTS
  Bot = Bot
  Threads = {t1, t2}
  NoLoop = NoLoop
  Users = {"u1", "u2"}
  Servers = {"s1", "s2"}
  Requests <- MCRequests
  Settings <- MCSettings
  MaxRequests = 3
INVARIANTS PermitsMatch ProcessesReaped SuccessMeansRan MetricsTrue
PROPERTIES Answered SlotsKept
CHECK_DEADLOCK FALSE
