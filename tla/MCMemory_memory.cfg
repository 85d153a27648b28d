SPECIFICATION Spec
CONSTANTS
  u1 = u1
  sys = sys
  a = a
  b = b
  t1 = t1
  t2 = t2
  Users = {u1}
  System = sys
  Texts = {a, b}
  Facts = {"fact"}
  Threads <- MCThreads
  Threshold = 1
  Ttl = 1
  MaxRows = 5
  MaxTime = 2
  MaxCalls = 3
INVARIANTS NoDuplicateRemember RememberedOrTaken
PROPERTIES Durable SummaryOnce UneditedIsKept
SYMMETRY Symmetric
CHECK_DEADLOCK FALSE
