SPECIFICATION FairSpec
CONSTANTS
  p1 = p1
  p2 = p2
  t1 = t1
  t2 = t2
  u1 = u1
  i1 = i1
  i2 = i2
  i3 = i3
  i4 = i4
  NoOwner = NoOwner
  NoSource = NoSource
  Processes = {p1}
  Threads = {t1}
  Host <- MCHostOne
  Users = {u1}
  Family = {u1}
  Ids = {i1, i2}
  Requests <- MCOneMessageEach
  Commands = {"create", "resume"}
  MinLead = 0
  Lease = 1
  RetryDelay <- MCRetryDelay
  MaxAttempts = 2
  Grace = 0
  DedupWindow = 1
  MaxActive = 2
  ClaimLimit = 2
  Period = 2
  MaxTime = 2
  FaultsUntil = 0
PROPERTIES
  DueIsServed
CHECK_DEADLOCK FALSE
