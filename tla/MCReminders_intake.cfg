SPECIFICATION Spec
CONSTANTS
  p1 = p1
  p2 = p2
  t1 = t1
  t2 = t2
  u1 = u1
  i1 = i1
  i2 = i2
  i3 = i3
  i4 = i4
  NoOwner = NoOwner
  NoSource = NoSource
  Processes = {p1}
  Threads = {t1, t2}
  Host <- MCHostOne
  Users = {u1}
  Family = {}
  Ids = {i1, i2, i3, i4}
  Requests <- MCSameWords
  Commands = {"create", "cancel"}
  MinLead = 1
  Lease = 1
  RetryDelay <- MCRetryDelay
  MaxAttempts = 2
  Grace = 0
  DedupWindow = 0
  MaxActive = 2
  ClaimLimit = 0
  Period = 2
  MaxTime = 2
  FaultsUntil = 0
INVARIANTS
  LimitOvershootBounded
  DuplicatesBounded
  OneRowPerMessage
SYMMETRY MCRowSymmetry
CHECK_DEADLOCK FALSE
