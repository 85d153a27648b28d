SPECIFICATION Spec
CONSTANTS
  p1 = p1
  p2 = p2
  t1 = t1
  t2 = t2
  u1 = u1
  i1 = i1
  i2 = i2
  i3 = i3
  i4 = i4
  NoOwner = NoOwner
  NoSource = NoSource
  Processes = {p1, p2}
  Threads = {t1}
  Host <- MCHostOne
  Users = {u1}
  Family = {}
  Ids = {i1}
  Requests <- MCOneOfEachKind
  Commands = {"create", "cancel", "update"}
  MinLead = 0
  Lease = 1
  RetryDelay <- MCRetryDelay
  MaxAttempts = 2
  Grace = 2
  DedupWindow = 1
  MaxActive = 1
  ClaimLimit = 1
  Period = 2
  MaxTime = 3
  FaultsUntil = 0
INVARIANTS
  TypeOK
  ClaimIntact
  ClaimsRunOut
  CompletedWasSent
  FailedWasRetried
PROPERTIES
  NoPrematureTakeover
  LifecycleKept
CHECK_DEADLOCK FALSE
