SPECIFICATION FairSpec
CONSTANTS
  Requests <- MCRequests
  Calls <- MCCalls
  CallLists <- MCCallLists
  HostedCounts = {0, 1, 2}
  MaxRounds = 2
  MaxSearches = 2
  MaxAttempts = 1
  SearchEnabled = TRUE
  NoCall = NoCall
INVARIANTS EvidenceBeforeAnswer EachCallOnce AsksBounded
PROPERTIES Terminates
