SPECIFICATION FairSpec
CONSTANTS
  Chats = {"home", "work"}
  Threads = {"tool"}
  MaxActive = 1
  Ttl = 1
  MaxUploads = 2
  MaxDocs = 2
  MaxForgets = 2
  MaxFaults = 1
  MaxTime = 2
INVARIANTS TypeOK FilesAccounted
PROPERTIES OncePerMessage ExpiredAreForgotten
CHECK_DEADLOCK FALSE
