SPECIFICATION MCSpec
CONSTANTS
  Requests = {"r1", "r2", "r3", "r4"}
  Queries = {"r1", "r2", "r3", "r4"}
  Other = "r4"
  MaxEntered = 3
  Keys = {"k1", "k2"}
  KeyOf <- MCKeyOf
  BytesOf <- MCBytesOf
  BytesOfBody <- MCBytesOfBody
  NoRequest = "none"
  Nobody = "none"
  Size = 1
  MaxPending = 2
  MaxPendingBytes = 2
  MaxEntries = 2
  MaxBytes = 2
  MaxInflight = 1
  MaxWaiters = 1
  j1 = j1
  j2 = j2
  j3 = j3
  Jobs = {j1, j2, j3}
  SizeOf <- MCSizeOf
  Attempts <- MCAttempts
  Delayed <- MCDelayed
  Backoff <- MCBackoff
  KeepFailed <- MCKeepFailed
  Concurrency = 1
  MaxJobs = 2
  MaxJobBytes = 3
  MaxFailed = 2
  MaxFailedBytes = 2
  MaxAdds = 2
INVARIANTS
  ReadPoolInv
  CacheInv
  SharedIsTrue
  QueueInv
PROPERTIES
  EveryoneAnswered
  JobsEnd
CHECK_DEADLOCK FALSE
