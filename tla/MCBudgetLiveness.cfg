SPECIFICATION FairSpec
CONSTANTS
  Streams = {s1, s2}
  Tenants = {t1}
  MaxActiveStreams = 1
  GlobalMemory = 3
  GlobalMemoryChunk = 1
  TenantMemory = 2
  OutputByteBudget = 1
  QueueItems = 1
  MaxOutput = 1
  ErrorFrame = 1
  MaxSegments = 2
  MaxReloads = 0
INVARIANT GlobalPermitsConserved
PROPERTIES
  RequestsComplete
  PoolsAreLedgers
