SPECIFICATION Spec
CONSTANTS
  Streams = {s1, s2}
  Tenants = {t1}
  MaxActiveStreams = 2
  GlobalMemory = 2
  GlobalMemoryChunk = 1
  TenantMemory = 1
  OutputByteBudget = 1
  QueueItems = 1
  MaxOutput = 2
  ErrorFrame = 1
  MaxSegments = 3
  MaxReloads = 1
SYMMETRY StreamSymmetry
INVARIANTS
  TypeOK
  GlobalPermitsConserved
  InUseExact
  StreamPermitsConserved
  ActiveSseExact
  WaitersExact
  TaskConsistent
  TenantPermitsConserved
  TenantBoundedPerReload
PROPERTY NoDataAfterGap
