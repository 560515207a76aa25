CONSTANTS
  t1 = t1
  t2 = t2
  r1 = r1
  r2 = r2
  r3 = r3
  NoThread = NoThread
  NoRegion = NoRegion
  NoObj = NoObj
  NumClasses = 3
  Threads <- MCThreads
  Regions <- MCRegions
  AllocClasses <- MCAllocShared
  BatchClassOf <- MCBatchClassOf
  ChunksPerRegion <- MCChunksPerRegion
  MaxCount <- MCMaxCount
  RegionSizeLog = 4
  NumPossibleRegions = 3
  MetadataSize = 2
  ClassSize <- MCClassSize
  BatchClassID = 2
  BatchSize = 4
SPECIFICATION Spec
INVARIANT TypeOK
INVARIANT ChunkOwnership
INVARIANT NoWaitCycle
INVARIANT LayoutOK
INVARIANT ChunksAccounted
SYMMETRY MCSymmetry
CHECK_DEADLOCK FALSE
