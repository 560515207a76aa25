CONSTANTS
  t1 = t1
  t2 = t2
  NoThread = NoThread
  Threads <- MCThreads
  Counts = {1, 4}
  MaxAllocs = 2
  MmapBases = {10, 20, 30}
  InfoSize = 1
  MinBlock = 4
  PageSize = 2
SPECIFICATION Spec
INVARIANT TypeOK
INVARIANT AllocationsDisjointInBlocks
PROPERTY AllocReturns
CHECK_DEADLOCK FALSE
