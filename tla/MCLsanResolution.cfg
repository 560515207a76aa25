CONSTANTS
  c1 = c1  c2 = c2  c3 = c3  s1 = s1  s2 = s2  t1 = t1  t2 = t2  r1 = r1
  Chunks <- MCChunks
  Heaps <- MCChain
  ChunkOrder <- MCChunkOrder
  Stacks <- MCTruncStacks
  StackOf <- MCStackOf
  Resolution = TRUE
  Truncated <- MCTruncated
  InvalidPC = {c3}
  Regions = {r1}
  RegionPtrs <- MCRegionPtrs
  ContextPointers = FALSE
  MaxLeaksConsidered = 4
  MaxReruns = 8
  MaxChecks = 2
  ExitCode = TRUE
SPECIFICATION Spec
CHECK_DEADLOCK FALSE
PROPERTY ReportMatchesReachability
