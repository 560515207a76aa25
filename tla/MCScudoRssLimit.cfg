\* isRssLimitExceeded over /proc/self/statm (can_use_proc_maps_statm, the
\* Linux default) with both limits set and allocator_may_return_null.
SPECIFICATION Spec
CONSTANTS
  Threads <- MCThreads
  RssValues <- MCRssValues
  HardRssLimitMb = 2
  SoftRssLimitMb = 1
  RssOutcomes = {"statm"}
  MayReturnNull = TRUE
  PageSize = 2
  KB = 2
  MB = 4
INVARIANT TypeOK
PROPERTY SoftFlagTracksRss HardLimitKills
\* The process may die (Die on the hard limit): no step follows.
CHECK_DEADLOCK FALSE
