CONSTANTS
  Ids <- MCIds
  Addrs <- MCAddrs
  MaxSize = 2
  MaxEpoch = 2
  MaxSeq = 4
  MaxHeld = 2
SPECIFICATION Spec
INVARIANT TypeOK
INVARIANT RecordIsExact
INVARIANT NoStaleDesc
