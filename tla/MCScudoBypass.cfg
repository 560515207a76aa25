CONSTANTS
  Threads = {t1, t2}
  Chunks = {c1, c2}
  NoChunk = NoChunk
  Classes = {1}
  ClassSize <- MCClassSize
  ChunkClass <- MCChunkClass
  Sizes = {1, 2}
  FromMalloc = FromMalloc
  FromMemalign = FromMemalign
  AllocTypes = {FromMalloc, FromMemalign, FromNew}
  QuarantineSize = 2
  ThreadLocalQuarantineSize = 1
  QuarantineChunksUpToSize = 1
  DeallocationTypeMismatch = TRUE
  DeleteSizeMismatch = TRUE
  Tampering = TRUE

SPECIFICATION Spec
SYMMETRY ThreadSymmetry
INVARIANT ChunkPlacement
CHECK_DEADLOCK FALSE
