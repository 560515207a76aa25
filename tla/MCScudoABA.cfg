CONSTANTS
  Threads = {t1, t2}
  Chunks = {c1, c2}
  NoChunk = NoChunk
  Classes = {1}
  ClassSize <- MCClassSize
  ChunkClass <- MCChunkClass
  Sizes = {1, 2}
  FromMalloc = FromMalloc
  FromMemalign = FromMemalign
  AllocTypes = {FromMalloc, FromMemalign, FromNew}
  QuarantineSize = 2
  ThreadLocalQuarantineSize = 1
  QuarantineChunksUpToSize = 2
  DeallocationTypeMismatch = TRUE
  DeleteSizeMismatch = TRUE
  Tampering = FALSE

SPECIFICATION Spec
SYMMETRY ThreadSymmetry
PROPERTY StaleUpdateNeverCommits
CHECK_DEADLOCK FALSE
