----------------------- MODULE MCSizeClassAllocator32 -----------------------
(* Two threads and three classes: the unused class 0, a small class 1     *)
(* whose batches live in chunks of class 2, and class 2, whose batches    *)
(* live in their own first chunk.  With kUseSeparateSizeClassForBatch,   *)
(* class 2 is kBatchClassID and only the cache allocates from it          *)
(* (MCAllocSeparate); without it, class 2 is an ordinary class large      *)
(* enough to hold a TransferBatch (MCAllocShared).  Three regions: one    *)
(* per class and a third whose population can run out of batch chunks.   *)
(* The chunk counts per region come from the address layout's n_chunks.   *)
EXTENDS SizeClassAllocator32, TLC

CONSTANTS t1, t2, r1, r2, r3

MCThreads == {t1, t2}
MCRegions == {r1, r2, r3}
MCAllocSeparate == {1}
MCAllocShared == {1, 2}
MCBatchClassOf == (0 :> 0) @@ (1 :> 2) @@ (2 :> 0)
\* Regions of 16 bytes, three of them, 2-byte metadata; class 1 has 3-byte
\* chunks, class 2 is kBatchClassID with 4-byte TransferBatches.  n_chunks
\* is then 16 / (3 + 2) = 3 and 16 / (4 + 2) = 2; the unused class 0 has
\* one chunk, never sliced.
MCClassSize == (0 :> 0) @@ (1 :> 3) @@ (2 :> 4)
MCChunksPerRegion == [k \in 0..2 |-> IF k = 0 THEN 1 ELSE NChunks(k)]
MCMaxCount == (0 :> 1) @@ (1 :> 2) @@ (2 :> 2)

MCSymmetry == Permutations(MCThreads) \cup Permutations(MCRegions)
=============================================================================
