-------------------------- MODULE MCLsanLeakCheck ---------------------------
(* Three chunks in address order c1 < c2 < c3, allocated from two stacks,  *)
(* one root region pointing into c1.  With flags()->resolution the stacks  *)
(* s1 and s2 are cut to the distinct shorter traces t1 and t2.             *)
EXTENDS LsanLeakCheck

CONSTANTS c1, c2, c3, s1, s2, t1, t2, r1

MCChunks == {c1, c2, c3}
MCChunkOrder == <<c1, c2, c3>>
\* Every pointer graph over the three chunks, self-pointers included.
MCAllHeaps == [MCChunks -> SUBSET MCChunks]
\* Every pointer graph without self-pointers (64): ScanRangeForPointers
\* skips a chunk's pointers into itself, so they change no tag.
MCHeapsNoSelf == {h \in MCAllHeaps : \A c \in MCChunks : c \notin h[c]}
\* The heap in which no chunk points anywhere.
MCNoPointers == {[c \in MCChunks |-> {}]}
\* c1 points to c2, nothing else points anywhere.
MCChain == {[c \in MCChunks |-> IF c = c1 THEN {c2} ELSE {}]}
MCStacks == {s1, s2}
MCTruncStacks == {s1, s2, t1, t2}
MCStackOf == [c \in MCChunks |-> IF c = c2 THEN s2 ELSE s1]
MCTruncated == [s \in MCTruncStacks |-> IF s \in {s1, t1} THEN t1 ELSE t2]
MCRegionPtrs == [r \in {r1} |-> {c1}]
=============================================================================
