---------------------------- MODULE MCStackStore ----------------------------
(* Two threads making two allocations each of 1 or 4 words.  Blocks      *)
(* are 4 words (one BlockInfo), or 6 for a 4-word request, so a second    *)
(* request often does not fit and refills; three mmap slots, one block    *)
(* apart, let a refill map below or above the current block and let mmap  *)
(* run out.                                                               *)
EXTENDS StackStore, TLC

CONSTANTS t1, t2

MCThreads == {t1, t2}
=============================================================================
