-------------------------- MODULE MCScudoAllocator --------------------------
(***************************************************************************)
(* Model-checking instance of ScudoAllocator: two threads, chunks of one   *)
(* or two size classes, a quarantine small enough to recycle after one or  *)
(* two frees, so that chunks are freed, quarantined, recycled and reissued *)
(* while another thread is between its header load and its update.        *)
(***************************************************************************)
EXTENDS ScudoAllocator, TLC

MCClassSize == [k \in {1} |-> 2]

MCChunkClass == [c \in Chunks |-> 1]

ThreadSymmetry == Permutations(Threads)

=============================================================================
