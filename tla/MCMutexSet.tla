----------------------------- MODULE MCMutexSet -----------------------------
(* Three mutex ids and two addresses competing for a set of two slots.    *)
EXTENDS MutexSet

MCIds == {1, 2, 3}
MCAddrs == {1, 2}
=============================================================================
