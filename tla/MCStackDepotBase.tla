--------------------------- MODULE MCStackDepotBase ---------------------------
(* Two threads, a table of two buckets in two parts (kPartSize 1), ids 1  *)
(* and 2 per part (kMaxId 3), so a third insertion into a part fails its *)
(* CHECK; three valid args, two of which share bucket 0, and one invalid  *)
(* (MCHash), or all in bucket 0 (MCHashOneBucket).                       *)
EXTENDS StackDepotBase, TLC

CONSTANTS t1, t2, a0, a1, a2, a3, n1, n2, n3

MCThreads == {t1, t2}
MCArgs == {a0, a1, a2, a3}
MCValidArgs == {a1, a2, a3}
MCHash == (a0 :> 0) @@ (a1 :> 0) @@ (a2 :> 0) @@ (a3 :> 1)
\* All args in bucket 0, so that three insertions exhaust part 0's ids.
MCHashOneBucket == [a \in MCArgs |-> 0]
MCNodes == {n1, n2, n3}
MCOpsPutGet == {"Put", "Get"}
MCOpsAll == {"Put", "Get", "PrintAll", "Free"}
MCOpsPrintAll == {"Put", "Get", "PrintAll"}
MCOpsFree == {"Put", "Free"}
=============================================================================
