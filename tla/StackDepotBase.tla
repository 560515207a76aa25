--------------------------- MODULE StackDepotBase ---------------------------
(***************************************************************************)
(* The stack depot's hash table (src/lib/sanitizer_common/                  *)
(* sanitizer_stackdepotbase.h): kTabSize buckets, each an atomic pointer   *)
(* to a chain of Nodes whose low bit is the bucket's lock; per part of     *)
(* kPartSize buckets an id counter seq and a free list freeNodes.          *)
(*                                                                         *)
(* Put does a lock-free find on the chain it loaded, then locks the bucket, *)
(* finds again only if the head changed (s2 != s), allocates an id and a   *)
(* node and publishes it as the new head with the unlocking store.  Each   *)
(* of the two halves is one step: the first reads the published chain;    *)
(* in the second, everything after lock() happens while the bucket is     *)
(* locked, and alloc's freeNodes lock is held only inside it.  Get scans   *)
(* the part's chains lock-free in one step.  PrintAll locks and unlocks    *)
(* one bucket per step; Free takes LockAll one bucket per step, moves every *)
(* node to freeNodes and resets seq in one step, then UnlockAll.           *)
(* An id is part * kMaxId + n, which is n | part << kPartShift.            *)
(***************************************************************************)
EXTENDS Integers, Sequences, FiniteSets, SequencesExt

CONSTANTS
  Threads,
  Args, ValidArgs,   \* the args_type values; Node::is_valid
  Hash,              \* Node::hash(args) % kTabSize
  TabSize,           \* kTabSize
  PartSize,          \* kPartSize
  MaxId,             \* kMaxId = 1 << kPartShift
  Nodes,             \* the node memory PersistentAlloc can hand out
  MaxCalls,          \* Put/PrintAll/Free calls per thread
  Ops,               \* the calls the program makes
  Null, NoArgs, NoThread

Buckets == 0..TabSize-1
Parts == 0..(TabSize \div PartSize)-1
PartOf(b) == b \div PartSize
Ids == {p * MaxId + n : p \in Parts, n \in 1..MaxId-1}

ASSUME Hash \in [Args -> Buckets] /\ ValidArgs \subseteq Args
ASSUME Ops \subseteq {"Put", "Get", "PrintAll", "Free"}

VARIABLES
  tab,        \* tab[b]: head node of the chain
  lockedBy,   \* the holder of tab[b]'s lock bit
  node,       \* each node's id, args and link
  seq,        \* seq[part]
  freeNodes,  \* freeNodes[part]: head of the part's free list
  fresh,      \* nodes PersistentAlloc has not handed out yet
  pc, arg, snap, idx,
  calls,      \* calls each thread has made
  ret,        \* what its last Put or Get returned
  dead        \* a CHECK failed

vars == <<tab, lockedBy, node, seq, freeNodes, fresh, pc, arg, snap, idx,
          calls, ret, dead>>

\* The chain starting at node s, following link (at most |Nodes| long).
RECURSIVE ChainUpTo(_, _)
ChainUpTo(s, k) ==
  IF s = Null \/ k = 0 THEN <<>> ELSE <<s>> \o ChainUpTo(node[s].link, k - 1)
Chain(s) == ChainUpTo(s, Cardinality(Nodes))

\* find(s, args, hash): the first node of the chain with these args.
Find(s, a) ==
  LET hits == SelectSeq(Chain(s), LAMBDA n : node[n].args = a) IN
  IF hits = <<>> THEN Null ELSE Head(hits)

Init ==
  /\ tab = [b \in Buckets |-> Null]
  /\ lockedBy = [b \in Buckets |-> NoThread]
  /\ node = [n \in Nodes |-> [id |-> 0, args |-> NoArgs, link |-> Null]]
  /\ seq = [p \in Parts |-> 0]
  /\ freeNodes = [p \in Parts |-> Null]
  /\ fresh = Nodes
  /\ pc = [t \in Threads |-> "Idle"]
  /\ arg = [t \in Threads |-> NoArgs]
  /\ snap = [t \in Threads |-> Null]
  /\ idx = [t \in Threads |-> 0]
  /\ calls = [t \in Threads |-> 0]
  /\ ret = [t \in Threads |-> 0]
  /\ dead = FALSE

\* GetLowPtrBits<1>(tab[b]): the bucket word's low bit, its lock.
LockBit(b) == IF lockedBy[b] = NoThread THEN 0 ELSE 1

\* lock(p): the spin loop's CAS can set the low bit only once it is clear.
\* A step that both locks and unlocks the bucket only needs it clear.
LockFree(b) == LockBit(b) = 0
Lock(t, b) == LockFree(b) /\ lockedBy' = [lockedBy EXCEPT ![b] = t]

\* unlock(p, s): the release store of s clears the low bit.
Unlock(b) == lockedBy' = [lockedBy EXCEPT ![b] = NoThread]

\* PersistentAlloc(sizeof(Node)): tryAlloc bumps region_pos, or
\* refillAndAlloc maps a new region; either way the memory was never handed
\* out before and is never freed.  The node memory is bounded by Nodes, and
\* an empty set stands for the mapping failing, which dies.
PersistentAlloc == fresh

Call(t, op) == /\ ~dead /\ op \in Ops /\ pc[t] = "Idle" /\ calls[t] < MaxCalls
Finish(t, r) == /\ pc' = [pc EXCEPT ![t] = "Idle"]
                /\ ret' = [ret EXCEPT ![t] = r]
                /\ calls' = [calls EXCEPT ![t] = @ + 1]

\* Put, up to the lock: is_valid, the load of tab[h % kTabSize] and the
\* lock-free find on the chain it heads.
PutFind(t, a) ==
  LET s == tab[Hash[a]]
      n == Find(s, a)
  IN
  /\ Call(t, "Put")
  /\ \/ /\ a \notin ValidArgs
        /\ Finish(t, 0)
        /\ UNCHANGED <<arg, snap>>
     \/ /\ a \in ValidArgs /\ n # Null
        /\ Finish(t, node[n].id)
        /\ UNCHANGED <<arg, snap>>
     \/ /\ a \in ValidArgs /\ n = Null
        /\ pc' = [pc EXCEPT ![t] = "PutLock"]
        /\ arg' = [arg EXCEPT ![t] = a]
        /\ snap' = [snap EXCEPT ![t] = s]
        /\ UNCHANGED <<calls, ret>>
  /\ UNCHANGED <<tab, lockedBy, node, seq, freeNodes, fresh, idx, dead>>

\* Mutant of Refind: the second find is skipped.
RefindNever(t) == Null

\* if (s2 != s) node = find(s2, args, h): the second find, made only when
\* the head changed since the lock-free load.
Refind(t) ==
  LET s2 == tab[Hash[arg[t]]] IN
  IF s2 # snap[t] THEN Find(s2, arg[t]) ELSE Null

\* Mutant of IdOk: CHECK_LE instead of CHECK_LT.
IdOkLe(i) == i <= MaxId

\* CHECK_LT(id, kMaxId) on the id fetched from seq[part].
IdOk(i) == i < MaxId

\* Put, from lock(p): the second find, or the new id, alloc(part) (pop
\* freeNodes[part] under its lock bit, else PersistentAlloc, which dies
\* when no memory is left), the node's id/store/link, and unlock(p, s),
\* which publishes it.
PutInsert(t) ==
  LET a == arg[t]
      b == Hash[a]
      part == PartOf(b)
      found == Refind(t)
      n == seq[part] + 1
      h == freeNodes[part]
  IN
  /\ ~dead
  /\ pc[t] = "PutLock"
  /\ LockFree(b)
  /\ \/ /\ found # Null
        /\ Finish(t, node[found].id)
        /\ UNCHANGED <<tab, node, seq, freeNodes, fresh, dead>>
     \/ /\ found = Null
        /\ (~IdOk(n) \/ (h = Null /\ PersistentAlloc = {}))
        /\ dead' = TRUE
        /\ UNCHANGED <<tab, node, seq, freeNodes, fresh, pc, calls, ret>>
     \/ /\ found = Null /\ IdOk(n)
        /\ \E s \in IF h # Null THEN {h} ELSE PersistentAlloc :
             /\ freeNodes' = IF h # Null THEN [freeNodes EXCEPT ![part] = node[h].link]
                                         ELSE freeNodes
             /\ fresh' = fresh \ {s}
             /\ node' = [node EXCEPT ![s] = [id |-> part * MaxId + n, args |-> a,
                                              link |-> tab[b]]]
             /\ tab' = [tab EXCEPT ![b] = s]
             /\ Finish(t, part * MaxId + n)
        /\ seq' = [seq EXCEPT ![part] = n]
        /\ UNCHANGED dead
  /\ UNCHANGED <<lockedBy, arg, snap, idx>>

\* Get(id): the null args for id 0, else a lock-free scan of the kPartSize
\* chains of the id's part for a node with that id.
Get(t, i) ==
  LET part == i \div MaxId
      scan == SelectSeq(FlattenSeq([j \in 1..PartSize |->
                                      Chain(tab[part * PartSize + j - 1])]),
                        LAMBDA x : node[x].id = i)
  IN
  /\ Call(t, "Get")
  /\ Finish(t, IF i = 0 \/ scan = <<>> THEN NoArgs ELSE node[Head(scan)].args)
  /\ UNCHANGED <<tab, lockedBy, node, seq, freeNodes, fresh, arg, snap, idx,
                 dead>>

\* One bucket of PrintAll: lock(p), walk the chain printing it, and
\* unlock(p, s) with the s the walk ended on.
PrintBucket(t) ==
  LET i == IF pc[t] = "Idle" THEN 0 ELSE idx[t] IN
  /\ \/ Call(t, "PrintAll")
     \/ ~dead /\ pc[t] = "PrintAll"
  /\ LockFree(i)
  /\ tab' = [tab EXCEPT ![i] = Null]
  /\ IF i = TabSize - 1
       THEN Finish(t, ret[t]) /\ UNCHANGED idx
       ELSE /\ pc' = [pc EXCEPT ![t] = "PrintAll"]
            /\ idx' = [idx EXCEPT ![t] = i + 1]
            /\ UNCHANGED <<calls, ret>>
  /\ UNCHANGED <<lockedBy, node, seq, freeNodes, fresh, arg, snap, dead>>

\* One bucket of Free's LockAll, ascending.
FreeLock(t) ==
  LET i == IF pc[t] = "Idle" THEN 0 ELSE idx[t] IN
  /\ \/ Call(t, "Free")
     \/ ~dead /\ pc[t] = "FreeLock"
  /\ Lock(t, i)
  /\ pc' = [pc EXCEPT ![t] = IF i = TabSize - 1 THEN "FreeMove" ELSE "FreeLock"]
  /\ idx' = [idx EXCEPT ![t] = IF i = TabSize - 1 THEN i ELSE i + 1]
  /\ UNCHANGED <<tab, node, seq, freeNodes, fresh, arg, snap, calls, ret, dead>>

\* Free's loop pushing the nodes ns, in order, on the free list of the part
\* their id names: s->link = freeNodes[part] head; freeNodes[part] = s.
RECURSIVE PushFree(_, _, _)
PushFree(ns, fl, nd) ==
  IF ns = <<>> THEN <<fl, nd>>
  ELSE LET s == Head(ns)
           part == nd[s].id \div MaxId
       IN PushFree(Tail(ns), [fl EXCEPT ![part] = s],
                   [nd EXCEPT ![s].link = fl[part]])

\* Mutant of FreeMove: the buckets are not emptied.
FreeMoveNoClear(t) ==
  LET r == PushFree(FlattenSeq([j \in 1..TabSize |-> Chain(tab[j - 1])]),
                    freeNodes, node)
  IN
  /\ ~dead
  /\ pc[t] = "FreeMove"
  /\ freeNodes' = r[1]
  /\ node' = r[2]
  /\ seq' = [p \in Parts |-> 0]
  /\ pc' = [pc EXCEPT ![t] = "FreeUnlock"]
  /\ UNCHANGED <<tab, lockedBy, fresh, arg, snap, idx, calls, ret, dead>>

\* Free, with every bucket locked: lock every freeNodes[i], move the chains
\* of the buckets 0..kTabSize-1 to the free lists and empty the buckets,
\* stats.n_uniq_ids = 0, reset every seq[i], unlock the free lists.
FreeMove(t) ==
  LET r == PushFree(FlattenSeq([j \in 1..TabSize |-> Chain(tab[j - 1])]),
                    freeNodes, node)
  IN
  /\ ~dead
  /\ pc[t] = "FreeMove"
  /\ freeNodes' = r[1]
  /\ node' = r[2]
  /\ tab' = [b \in Buckets |-> Null]
  /\ seq' = [p \in Parts |-> 0]
  /\ pc' = [pc EXCEPT ![t] = "FreeUnlock"]
  /\ UNCHANGED <<lockedBy, fresh, arg, snap, idx, calls, ret, dead>>

\* Mutant of FreeUnlock: the descending loop stops before bucket 0
\* (i > 0 for i >= 0), which stays locked.
FreeUnlockSkipZero(t) ==
  LET i == idx[t] IN
  /\ ~dead
  /\ pc[t] = "FreeUnlock"
  /\ IF i <= 1
       THEN Finish(t, ret[t]) /\ UNCHANGED <<idx, lockedBy>>
       ELSE /\ Unlock(i)
            /\ idx' = [idx EXCEPT ![t] = i - 1]
            /\ UNCHANGED <<pc, calls, ret>>
  /\ UNCHANGED <<tab, node, seq, freeNodes, fresh, arg, snap, dead>>

\* One bucket of UnlockAll, descending.
FreeUnlock(t) ==
  LET i == idx[t] IN
  /\ ~dead
  /\ pc[t] = "FreeUnlock"
  /\ Unlock(i)
  /\ IF i = 0
       THEN Finish(t, ret[t]) /\ UNCHANGED idx
       ELSE /\ idx' = [idx EXCEPT ![t] = i - 1]
            /\ UNCHANGED <<pc, calls, ret>>
  /\ UNCHANGED <<tab, node, seq, freeNodes, fresh, arg, snap, dead>>

Next ==
  \E t \in Threads :
    \/ \E a \in Args : PutFind(t, a)
    \/ PutInsert(t)
    \/ \E i \in Ids \cup {0} : Get(t, i)
    \/ PrintBucket(t)
    \/ FreeLock(t)
    \/ FreeMove(t)
    \/ FreeUnlock(t)

Spec == Init /\ [][Next]_vars

\* The steps of a call already under way; when a thread starts a call is
\* the program's choice, and is left unconstrained.
Continue(t) ==
  /\ pc[t] # "Idle"
  /\ \/ PutInsert(t) \/ PrintBucket(t) \/ FreeLock(t) \/ FreeMove(t)
     \/ FreeUnlock(t)

\* Each thread keeps running a call it has started.  The lock bits are
\* spin locks, which are not fair: a waiter can lose every race for the
\* bit.  Weak fairness suffices here only because a thread makes at most
\* MaxCalls calls, so the other threads eventually stop taking the bit.
FairSpec == Spec /\ \A t \in Threads : WF_vars(Continue(t))

-----------------------------------------------------------------------------
(* Properties.                                                             *)

TypeOK ==
  /\ tab \in [Buckets -> Nodes \cup {Null}]
  /\ lockedBy \in [Buckets -> Threads \cup {NoThread}]
  /\ node \in [Nodes -> [id : Ids \cup {0}, args : Args \cup {NoArgs},
                          link : Nodes \cup {Null}]]
  /\ seq \in [Parts -> 0..MaxId]
  /\ freeNodes \in [Parts -> Nodes \cup {Null}]
  /\ fresh \subseteq Nodes
  /\ pc \in [Threads -> {"Idle", "PutLock", "PrintAll", "FreeLock", "FreeMove",
                          "FreeUnlock"}]
  /\ arg \in [Threads -> Args \cup {NoArgs}]
  /\ snap \in [Threads -> Nodes \cup {Null}]
  /\ idx \in [Threads -> Buckets]
  /\ calls \in [Threads -> 0..MaxCalls]
  /\ ret \in [Threads -> Ids \cup {0} \cup Args \cup {NoArgs}]
  /\ dead \in BOOLEAN

\* The id each args has in the depot: the one find() reaches first in its
\* bucket, 0 if none.
DepotIds ==
  [a \in Args |-> IF a \in ValidArgs /\ Find(tab[Hash[a]], a) # Null
                    THEN node[Find(tab[Hash[a]], a)].id ELSE 0]

Map == INSTANCE StackDepotMap WITH ids <- DepotIds, ret <- ret

\* Put, Get, PrintAll and Free, interleaved on the lock bits and the
\* lock-free finds, implement the map from args to unique ids: a Put
\* returns the id equal args already have or a fresh one, a Get returns
\* the args of its id, and ids only disappear all at once, in Free.
DepotRefinesMap == Map!Spec

\* No call blocks for ever: a Put spinning in lock(p) on a bucket that
\* Free's LockAll holds, a PrintAll walking the buckets, and a Free
\* taking every bucket then releasing them in UnlockAll all return (the
\* lock order, bucket then freeNodes, is the same in Put and Free).
CallsReturn == \A t \in Threads : (pc[t] # "Idle") ~> (pc[t] = "Idle" \/ dead)

\* The nodes published in the table.
Published == {n \in Nodes : \E b \in Buckets : \E i \in DOMAIN Chain(tab[b]) :
                                Chain(tab[b])[i] = n}

\* Ids of published nodes are unique, and each names the part of the
\* bucket it is in (so Get scans the right chains) with a sequence number
\* seq[part] has already handed out (so no later Put can reuse it).
IdsUnique ==
  /\ \A b \in Buckets : \A i \in DOMAIN Chain(tab[b]) :
       LET id == node[Chain(tab[b])[i]].id IN
       /\ id \div MaxId = PartOf(b)
       /\ id % MaxId \in 1..seq[PartOf(b)]
  /\ \A m, n \in Published : m # n => node[m].id # node[n].id

=============================================================================
