------------------------------ MODULE MutexSet ------------------------------
(***************************************************************************)
(* The per-thread set of held mutexes of ThreadSanitizer                   *)
(* (lib/tsan/rtl/tsan_mutexset.cpp).  A MutexSet is an array descs_ of at  *)
(* most kMaxSize descriptors, used by one thread only, so every operation  *)
(* is one atomic step.  Two interfaces share the array: Add/Del/Remove key *)
(* a descriptor by mutex id (its addr is 0), AddAddr/DelAddr key it by     *)
(* address (its id and epoch are 0).  When the array is full the oldest    *)
(* descriptor is dropped: by epoch for Add, by seq for AddAddr.            *)
(*                                                                         *)
(* The descriptor's write flag and stack_id are stored and never read by   *)
(* these operations; they are left out.  The ghost variable held is what   *)
(* the calling thread really holds (recursive locks counted), and evicted  *)
(* the held mutexes whose descriptor an overflow dropped.                  *)
(***************************************************************************)
EXTENDS Integers, Sequences, FiniteSets

CONSTANTS
  Ids,        \* mutex ids passed to Add/Del/Remove, all nonzero
  Addrs,      \* mutex addresses passed to AddAddr/DelAddr, all nonzero
  MaxSize,    \* kMaxSize
  MaxEpoch,   \* bound on the caller's epoch
  MaxSeq,     \* bound on seq_
  MaxHeld     \* bound on recursive acquisitions of one mutex

ASSUME 0 \notin Ids \cup Addrs /\ MaxSize >= 1

\* A mutex as the caller sees it: an id or an address.
Mutex == ({"id"} \X Ids) \cup ({"addr"} \X Addrs)

Desc == [id : Ids \cup {0}, addr : Addrs \cup {0}, epoch : 0..MaxEpoch,
         seq : 0..MaxSeq, count : 1..MaxHeld]

VARIABLES
  descs,    \* descs_[0 .. size_-1], as a sequence (size_ = Len(descs))
  seq,      \* seq_
  clock,    \* the caller's current epoch (non-decreasing)
  held,     \* ghost: recursion count of each mutex the caller holds
  evicted   \* ghost: held mutexes whose descriptor was dropped on overflow

vars == <<descs, seq, clock, held, evicted>>

\* The caller-side mutex a descriptor stands for.
MutexOf(d) == IF d.addr = 0 THEN <<"id", d.id>> ELSE <<"addr", d.addr>>

Init ==
  /\ descs = << >>
  /\ seq = 0
  /\ clock = 0
  /\ held = [m \in Mutex |-> 0]
  /\ evicted = {}

\* Mutant: RemovePos forgets to move the last descriptor into slot i.
RemovePosDropLast(s, i) == SubSeq(s, 1, Len(s) - 1)

(* RemovePos(i): the last descriptor moves into slot i and size_ drops.    *)
(* Positions are 1-based here, i = i0 + 1 for the code's index i0.         *)
RemovePos(s, i) ==
  SubSeq([s EXCEPT ![i] = s[Len(s)]], 1, Len(s) - 1)

\* The first position whose field f is least (the strict < of both loops).
FirstMin(s, f) ==
  CHOOSE i \in 1..Len(s) :
    /\ \A j \in 1..Len(s) : s[i][f] <= s[j][f]
    /\ \A j \in 1..i-1 : s[j][f] > s[i][f]

\* The first position with key field f equal to v, or 0.
Find(s, f, v) ==
  IF \E i \in 1..Len(s) : s[i][f] = v
  THEN CHOOSE i \in 1..Len(s) : s[i][f] = v /\ \A j \in 1..i-1 : s[j][f] # v
  ELSE 0

\* Mutant: the overflow test is off by one (size_ > kMaxSize).
MakeRoomLate(s, f) ==
  IF Len(s) > MaxSize THEN RemovePos(s, FirstMin(s, f)) ELSE s

\* The overflow step shared by Add and AddAddr: when size_ == kMaxSize,
\* drop the descriptor at the first least value of field f.
MakeRoom(s, f) ==
  IF Len(s) = MaxSize THEN RemovePos(s, FirstMin(s, f)) ELSE s

\* The ghost update of an overflow: the dropped mutex, if still held.
Dropped(s, f) ==
  IF Len(s) = MaxSize THEN {MutexOf(s[FirstMin(s, f)])} ELSE {}

\* The caller acquires mutex m once more.
Acquire(m) == held' = [held EXCEPT ![m] = @ + 1]

(* MutexSet::Add(id, write, epoch).                                        *)
Add(id, e) ==
  LET i == Find(descs, "id", id) IN
  /\ held[<<"id", id>>] < MaxHeld
  /\ e \in clock..MaxEpoch
  /\ clock' = e
  /\ Acquire(<<"id", id>>)
  /\ \/ /\ i # 0
        /\ descs' = [descs EXCEPT ![i].count = @ + 1, ![i].epoch = e]
        /\ UNCHANGED <<seq, evicted>>
     \/ /\ i = 0
        /\ seq < MaxSeq
        /\ descs' = Append(MakeRoom(descs, "epoch"),
                      [id |-> id, addr |-> 0, epoch |-> e, seq |-> seq,
                       count |-> 1])
        /\ seq' = seq + 1
        /\ evicted' = evicted \cup Dropped(descs, "epoch")

(* MutexSet::AddAddr(addr, stack_id, write).                               *)
AddAddr(a) ==
  LET i == Find(descs, "addr", a) IN
  /\ held[<<"addr", a>>] < MaxHeld
  /\ seq < MaxSeq
  /\ seq' = seq + 1
  /\ Acquire(<<"addr", a>>)
  /\ \/ /\ i # 0
        /\ descs' = [descs EXCEPT ![i].count = @ + 1, ![i].seq = seq]
        /\ UNCHANGED evicted
     \/ /\ i = 0
        /\ descs' = Append(MakeRoom(descs, "seq"),
                      [id |-> 0, addr |-> a, epoch |-> 0, seq |-> seq,
                       count |-> 1])
        /\ evicted' = evicted \cup Dropped(descs, "seq")
  /\ UNCHANGED clock

\* The caller releases m once; a mutex released for the last time is no
\* longer evicted.
Release(m) ==
  /\ held[m] > 0
  /\ held' = [held EXCEPT ![m] = @ - 1]
  /\ evicted' = IF held'[m] = 0 THEN evicted \ {m} ELSE evicted

(* MutexSet::Del(id, write): the caller unlocks a mutex it holds.          *)
Del(id) ==
  LET i == Find(descs, "id", id) IN
  /\ Release(<<"id", id>>)
  /\ descs' = CASE i = 0                 -> descs
                [] descs[i].count = 1    -> RemovePos(descs, i)
                [] OTHER                 -> [descs EXCEPT ![i].count = @ - 1]
  /\ UNCHANGED <<seq, clock>>

\* Mutant: DelAddr ignores destroy when choosing whether to RemovePos.
DelAddrNoDestroy(a, destroy) ==
  LET i == Find(descs, "addr", a) IN
  /\ IF destroy
       THEN /\ held' = [held EXCEPT ![<<"addr", a>>] = 0]
            /\ evicted' = evicted \ {<<"addr", a>>}
       ELSE Release(<<"addr", a>>)
  /\ descs' = CASE i = 0                 -> descs
                [] descs[i].count = 1    -> RemovePos(descs, i)
                [] OTHER                 -> [descs EXCEPT ![i].count = @ - 1]
  /\ UNCHANGED <<seq, clock>>

(* MutexSet::DelAddr(addr, destroy).                                       *)
DelAddr(a, destroy) ==
  LET i == Find(descs, "addr", a) IN
  /\ IF destroy
       THEN /\ held' = [held EXCEPT ![<<"addr", a>>] = 0]
            /\ evicted' = evicted \ {<<"addr", a>>}
       ELSE Release(<<"addr", a>>)
  /\ descs' = CASE i = 0                          -> descs
                [] destroy \/ descs[i].count = 1  -> RemovePos(descs, i)
                [] OTHER                          -> [descs EXCEPT ![i].count = @ - 1]
  /\ UNCHANGED <<seq, clock>>

(* MutexSet::Remove(id): the mutex is destroyed, held or not.              *)
Remove(id) ==
  LET i == Find(descs, "id", id) IN
  /\ held' = [held EXCEPT ![<<"id", id>>] = 0]
  /\ evicted' = evicted \ {<<"id", id>>}
  /\ descs' = IF i = 0 THEN descs ELSE RemovePos(descs, i)
  /\ UNCHANGED <<seq, clock>>

Next ==
  \/ \E id \in Ids, e \in 0..MaxEpoch : Add(id, e)
  \/ \E a \in Addrs : AddAddr(a)
  \/ \E id \in Ids : Del(id) \/ Remove(id)
  \/ \E a \in Addrs, destroy \in BOOLEAN : DelAddr(a, destroy)

Spec == Init /\ [][Next]_vars

-----------------------------------------------------------------------------

TypeOK ==
  /\ descs \in Seq(Desc) /\ Len(descs) <= MaxSize
  /\ seq \in 0..MaxSeq /\ clock \in 0..MaxEpoch
  /\ held \in [Mutex -> 0..MaxHeld]
  /\ evicted \subseteq Mutex

\* Every mutex the thread holds and whose descriptor no overflow dropped
\* has exactly one descriptor, and its count is the thread's recursion
\* count: the lookups of Add/AddAddr, the decrement of Del/DelAddr and the
\* swap with the last slot in RemovePos must together never lose, duplicate
\* or miscount a descriptor (reports print the held set from these).
RecordIsExact ==
  \A m \in Mutex :
    held[m] > 0 /\ m \notin evicted =>
      \E i \in 1..Len(descs) :
        /\ MutexOf(descs[i]) = m
        /\ descs[i].count = held[m]
        /\ \A j \in 1..Len(descs) \ {i} : MutexOf(descs[j]) # m

\* No descriptor outlives its mutex or over-counts it: after overflows,
\* re-acquisitions and releases of an evicted mutex, every descriptor is
\* for a mutex the thread still holds, at most as often as it holds it,
\* and no two descriptors are for one mutex.
NoStaleDesc ==
  \A i \in 1..Len(descs) :
    /\ descs[i].count <= held[MutexOf(descs[i])]
    /\ \A j \in 1..Len(descs) \ {i} : MutexOf(descs[j]) # MutexOf(descs[i])

=============================================================================
