----------------------------- MODULE StackStore -----------------------------
(***************************************************************************)
(* The append-only allocator behind the stack depot                        *)
(* (src/lib/sanitizer_common/sanitizer_stack_store.h).  alloc first tries   *)
(* a lock-free bump of region_pos (tryAlloc: load region_pos, load          *)
(* region_end, CAS), and when that fails takes mtx and loops: tryAlloc      *)
(* again, else zero region_pos, map a new block with its BlockInfo at the  *)
(* end, publish region_end and then region_pos.  Every load and store of    *)
(* region_pos/region_end is a step of its own; memory is sequentially       *)
(* consistent (the loads are acquire, the publishing stores release).       *)
(* Addresses and sizes are in words (sizeof(uptr) = 1).                    *)
(***************************************************************************)
EXTENDS Integers, Sequences, FiniteSets

CONSTANTS
  Threads,     \* threads calling alloc
  Counts,      \* the counts they ask for
  MaxAllocs,   \* allocations per thread
  MmapBases,   \* the addresses mmap can return, one block apart
  InfoSize,    \* sizeof(BlockInfo)
  MinBlock,    \* 64 * 1024
  PageSize,    \* GetPageSizeCached()
  NoThread

ASSUME Counts \subseteq Nat \ {0} /\ 0 \notin MmapBases

VARIABLES
  regionPos, regionEnd, mtx,
  curr,        \* the BlockInfo list, newest first
  mappedSize,
  pc,          \* where each thread is in alloc
  cnt,         \* its count
  inRefill,    \* its tryAlloc is the one inside refillAndAlloc's loop
  cmp, endv,   \* the values its tryAlloc loaded
  mem,         \* the block its refill mapped
  done,        \* the allocations it has completed
  issued       \* every pointer alloc returned: [addr, len, by, nth]

vars == <<regionPos, regionEnd, mtx, curr, mappedSize, pc, cnt, inRefill,
          cmp, endv, mem, done, issued>>

Max2(a, b) == IF a >= b THEN a ELSE b
RoundUpTo(x, a) == ((x + a - 1) \div a) * a
\* allocsz of refillAndAlloc for a request of n words.
AllocSize(n) == RoundUpTo(Max2(n + InfoSize, MinBlock), PageSize)
UsedBases == {b.ptr : b \in {curr[i] : i \in DOMAIN curr}}

Init ==
  /\ regionPos = 0 /\ regionEnd = 0 /\ mtx = NoThread
  /\ curr = <<>> /\ mappedSize = 0
  /\ pc = [t \in Threads |-> "Idle"]
  /\ cnt = [t \in Threads |-> 1]
  /\ inRefill = [t \in Threads |-> FALSE]
  /\ cmp = [t \in Threads |-> 0]
  /\ endv = [t \in Threads |-> 0]
  /\ mem = [t \in Threads |-> 0]
  /\ done = [t \in Threads |-> 0]
  /\ issued = {}

Goto(t, l) == pc' = [pc EXCEPT ![t] = l]

\* alloc(count): enter tryAlloc.
Alloc(t, n) ==
  /\ pc[t] = "Idle" /\ done[t] < MaxAllocs
  /\ Goto(t, "LoadPos")
  /\ cnt' = [cnt EXCEPT ![t] = n]
  /\ inRefill' = [inRefill EXCEPT ![t] = FALSE]
  /\ UNCHANGED <<regionPos, regionEnd, mtx, curr, mappedSize, cmp, endv,
                 mem, done, issued>>

\* tryAlloc: uptr cmp = atomic_load(&region_pos).
LoadPos(t) ==
  /\ pc[t] = "LoadPos"
  /\ cmp' = [cmp EXCEPT ![t] = regionPos]
  /\ Goto(t, "LoadEnd")
  /\ UNCHANGED <<regionPos, regionEnd, mtx, curr, mappedSize, cnt, inRefill,
                 endv, mem, done, issued>>

\* Mutant of LoadEnd: the cmp == 0 test is left out.
LoadEndNoZeroTest(t) ==
  /\ pc[t] = "LoadEnd"
  /\ endv' = [endv EXCEPT ![t] = regionEnd]
  /\ IF cmp[t] + cnt[t] > regionEnd
       THEN Goto(t, IF inRefill[t] THEN "Zero" ELSE "Lock")
       ELSE Goto(t, "Cas")
  /\ UNCHANGED <<regionPos, regionEnd, mtx, curr, mappedSize, cnt, inRefill,
                 cmp, mem, done, issued>>

\* tryAlloc: uptr end = atomic_load(&region_end); return nullptr when
\* cmp == 0 || cmp + size > end, to alloc (which calls refillAndAlloc) or
\* to refillAndAlloc's loop.
LoadEnd(t) ==
  /\ pc[t] = "LoadEnd"
  /\ endv' = [endv EXCEPT ![t] = regionEnd]
  /\ IF cmp[t] = 0 \/ cmp[t] + cnt[t] > regionEnd
       THEN Goto(t, IF inRefill[t] THEN "Zero" ELSE "Lock")
       ELSE Goto(t, "Cas")
  /\ UNCHANGED <<regionPos, regionEnd, mtx, curr, mappedSize, cnt, inRefill,
                 cmp, mem, done, issued>>

\* Mutant of Return: refillAndAlloc returns without releasing mtx.
ReturnKeepLock(t, p) ==
  /\ Goto(t, "Idle")
  /\ done' = [done EXCEPT ![t] = @ + 1]
  /\ issued' = issued \cup {[addr |-> p, len |-> cnt[t], by |-> t, nth |-> done[t]]}
  /\ mtx' = mtx

\* Return from alloc with p, releasing mtx when in refillAndAlloc.
Return(t, p) ==
  /\ Goto(t, "Idle")
  /\ done' = [done EXCEPT ![t] = @ + 1]
  /\ issued' = issued \cup {[addr |-> p, len |-> cnt[t], by |-> t, nth |-> done[t]]}
  /\ mtx' = IF inRefill[t] THEN NoThread ELSE mtx

\* tryAlloc: atomic_compare_exchange_weak(&region_pos, &cmp, cmp + size),
\* which may also fail spuriously; on failure the loop reloads.
Cas(t) ==
  /\ pc[t] = "Cas"
  /\ \/ /\ regionPos = cmp[t]
        /\ regionPos' = cmp[t] + cnt[t]
        /\ Return(t, cmp[t])
     \/ /\ Goto(t, "LoadPos")
        /\ UNCHANGED <<regionPos, mtx, done, issued>>
  /\ UNCHANGED <<regionEnd, curr, mappedSize, cnt, inRefill, cmp, endv, mem>>

\* refillAndAlloc: SpinMutexLock l(&mtx), then tryAlloc again.
Lock(t) ==
  /\ pc[t] = "Lock"
  /\ mtx = NoThread
  /\ mtx' = t
  /\ inRefill' = [inRefill EXCEPT ![t] = TRUE]
  /\ Goto(t, "LoadPos")
  /\ UNCHANGED <<regionPos, regionEnd, curr, mappedSize, cnt, cmp, endv,
                 mem, done, issued>>

\* Mutant of Zero: refillAndAlloc does not clear region_pos first.
ZeroSkipped(t) ==
  /\ pc[t] = "Zero"
  /\ Goto(t, "Map")
  /\ UNCHANGED <<regionPos, regionEnd, mtx, curr, mappedSize, cnt, inRefill,
                 cmp, endv, mem, done, issued>>

\* atomic_store(&region_pos, 0).
Zero(t) ==
  /\ pc[t] = "Zero"
  /\ regionPos' = 0
  /\ Goto(t, "Map")
  /\ UNCHANGED <<regionEnd, mtx, curr, mappedSize, cnt, inRefill, cmp,
                 endv, mem, done, issued>>

\* MmapOrDie, the new BlockInfo pushed on curr, mapped_size += allocsz.
\* Mapping fails (and the process dies) when mmap has nothing left.
Map(t) ==
  /\ pc[t] = "Map"
  /\ \/ \E b \in MmapBases \ UsedBases :
          /\ curr' = <<[ptr |-> b, size |-> AllocSize(cnt[t])]>> \o curr
          /\ mappedSize' = mappedSize + AllocSize(cnt[t])
          /\ mem' = [mem EXCEPT ![t] = b]
          /\ Goto(t, "StoreEnd")
     \/ /\ MmapBases \subseteq UsedBases
        /\ Goto(t, "Dead")
        /\ UNCHANGED <<curr, mappedSize, mem>>
  /\ UNCHANGED <<regionPos, regionEnd, mtx, cnt, inRefill, cmp, endv, done,
                 issued>>

\* atomic_store(&region_end, mem + allocsz - sizeof(BlockInfo)).
StoreEnd(t) ==
  /\ pc[t] = "StoreEnd"
  /\ regionEnd' = mem[t] + AllocSize(cnt[t]) - InfoSize
  /\ Goto(t, "StorePos")
  /\ UNCHANGED <<regionPos, mtx, curr, mappedSize, cnt, inRefill, cmp,
                 endv, mem, done, issued>>

\* atomic_store(&region_pos, mem), and round the loop to tryAlloc.
StorePos(t) ==
  /\ pc[t] = "StorePos"
  /\ regionPos' = mem[t]
  /\ Goto(t, "LoadPos")
  /\ UNCHANGED <<regionEnd, mtx, curr, mappedSize, cnt, inRefill, cmp,
                 endv, mem, done, issued>>

Step(t) ==
  \/ \E n \in Counts : Alloc(t, n)
  \/ LoadPos(t) \/ LoadEnd(t) \/ Cas(t) \/ Lock(t)
  \/ Zero(t) \/ Map(t) \/ StoreEnd(t) \/ StorePos(t)

\* MmapOrDie ends the process when mmap fails.
Died == \E t \in Threads : pc[t] = "Dead"

Next == ~Died /\ \E t \in Threads : Step(t)

\* Threads are scheduled fairly; a CAS that keeps finding region_pos
\* unchanged eventually succeeds (spurious failures are transient).
CasSucceeds(t) == Cas(t) /\ regionPos' # regionPos
Fairness == \A t \in Threads : WF_vars(Step(t)) /\ SF_vars(CasSucceeds(t))

Spec == Init /\ [][Next]_vars /\ Fairness

-----------------------------------------------------------------------------
(* Properties.                                                             *)

PCs == {"Idle", "LoadPos", "LoadEnd", "Cas", "Lock", "Zero", "Map",
        "StoreEnd", "StorePos", "Dead"}
Addr == 0..(CHOOSE m \in MmapBases : \A b \in MmapBases : b <= m)
                                        + AllocSize(CHOOSE m \in Counts :
                                             \A c \in Counts : c <= m)

TypeOK ==
  /\ regionPos \in Addr /\ regionEnd \in Addr
  /\ mtx \in Threads \cup {NoThread}
  /\ curr \in Seq([ptr : MmapBases, size : Nat])
  /\ mappedSize \in Nat
  /\ pc \in [Threads -> PCs]
  /\ cnt \in [Threads -> Counts]
  /\ inRefill \in [Threads -> BOOLEAN]
  /\ cmp \in [Threads -> Addr] /\ endv \in [Threads -> Addr]
  /\ mem \in [Threads -> MmapBases \cup {0}]
  /\ done \in [Threads -> 0..MaxAllocs]
  /\ issued \subseteq [addr : Addr \ {0}, len : Counts, by : Threads,
                       nth : 0..MaxAllocs-1]

\* The words of a block alloc may hand out: all but its BlockInfo.
Usable(b) == b.ptr..(b.ptr + b.size - InfoSize - 1)
Words(a) == a.addr..(a.addr + a.len - 1)

\* alloc's lock-free bump and locked refill: every pointer alloc returns
\* lies in the usable part of a block refillAndAlloc mapped (never over a
\* BlockInfo or past the block), and no two returned pointers share a word,
\* whatever the interleaving of tryAlloc's two loads and CAS with another
\* thread's refill.
AllocationsDisjointInBlocks ==
  /\ \A a \in issued : \E i \in DOMAIN curr : Words(a) \subseteq Usable(curr[i])
  /\ \A a, b \in issued : a # b => Words(a) \cap Words(b) = {}

\* Every alloc returns (unless mmap failure killed the process): the CAS
\* loop and the spin mutex of refillAndAlloc cannot starve a thread whose
\* peers make a bounded number of calls.
AllocReturns ==
  \A t \in Threads : (pc[t] # "Idle") ~> (pc[t] = "Idle" \/ Died)

=============================================================================
