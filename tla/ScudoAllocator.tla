--------------------------- MODULE ScudoAllocator ---------------------------
(***************************************************************************)
(* The Scudo hardened allocator facade (src/lib/scudo/scudo_allocator.cpp) *)
(* seen from the chunk headers: several threads allocate, deallocate and   *)
(* reallocate chunks of the Primary; a deallocation first loads the        *)
(* checksummed header into a local copy, checks it, and later either       *)
(* erases it and returns the chunk to the backend (quarantine bypass) or   *)
(* compare-exchanges it to the Quarantined state and puts it in the        *)
(* thread's quarantine cache.  The quarantine (sanitizer_quarantine.h,     *)
(* not part of this source tree) drains a thread cache into a global FIFO  *)
(* and recycles its oldest entries, re-validating each header.             *)
(*                                                                         *)
(* The checksum is abstracted to a flag "valid": storeHeader and           *)
(* compareExchangeHeader produce valid headers, a write by the program     *)
(* over a header (Tamper) makes it invalid, and eraseHeader stores the     *)
(* all-zero header, whose state is ChunkAvailable.                         *)
(***************************************************************************)
EXTENDS Integers, Sequences, FiniteSets, FiniteSetsExt

CONSTANTS
  Threads,                     \* threads calling into the allocator
  Chunks,                      \* Primary chunk slots (model values)
  Classes,                     \* size class ids, all non-zero (Primary)
  ChunkClass,                  \* the class of the region holding each chunk
  ClassSize,                   \* usable size of each class
  Sizes,                       \* requested sizes the program uses
  AllocTypes,                  \* FromMalloc, FromNew, FromNewArray, FromMemalign
  FromMalloc, FromMemalign,    \* the two alloc types the code names
  QuarantineSize,              \* global quarantine cap (bytes)
  ThreadLocalQuarantineSize,   \* per-thread quarantine cache cap (bytes)
  QuarantineChunksUpToSize,    \* larger chunks bypass the quarantine
  DeallocationTypeMismatch,    \* flag: check alloc/dealloc type
  DeleteSizeMismatch,          \* flag: check sized delete
  Tampering,                   \* whether the program may overwrite headers
  NoChunk                      \* no chunk: the local state of an idle thread

ASSUME ChunkClass \in [Chunks -> Classes]
ASSUME NoChunk \notin Chunks
ASSUME ClassSize \in [Classes -> Nat \ {0}]
ASSUME Sizes \subseteq Nat \ {0}
ASSUME {FromMalloc, FromMemalign} \subseteq AllocTypes
\* Quarantine::Init: the cache size is zero only when the global size is.
ASSUME (QuarantineSize = 0 /\ ThreadLocalQuarantineSize = 0)
         \/ ThreadLocalQuarantineSize # 0

Available   == "ChunkAvailable"
Allocated   == "ChunkAllocated"
Quarantined == "ChunkQuarantine"

\* Thread program counters: between the steps of a call.
Idle        == "Idle"
Commit      == "Commit"        \* quarantineOrDeallocateChunk pending
InPlace     == "InPlace"       \* reallocate: in-place header update pending
Move        == "Move"          \* reallocate: new allocation pending
Recycling   == "Recycling"     \* DoRecycle of dequeued entries pending

Headers == [state : {Available, Allocated, Quarantined},
            type  : AllocTypes,
            size  : Nat,
            valid : BOOLEAN]

\* The all-zero packed header written by eraseHeader.
ErasedHeader == [state |-> Available, type |-> FromMalloc,
                 size |-> 0, valid |-> FALSE]

Entry == [chunk : Chunks, size : Nat]

VARIABLES
  header,      \* the packed header in front of each chunk
  backend,     \* how many times each chunk sits in the backend free lists
  qcache,      \* per-thread quarantine cache (FIFO of entries)
  qglobal,     \* global quarantine (FIFO of entries)
  recycling,   \* entries a thread dequeued and is recycling
  pc,          \* per-thread position inside a call
  local,       \* per-thread local copy of the loaded header and its use
  dead,        \* the process died in dieWithMessage / CHECK
  tampered,    \* ghost: chunks whose header the program overwrote
  stale        \* ghost: threads whose loaded header belongs to an
               \*        allocation of the chunk that has since been reissued

vars == <<header, backend, qcache, qglobal, recycling, pc, local, dead,
          tampered, stale>>

NoLocal == [chunk |-> NoChunk, hdr |-> ErasedHeader,
            size |-> 0, newSize |-> 0]

MaxClassSize == CHOOSE m \in {ClassSize[k] : k \in Classes} :
                  \A k \in Classes : ClassSize[k] <= m

\* SizeClassMap::ClassID: the smallest class that fits the request.
ClassID(size) == CHOOSE k \in Classes :
                   /\ size <= ClassSize[k]
                   /\ \A j \in Classes : size <= ClassSize[j] =>
                                           ClassSize[k] <= ClassSize[j]

CanAllocate(size) == size <= MaxClassSize

\* Total bytes of a sequence of quarantine entries.
RECURSIVE Weight(_)
Weight(q) == IF q = <<>> THEN 0 ELSE Head(q).size + Weight(Tail(q))

\* min_size_ of the quarantine: 90% of its maximum size.
RecycleMinSize == (QuarantineSize \div 10) * 9

\* Quarantine::Recycle dequeues the oldest entries while the global
\* quarantine is above min_size_: the number of entries it takes.
RecycleCount(q) ==
  CHOOSE k \in 0..Len(q) :
    /\ Weight(SubSeq(q, k + 1, Len(q))) <= RecycleMinSize
    /\ \A j \in 0..(k - 1) : Weight(SubSeq(q, j + 1, Len(q))) > RecycleMinSize

-----------------------------------------------------------------------------
Init ==
  /\ header    = [c \in Chunks |-> ErasedHeader]
  /\ backend   = [c \in Chunks |-> 1]
  /\ qcache    = [t \in Threads |-> <<>>]
  /\ qglobal   = <<>>
  /\ recycling = [t \in Threads |-> <<>>]
  /\ pc        = [t \in Threads |-> Idle]
  /\ local     = [t \in Threads |-> NoLocal]
  /\ dead      = FALSE
  /\ tampered  = {}
  /\ stale     = {}

\* dieWithMessage / CHECK failure: the process terminates.
Die ==
  /\ dead' = TRUE
  /\ UNCHANGED <<header, backend, qcache, qglobal, recycling, pc, local,
                 tampered, stale>>

\* ScudoChunk::loadHeader succeeds only on a header whose checksum matches.
LoadOk(c) == header[c].valid

\* ScudoChunk::storeHeader: pack the header with a fresh checksum.
StoreHeader(c, h) == header' = [header EXCEPT ![c] = [h EXCEPT !.valid = TRUE]]

\* ScudoChunk::compareExchangeHeader: the strong CAS from the caller's
\* loaded copy succeeds only when the packed header is still that copy;
\* otherwise dieWithMessage reports a race on the chunk header.
CompareExchangeHeaderOk(c, old) == header[c] = old

\* ScudoChunk::getUsableSize of a Primary chunk (Offset 0): the class size
\* (the header size is abstracted).
GetUsableSize(c) == ClassSize[ChunkClass[c]]

\* Backend allocatePrimary followed by storeHeader of a fresh header.
\* Threads still holding a loaded copy of the chunk's old header now hold
\* a copy of an allocation that no longer exists.
IssueChunk(c, size, type) ==
  /\ backend' = [backend EXCEPT ![c] = @ - 1]
  /\ StoreHeader(c, [state |-> Allocated, type |-> type, size |-> size,
                    valid |-> FALSE])
  /\ stale'   = stale \cup {u \in Threads : pc[u] \in {Commit, InPlace, Move}
                                           /\ local[u].chunk = c}

\* Mutant: the chunk is taken without checking the free list holds it.
AllocateFromEmpty(t, size, type) ==
  /\ ~dead /\ pc[t] = Idle
  /\ CanAllocate(size)
  /\ \E c \in Chunks :
       /\ ChunkClass[c] = ClassID(size)
       /\ IssueChunk(c, size, type)
  /\ UNCHANGED <<qcache, qglobal, recycling, pc, local, dead, tampered>>

\* ScudoAllocator::allocate, Primary path (Size fits a size class).
Allocate(t, size, type) ==
  /\ ~dead /\ pc[t] = Idle
  /\ CanAllocate(size)
  /\ \E c \in Chunks :
       /\ ChunkClass[c] = ClassID(size)
       /\ backend[c] > 0
       /\ IssueChunk(c, size, type)
  /\ UNCHANGED <<qcache, qglobal, recycling, pc, local, dead, tampered>>

\* scudoMalloc(Size, Type): allocate with MinAlignment and the caller's
\* type (malloc passes FromMalloc, operator new FromNew or FromNewArray).
ScudoMalloc(t, size, type) == Allocate(t, size, type)

\* valloc, pvalloc, memalign and posix_memalign: allocate as FromMemalign.
\* The alignment only adds to the size the Primary is asked for and is
\* abstracted; a bad alignment is a bad request, which is not modelled.
ScudoMemalign(t, size) == Allocate(t, size, FromMemalign)

\* The checks deallocate makes on its local copy of the header.
DeallocRejects(h, type, deleteSize) ==
  \/ ~h.valid
  \/ h.state # Allocated
  \/ /\ DeallocationTypeMismatch
     /\ h.type # type
     /\ ~(h.type = FromMemalign /\ type = FromMalloc)
  \/ /\ DeleteSizeMismatch
     /\ deleteSize # 0
     /\ deleteSize # h.size

\* ScudoAllocator::deallocate up to the call of quarantineOrDeallocateChunk.
Deallocate(t, c, type, deleteSize) ==
  /\ ~dead /\ pc[t] = Idle
  /\ IF DeallocRejects(header[c], type, deleteSize)
       THEN Die
       ELSE /\ pc'    = [pc EXCEPT ![t] = Commit]
            /\ local' = [local EXCEPT ![t] = [chunk |-> c, hdr |-> header[c],
                                       size |-> header[c].size, newSize |-> 0]]
            /\ UNCHANGED <<header, backend, qcache, qglobal, recycling, dead,
                           tampered, stale>>

\* scudoFree(Ptr, Type) deallocates with DeleteSize 0; scudoSizedFree
\* (sized operator delete) passes the size the program gives.
ScudoFree(t, c, type, deleteSize) == Deallocate(t, c, type, deleteSize)

BypassQuarantine(size) ==
  ThreadLocalQuarantineSize = 0 \/ size > QuarantineChunksUpToSize

\* Quarantine::Put with Drain and the dequeue half of Recycle: enqueue into
\* the thread cache; over the cache cap, transfer the cache to the global
\* quarantine; over the global cap, dequeue the oldest entries for DoRecycle.
QuarantinePut(t, e) ==
  LET cache == Append(qcache[t], e)
      drain == Weight(cache) > ThreadLocalQuarantineSize
      glob  == IF drain THEN qglobal \o cache ELSE qglobal
      take  == IF drain /\ Weight(glob) > QuarantineSize
                 THEN RecycleCount(glob) ELSE 0
  IN  /\ qcache'    = [qcache EXCEPT ![t] = IF drain THEN <<>> ELSE cache]
      /\ qglobal'   = SubSeq(glob, take + 1, Len(glob))
      /\ recycling' = [recycling EXCEPT ![t] = SubSeq(glob, 1, take)]
      /\ pc'        = [pc EXCEPT ![t] = IF take > 0 THEN Recycling ELSE Idle]

\* Mutant: the Quarantined header is stored blindly instead of being
\* compare-exchanged against the loaded copy.
CommitDeallocBlindStore(t) ==
  LET c   == local[t].chunk
      old == local[t].hdr
      e   == [chunk |-> c, size |-> local[t].size]
  IN
  /\ ~dead /\ pc[t] = Commit
  /\ IF BypassQuarantine(local[t].size)
       THEN /\ header'  = [header EXCEPT ![c] = ErasedHeader]
            /\ backend' = [backend EXCEPT ![c] = @ + 1]
            /\ pc'      = [pc EXCEPT ![t] = Idle]
            /\ UNCHANGED <<qcache, qglobal, recycling, dead>>
       ELSE /\ header' = [header EXCEPT ![c] = [old EXCEPT !.state = Quarantined]]
            /\ QuarantinePut(t, e)
            /\ UNCHANGED <<backend, dead>>
  /\ local' = [local EXCEPT ![t] = NoLocal]
  /\ stale' = stale \ {t}
  /\ UNCHANGED tampered

\* ScudoAllocator::quarantineOrDeallocateChunk with the header loaded by
\* the caller.
CommitDealloc(t) ==
  LET c   == local[t].chunk
      old == local[t].hdr
      e   == [chunk |-> c, size |-> local[t].size]
  IN
  /\ ~dead /\ pc[t] = Commit
  /\ IF BypassQuarantine(local[t].size)
       THEN /\ header'  = [header EXCEPT ![c] = ErasedHeader]
            /\ backend' = [backend EXCEPT ![c] = @ + 1]
            /\ pc'      = [pc EXCEPT ![t] = Idle]
            /\ UNCHANGED <<qcache, qglobal, recycling, dead>>
       ELSE IF CompareExchangeHeaderOk(c, old)
              THEN /\ StoreHeader(c, [old EXCEPT !.state = Quarantined])
                   /\ QuarantinePut(t, e)
                   /\ UNCHANGED <<backend, dead>>
              ELSE /\ dead' = TRUE
                   /\ UNCHANGED <<header, backend, qcache, qglobal, recycling, pc>>
  /\ local' = [local EXCEPT ![t] = NoLocal]
  /\ stale' = stale \ {t}
  /\ UNCHANGED tampered

\* Mutant: Recycle checks the state but trusts the header without
\* verifying its checksum.
RecycleChunkNoChecksum(t) ==
  LET c == Head(recycling[t]).chunk IN
  /\ ~dead /\ pc[t] = Recycling
  /\ IF header[c].state # Quarantined
       THEN Die
       ELSE /\ header'    = [header EXCEPT ![c] = ErasedHeader]
            /\ backend'   = [backend EXCEPT ![c] = @ + 1]
            /\ recycling' = [recycling EXCEPT ![t] = Tail(@)]
            /\ pc'        = [pc EXCEPT ![t] = IF Tail(recycling[t]) = <<>>
                                                THEN Idle ELSE Recycling]
            /\ UNCHANGED <<qcache, qglobal, local, dead, tampered, stale>>

\* QuarantineCallback::Recycle of the oldest dequeued entry.
RecycleChunk(t) ==
  LET c == Head(recycling[t]).chunk IN
  /\ ~dead /\ pc[t] = Recycling
  /\ IF ~LoadOk(c) \/ header[c].state # Quarantined
       THEN Die
       ELSE /\ header'    = [header EXCEPT ![c] = ErasedHeader]
            /\ backend'   = [backend EXCEPT ![c] = @ + 1]
            /\ recycling' = [recycling EXCEPT ![t] = Tail(@)]
            /\ pc'        = [pc EXCEPT ![t] = IF Tail(recycling[t]) = <<>>
                                                THEN Idle ELSE Recycling]
            /\ UNCHANGED <<qcache, qglobal, local, dead, tampered, stale>>

\* ScudoAllocator::reallocate up to its first header update.
Reallocate(t, c, newSize) ==
  LET h      == header[c]
      usable == GetUsableSize(c)
  IN
  /\ ~dead /\ pc[t] = Idle
  /\ IF \/ ~h.valid
        \/ h.state # Allocated
        \/ DeallocationTypeMismatch /\ h.type # FromMalloc
       THEN Die
       ELSE /\ pc' = [pc EXCEPT ![t] =
                        IF newSize <= usable /\ usable - newSize < MaxClassSize \div 2
                          THEN InPlace ELSE Move]
            /\ local' = [local EXCEPT ![t] = [chunk |-> c, hdr |-> h,
                                       size |-> h.size, newSize |-> newSize]]
            /\ UNCHANGED <<header, backend, qcache, qglobal, recycling, dead,
                           tampered, stale>>

\* scudoRealloc(Ptr, Size) on a chunk: a zero size is a deallocation as
\* FromMalloc (with no size check); any other size goes to reallocate.
\* (A null Ptr is malloc as FromMalloc, a ScudoMalloc.)
ScudoRealloc(t, c, size) ==
  IF size = 0 THEN Deallocate(t, c, FromMalloc, 0) ELSE Reallocate(t, c, size)

\* reallocate: the new size fits, rewrite the size in place.
ReallocInPlace(t) ==
  LET c   == local[t].chunk
      old == local[t].hdr
  IN
  /\ ~dead /\ pc[t] = InPlace
  /\ IF CompareExchangeHeaderOk(c, old)
       THEN /\ StoreHeader(c, [old EXCEPT !.size = local[t].newSize])
            /\ pc'    = [pc EXCEPT ![t] = Idle]
            /\ local' = [local EXCEPT ![t] = NoLocal]
            /\ stale' = stale \ {t}
            /\ UNCHANGED <<backend, qcache, qglobal, recycling, tampered, dead>>
       ELSE Die

\* reallocate: allocate a new chunk, then quarantine the old one (the copy
\* of the contents is not modelled).  On failure the old chunk is kept.
ReallocMove(t) ==
  LET size == local[t].newSize IN
  /\ ~dead /\ pc[t] = Move
  /\ CanAllocate(size)
  /\ IF \E n \in Chunks : ChunkClass[n] = ClassID(size) /\ backend[n] > 0
       THEN \E n \in Chunks :
              /\ ChunkClass[n] = ClassID(size) /\ backend[n] > 0
              /\ IssueChunk(n, size, FromMalloc)
              /\ pc' = [pc EXCEPT ![t] = Commit]
              /\ UNCHANGED local
       ELSE /\ pc'    = [pc EXCEPT ![t] = Idle]
            /\ local' = [local EXCEPT ![t] = NoLocal]
            /\ stale' = stale \ {t}
            /\ UNCHANGED <<header, backend>>
  /\ UNCHANGED <<qcache, qglobal, recycling, dead, tampered>>

\* ScudoAllocator::commitBack at thread teardown: Quarantine::Drain.
CommitBack(t) ==
  LET glob == qglobal \o qcache[t]
      take == IF Weight(glob) > QuarantineSize THEN RecycleCount(glob) ELSE 0
  IN
  /\ ~dead /\ pc[t] = Idle
  /\ qcache[t] # <<>>
  /\ qcache'    = [qcache EXCEPT ![t] = <<>>]
  /\ qglobal'   = SubSeq(glob, take + 1, Len(glob))
  /\ recycling' = [recycling EXCEPT ![t] = SubSeq(glob, 1, take)]
  /\ pc'        = [pc EXCEPT ![t] = IF take > 0 THEN Recycling ELSE Idle]
  /\ UNCHANGED <<header, backend, local, dead, tampered, stale>>

\* The program writes over the header of a live or quarantined chunk
\* (a heap overflow from the chunk in front of it).
Tamper(c) ==
  /\ ~dead /\ Tampering
  /\ header[c].state \in {Allocated, Quarantined}
  /\ header[c].valid
  /\ header'   = [header EXCEPT ![c].valid = FALSE]
  /\ tampered' = tampered \cup {c}
  /\ UNCHANGED <<backend, qcache, qglobal, recycling, pc, local, dead, stale>>

Next ==
  \/ \E t \in Threads, s \in Sizes, ty \in AllocTypes \ {FromMemalign} :
       ScudoMalloc(t, s, ty)
  \/ \E t \in Threads, s \in Sizes : ScudoMemalign(t, s)
  \/ \E t \in Threads, c \in Chunks, ty \in AllocTypes, d \in {0} \cup Sizes :
       ScudoFree(t, c, ty, d)
  \/ \E t \in Threads : CommitDealloc(t)
  \/ \E t \in Threads : RecycleChunk(t)
  \/ \E t \in Threads, c \in Chunks, s \in {0} \cup Sizes : ScudoRealloc(t, c, s)
  \/ \E t \in Threads : ReallocInPlace(t)
  \/ \E t \in Threads : ReallocMove(t)
  \/ \E t \in Threads : CommitBack(t)
  \/ \E c \in Chunks : Tamper(c)

Spec == Init /\ [][Next]_vars

-----------------------------------------------------------------------------
TypeOK ==
  /\ header \in [Chunks -> Headers]
  /\ backend \in [Chunks -> Nat]
  /\ qcache \in [Threads -> Seq(Entry)]
  /\ qglobal \in Seq(Entry)
  /\ recycling \in [Threads -> Seq(Entry)]
  /\ pc \in [Threads -> {Idle, Commit, InPlace, Move, Recycling}]
  /\ dead \in BOOLEAN
  /\ tampered \subseteq Chunks
  /\ stale \subseteq Threads

\* How many times chunk c appears in all quarantine queues together.
Occurrences(q, c) == Cardinality({i \in 1..Len(q) : q[i].chunk = c})

QuarantineCount(c) ==
  Occurrences(qglobal, c)
    + MapThenSumSet(LAMBDA t : Occurrences(qcache[t], c)
                                 + Occurrences(recycling[t], c), Threads)

\* Every chunk is in exactly one place, and its header says which: free in
\* the backend (erased header), handed out to the program (Allocated), or
\* held once by the quarantine (Quarantined).  A racing double free, or a
\* recycle of something that is not quarantined, breaks this.
ChunkPlacement ==
  \A c \in Chunks :
    \/ backend[c] = 1 /\ QuarantineCount(c) = 0 /\ header[c].state = Available
    \/ backend[c] = 0 /\ QuarantineCount(c) = 0 /\ header[c].state = Allocated
    \/ backend[c] = 0 /\ QuarantineCount(c) = 1 /\ header[c].state = Quarantined

\* A chunk whose header the program overwrote while it was allocated or
\* quarantined never goes back to the backend: deallocate, the quarantine
\* compare-exchange and QuarantineCallback::Recycle all detect it first.
TamperedNeverReleased ==
  \A c \in tampered : backend[c] = 0

\* A deallocation or in-place reallocation whose loaded header copy belongs
\* to an allocation that has since been freed and reissued never completes
\* its header update: the compare-exchange detects the race and dies.
StaleUpdateNeverCommits ==
  [][\A t \in stale : pc[t] \in {Commit, InPlace} => pc'[t] = pc[t]]_vars

=============================================================================
