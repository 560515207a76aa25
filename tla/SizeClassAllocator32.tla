------------------------ MODULE SizeClassAllocator32 ------------------------
(***************************************************************************)
(* The primary allocator of the sanitizers                                 *)
(* (src/lib/sanitizer_common/sanitizer_allocator_primary32.h): per size    *)
(* class a spin mutex and a free list of TransferBatches; regions mapped   *)
(* on demand and sliced into batches by PopulateFreeList under the class  *)
(* mutex; ForceLock/ForceUnlock taking every class mutex.                  *)
(*                                                                         *)
(* The thread-local cache (SizeClassAllocator32LocalCache, not in this     *)
(* tree) is modelled from the spec as the set of chunks a thread holds.    *)
(* Its CreateBatch stores the batch of class k in the chunk it describes   *)
(* when BatchClassOf[k] = 0, and otherwise in a chunk of class             *)
(* BatchClassOf[k] taken from the thread's cache, refilled by a nested     *)
(* AllocateBatch of that class.  A chunk is <<region, index>>.             *)
(* RandomShuffle is left out: it permutes the chunks of a slice, and the   *)
(* properties are about sets of chunks.                                    *)
(***************************************************************************)
EXTENDS Integers, Sequences, FiniteSets, Relation

LOCAL FS == INSTANCE FiniteSetsExt

CONSTANTS
  Threads,          \* threads calling into the allocator
  NumClasses,       \* kNumClasses; class 0 is "unused"
  AllocClasses,     \* the classes the program allocates from
  BatchClassOf,     \* the local cache's per_class_[k].batch_class_id
  ChunksPerRegion,  \* n_chunks = kRegionSize / (size + kMetadataSize)
  MaxCount,         \* TransferBatch::MaxCached(ClassIdToSize(k))
  Regions,          \* the regions mmap can hand out
  NoThread, NoRegion, NoObj,
  \* The address layout, for the arithmetic of the layout section.
  RegionSizeLog,       \* kRegionSizeLog
  NumPossibleRegions,  \* kNumPossibleRegions = kSpaceSize / kRegionSize
  MetadataSize,        \* kMetadataSize
  ClassSize,           \* SizeClassMap::Size of each class
  BatchClassID,        \* SizeClassMap::kBatchClassID
  BatchSize            \* kBatchSize = sizeof(TransferBatch)

ClassIds == 0..NumClasses-1
UsedClasses == ClassIds \ {0}

ASSUME AllocClasses \subseteq UsedClasses /\ BatchClassOf \in [ClassIds -> ClassIds]
ASSUME \A k \in UsedClasses : BatchClassOf[BatchClassOf[k]] = 0
ASSUME ChunksPerRegion \in [ClassIds -> Nat \ {0}]
ASSUME MaxCount \in [ClassIds -> Nat \ {0}]

MaxChunks == CHOOSE n \in {ChunksPerRegion[k] : k \in ClassIds} :
               \A k \in ClassIds : ChunksPerRegion[k] <= n
Chunk == Regions \X (0..MaxChunks-1)
Batch == [chunks : SUBSET Chunk, obj : Chunk \cup {NoObj}]
NoBatch == [chunks |-> {}, obj |-> NoObj]

VARIABLES
  possible,   \* possible_regions: the class of each region, 0 if unmapped
  freeList,   \* sci->free_list of each class
  mutex,      \* sci->mutex of each class: its holder
  pc,         \* where each thread is
  cls,        \* the class_id of the thread's PopulateFreeList
  region,     \* the region it slices
  next,       \* its next chunk; the class index of ForceLock/ForceUnlock
  batch,      \* its current_batch b
  held,       \* the chunks the thread's local cache holds
  dead,       \* Die() was called
  lost        \* history: the chunks a failed PopulateFreeList left behind

vars == <<possible, freeList, mutex, pc, cls, region, next, batch, held, dead,
          lost>>

ChunkClass(x) == possible[x[1]]
\* The memory a batch occupies: the chunks it lists and the one it is in.
BatchChunks(b) == b.chunks \cup ({b.obj} \ {NoObj})
ListChunks(s) == UNION {BatchChunks(s[i]) : i \in DOMAIN s}
\* The chunks of the thread's cache that can store a batch of class k.
Stock(t, k) == {y \in held[t] : ChunkClass(y) = BatchClassOf[k]}

\* The chunks of the region a thread populates that it has not sliced yet.
Unsliced(t) ==
  IF pc[t] = "Populate"
    THEN {<<region[t], i>> : i \in next[t]..ChunksPerRegion[cls[t]]-1}
    ELSE {}

Init ==
  /\ possible = [r \in Regions |-> 0]
  /\ freeList = [k \in ClassIds |-> <<>>]
  /\ mutex = [k \in ClassIds |-> NoThread]
  /\ pc = [t \in Threads |-> "Idle"]
  /\ cls = [t \in Threads |-> 0]
  /\ region = [t \in Threads |-> NoRegion]
  /\ next = [t \in Threads |-> 0]
  /\ batch = [t \in Threads |-> NoBatch]
  /\ held = [t \in Threads |-> {}]
  /\ dead = FALSE
  /\ lost = {}

\* AllocateRegion can only succeed while mmap has a region to give.
FreeRegions == {r \in Regions : possible[r] = 0}

\* The batches PopulateFreeList makes of region r of a class whose batches
\* live in their own first chunk: runs of MaxCount[k] chunks, in order.
InChunkBatches(r, k) ==
  LET n == ChunksPerRegion[k]
      m == MaxCount[k]
      Run(j) == {<<r, i>> : i \in ((j-1)*m)..(IF j*m < n THEN j*m ELSE n) - 1}
  IN [j \in 1..((n + m - 1) \div m) |->
        [chunks |-> Run(j), obj |-> <<r, (j-1)*m>>]]

\* AllocateBatch(c) on a class c whose batches live in their own chunk,
\* made while c's mutex is free: the outcomes, as the new free list of c,
\* the region mapped (or NoRegion) and the chunks handed to the cache.
\* PopulateFreeList of such a class cannot fail once its region is mapped,
\* so the whole call is one step.
BatchAllocOutcomes(c) ==
  IF freeList[c] # <<>>
    THEN {[ok |-> TRUE, list |-> Tail(freeList[c]), reg |-> NoRegion,
           got |-> BatchChunks(Head(freeList[c]))]}
  ELSE IF FreeRegions = {}
    THEN {[ok |-> FALSE, list |-> freeList[c], reg |-> NoRegion, got |-> {}]}
  ELSE {[ok |-> TRUE, list |-> Tail(InChunkBatches(r, c)), reg |-> r,
         got |-> BatchChunks(Head(InChunkBatches(r, c)))] : r \in FreeRegions}

MapRegion(r, k) ==
  IF r = NoRegion THEN possible ELSE [possible EXCEPT ![r] = k]

-----------------------------------------------------------------------------
(* AllocateBatch(class_id), called by a thread's cache when it is empty.   *)
(* With the list non-empty the mutex is held only to pop the front batch;  *)
(* the cache's Refill then takes its chunks and DestroyBatch hands the     *)
(* batch's own chunk back to the cache.  With the list empty the thread    *)
(* keeps the mutex and populates a fresh region, or returns nullptr when   *)
(* AllocateRegion fails.                                                   *)
AllocateBatch(t, k) ==
  /\ ~dead
  /\ pc[t] = "Idle"
  /\ mutex[k] = NoThread
  /\ \/ /\ freeList[k] # <<>>
        /\ freeList' = [freeList EXCEPT ![k] = Tail(@)]
        /\ held' = [held EXCEPT ![t] = @ \cup BatchChunks(Head(freeList[k]))]
        /\ UNCHANGED <<possible, mutex, pc, cls, region, next, batch>>
     \/ /\ freeList[k] = <<>>
        /\ FreeRegions = {}
        /\ UNCHANGED <<possible, freeList, mutex, pc, cls, region, next,
                       batch, held>>
     \/ /\ freeList[k] = <<>>
        /\ \E r \in FreeRegions :
             /\ possible' = [possible EXCEPT ![r] = k]
             /\ region' = [region EXCEPT ![t] = r]
        /\ mutex' = [mutex EXCEPT ![k] = t]
        /\ pc' = [pc EXCEPT ![t] = "Populate"]
        /\ cls' = [cls EXCEPT ![t] = k]
        /\ next' = [next EXCEPT ![t] = 0]
        /\ UNCHANGED <<freeList, batch, held>>
  /\ UNCHANGED <<dead, lost>>

\* Mutant of AddChunk: a full batch is dropped instead of pushed.
AddChunkNoPush(t, k, b, x, fl) ==
  LET b2 == [b EXCEPT !.chunks = @ \cup {x}] IN
  /\ IF Cardinality(b2.chunks) = MaxCount[k]
       THEN /\ freeList' = fl
            /\ batch' = [batch EXCEPT ![t] = NoBatch]
       ELSE /\ freeList' = fl
            /\ batch' = [batch EXCEPT ![t] = b2]
  /\ next' = [next EXCEPT ![t] = @ + 1]

\* b->Add(x) on the thread's batch b, pushing b to the back of the free
\* list fl of class k once it holds max_count chunks.
AddChunk(t, k, b, x, fl) ==
  LET b2 == [b EXCEPT !.chunks = @ \cup {x}] IN
  /\ IF Cardinality(b2.chunks) = MaxCount[k]
       THEN /\ freeList' = [fl EXCEPT ![k] = Append(@, b2)]
            /\ batch' = [batch EXCEPT ![t] = NoBatch]
       ELSE /\ freeList' = fl
            /\ batch' = [batch EXCEPT ![t] = b2]
  /\ next' = [next EXCEPT ![t] = @ + 1]

\* The loop body of PopulateBatches for the next chunk x of the region:
\* CreateBatch when b is null (in x itself, in a chunk of the cache, or in
\* one the cache gets from a nested AllocateBatch of the batch class, which
\* takes that class's mutex under this one), then Add.  A failed
\* CreateBatch makes PopulateBatches, PopulateFreeList and AllocateBatch
\* return false/nullptr, releasing the mutex.  CreateBatch is only called
\* with b null, so what is left behind is the region's unsliced chunks: the
\* region stays in possible_regions and no free list will ever hold them.
PopulateStep(t) ==
  LET k == cls[t]
      c == BatchClassOf[k]
      x == <<region[t], next[t]>>
      Abandon == /\ mutex' = [mutex EXCEPT ![k] = NoThread]
                 /\ pc' = [pc EXCEPT ![t] = "Idle"]
                 /\ region' = [region EXCEPT ![t] = NoRegion]
                 /\ next' = [next EXCEPT ![t] = 0]
                 /\ batch' = [batch EXCEPT ![t] = NoBatch]
                 /\ lost' = lost \cup Unsliced(t)
                 /\ UNCHANGED <<possible, freeList, held, cls>>
      Stay == UNCHANGED <<mutex, pc, cls, region, lost>>
  IN
  /\ ~dead
  /\ pc[t] = "Populate"
  /\ next[t] < ChunksPerRegion[k]
  /\ \/ /\ batch[t].obj # NoObj
        /\ AddChunk(t, k, batch[t], x, freeList)
        /\ UNCHANGED <<possible, held>> /\ Stay
     \/ /\ batch[t].obj = NoObj
        /\ c = 0
        /\ AddChunk(t, k, [chunks |-> {}, obj |-> x], x, freeList)
        /\ UNCHANGED <<possible, held>> /\ Stay
     \/ /\ batch[t].obj = NoObj
        /\ c # 0
        /\ \E y \in Stock(t, k) :
             /\ held' = [held EXCEPT ![t] = @ \ {y}]
             /\ AddChunk(t, k, [chunks |-> {}, obj |-> y], x, freeList)
        /\ UNCHANGED possible /\ Stay
     \/ /\ batch[t].obj = NoObj
        /\ c # 0
        /\ Stock(t, k) = {}
        /\ mutex[c] = NoThread
        /\ \E o \in BatchAllocOutcomes(c) :
             IF o.ok
               THEN \E y \in o.got :
                      /\ possible' = MapRegion(o.reg, c)
                      /\ held' = [held EXCEPT ![t] = (@ \cup o.got) \ {y}]
                      /\ AddChunk(t, k, [chunks |-> {}, obj |-> y], x,
                                  [freeList EXCEPT ![c] = o.list])
                      /\ Stay
               ELSE Abandon
  /\ UNCHANGED dead

\* Mutant of PopulateDone: the front batch is handed to the cache and left
\* on the free list (pop_front forgotten).
PopulateDoneNoPop(t) ==
  LET k == cls[t]
      fl == IF batch[t].obj # NoObj THEN Append(freeList[k], batch[t])
                                    ELSE freeList[k]
  IN
  /\ ~dead
  /\ pc[t] = "Populate"
  /\ next[t] = ChunksPerRegion[k]
  /\ freeList' = [freeList EXCEPT ![k] = fl]
  /\ held' = [held EXCEPT ![t] = @ \cup BatchChunks(Head(fl))]
  /\ mutex' = [mutex EXCEPT ![k] = NoThread]
  /\ pc' = [pc EXCEPT ![t] = "Idle"]
  /\ region' = [region EXCEPT ![t] = NoRegion]
  /\ next' = [next EXCEPT ![t] = 0]
  /\ batch' = [batch EXCEPT ![t] = NoBatch]
  /\ UNCHANGED <<possible, cls, dead, lost>>

\* The end of PopulateFreeList (push the partial batch b if any) and of
\* AllocateBatch (pop the front batch, release the mutex), with the cache's
\* Refill taking the batch.
PopulateDone(t) ==
  LET k == cls[t]
      fl == IF batch[t].obj # NoObj THEN Append(freeList[k], batch[t])
                                    ELSE freeList[k]
  IN
  /\ ~dead
  /\ pc[t] = "Populate"
  /\ next[t] = ChunksPerRegion[k]
  /\ freeList' = [freeList EXCEPT ![k] = Tail(fl)]
  /\ held' = [held EXCEPT ![t] = @ \cup BatchChunks(Head(fl))]
  /\ mutex' = [mutex EXCEPT ![k] = NoThread]
  /\ pc' = [pc EXCEPT ![t] = "Idle"]
  /\ region' = [region EXCEPT ![t] = NoRegion]
  /\ next' = [next EXCEPT ![t] = 0]
  /\ batch' = [batch EXCEPT ![t] = NoBatch]
  /\ UNCHANGED <<possible, cls, dead, lost>>

\* The cache's Drain of the chunks S of class k: CreateBatch (in the first
\* chunk of S, or in a batch-class chunk of the cache, refilled by a nested
\* AllocateBatch whose failure ends in Die), then DeallocateBatch, which
\* pushes the batch to the front of the free list under the mutex.
Deallocate(t, k, S) ==
  LET c == BatchClassOf[k]
      Push(b, fl) == /\ mutex[k] = NoThread
                     /\ freeList' = [fl EXCEPT ![k] = <<b>> \o @]
  IN
  /\ ~dead
  /\ pc[t] = "Idle"
  /\ \/ /\ c = 0
        /\ \E x \in S : Push([chunks |-> S, obj |-> x], freeList)
        /\ held' = [held EXCEPT ![t] = @ \ S]
        /\ UNCHANGED <<possible, dead>>
     \/ /\ c # 0
        /\ \E y \in Stock(t, k) :
             /\ Push([chunks |-> S, obj |-> y], freeList)
             /\ held' = [held EXCEPT ![t] = @ \ (S \cup {y})]
        /\ UNCHANGED <<possible, dead>>
     \/ /\ c # 0
        /\ Stock(t, k) = {}
        /\ mutex[c] = NoThread
        /\ \E o \in BatchAllocOutcomes(c) :
             IF o.ok
               THEN \E y \in o.got :
                      /\ Push([chunks |-> S, obj |-> y],
                              [freeList EXCEPT ![c] = o.list])
                      /\ possible' = MapRegion(o.reg, c)
                      /\ held' = [held EXCEPT ![t] = (@ \cup o.got) \ (S \cup {y})]
                      /\ UNCHANGED dead
               ELSE /\ dead' = TRUE
                    /\ UNCHANGED <<possible, freeList, held>>
  /\ UNCHANGED <<mutex, pc, cls, region, next, batch, lost>>

\* Mutant of ForceLock: the classes are locked in descending order.
ForceLockDescending(t) ==
  LET i == IF pc[t] = "Idle" THEN NumClasses - 1 ELSE next[t] IN
  /\ ~dead
  /\ pc[t] \in {"Idle", "ForceLock"}
  /\ mutex[i] = NoThread
  /\ mutex' = [mutex EXCEPT ![i] = t]
  /\ IF i = 0
       THEN pc' = [pc EXCEPT ![t] = "ForceUnlock"] /\ next' = [next EXCEPT ![t] = NumClasses - 1]
       ELSE pc' = [pc EXCEPT ![t] = "ForceLock"] /\ next' = [next EXCEPT ![t] = i - 1]
  /\ UNCHANGED <<possible, freeList, cls, region, batch, held, dead, lost>>

\* Mutant of ForceUnlock: an unsigned loop index, so the loop runs on
\* past class 0.
ForceUnlockUnsigned(t) ==
  LET i == next[t] IN
  /\ ~dead
  /\ pc[t] = "ForceUnlock"
  /\ i >= 0
  /\ mutex' = [mutex EXCEPT ![i] = NoThread]
  /\ next' = [next EXCEPT ![t] = i - 1]
  /\ UNCHANGED <<possible, freeList, pc, cls, region, batch, held, dead, lost>>

\* One iteration of ForceLock's ascending loop: lock class next[t].
ForceLock(t) ==
  LET i == IF pc[t] = "Idle" THEN 0 ELSE next[t] IN
  /\ ~dead
  /\ pc[t] \in {"Idle", "ForceLock"}
  /\ mutex[i] = NoThread
  /\ mutex' = [mutex EXCEPT ![i] = t]
  /\ IF i = NumClasses - 1
       THEN pc' = [pc EXCEPT ![t] = "ForceUnlock"] /\ next' = [next EXCEPT ![t] = i]
       ELSE pc' = [pc EXCEPT ![t] = "ForceLock"] /\ next' = [next EXCEPT ![t] = i + 1]
  /\ UNCHANGED <<possible, freeList, cls, region, batch, held, dead, lost>>

\* One iteration of ForceUnlock's descending loop: unlock class next[t].
ForceUnlock(t) ==
  LET i == next[t] IN
  /\ ~dead
  /\ pc[t] = "ForceUnlock"
  /\ mutex' = [mutex EXCEPT ![i] = NoThread]
  /\ IF i = 0
       THEN pc' = [pc EXCEPT ![t] = "Idle"] /\ next' = [next EXCEPT ![t] = 0]
       ELSE UNCHANGED pc /\ next' = [next EXCEPT ![t] = i - 1]
  /\ UNCHANGED <<possible, freeList, cls, region, batch, held, dead, lost>>

\* The chunks of class k a thread's cache can drain in one batch.
Drainable(t, k) ==
  {S \in SUBSET {x \in held[t] : ChunkClass(x) = k} :
     S # {} /\ Cardinality(S) <= MaxCount[k]}

Next ==
  \E t \in Threads :
    \/ \E k \in AllocClasses : AllocateBatch(t, k)
    \/ PopulateStep(t)
    \/ PopulateDone(t)
    \/ \E k \in UsedClasses : \E S \in Drainable(t, k) : Deallocate(t, k, S)
    \/ ForceLock(t)
    \/ ForceUnlock(t)

Spec == Init /\ [][Next]_vars

-----------------------------------------------------------------------------
(* The address arithmetic of regions, chunks and metadata.  Addresses are  *)
(* integers of a space starting at kSpaceBeg = 0 (sign-extended addresses   *)
(* are not masked); pr is a possible_regions map from region ids to       *)
(* classes.  A region holds n_chunks chunks from its start and, from its   *)
(* end downwards, one kMetadataSize slot per chunk.                        *)

RegionSize == 2^RegionSizeLog
SpaceSize == NumPossibleRegions * RegionSize
RegionIds == 0..NumPossibleRegions-1

\* possible_regions as the byte map indexed by region id: the model's
\* regions are the ids of the space in a fixed order.
RegionAt == CHOOSE f \in [RegionIds -> Regions] : \A r \in Regions : \E i \in RegionIds : f[i] = r
PossibleRegions == [i \in RegionIds |-> possible[RegionAt[i]]]

ClassIdToSize(k) == IF k = BatchClassID THEN BatchSize ELSE ClassSize[k]

\* n_chunks of PopulateFreeList (and max_chunks_in_region of ForEachChunk).
NChunks(k) == RegionSize \div (ClassIdToSize(k) + MetadataSize)

ComputeRegionId(mem) == mem \div RegionSize
ComputeRegionBeg(mem) == (mem \div RegionSize) * RegionSize
GetSizeClass(pr, p) == pr[ComputeRegionId(p)]

PointerIsMine(pr, p) ==
  /\ p >= 0 /\ p < SpaceSize
  /\ GetSizeClass(pr, p) # 0

GetBlockBegin(pr, p) ==
  LET beg == ComputeRegionBeg(p)
      size == ClassIdToSize(GetSizeClass(pr, p))
  IN beg + ((p - beg) \div size) * size

\* GetActuallyAllocatedSize: the size of the class of p's region (the
\* CHECK(PointerIsMine(p)) is a precondition of every use below).
GetActuallyAllocatedSize(pr, p) == ClassIdToSize(GetSizeClass(pr, p))

\* Mutant of GetMetaData: slot n is taken as n instead of n + 1 from the
\* end of the region.
GetMetaDataOffByOne(pr, p) ==
  LET beg == ComputeRegionBeg(p)
      size == ClassIdToSize(GetSizeClass(pr, p))
  IN (beg + RegionSize) - ((p - beg) \div size) * MetadataSize

GetMetaData(pr, p) ==
  LET beg == ComputeRegionBeg(p)
      size == ClassIdToSize(GetSizeClass(pr, p))
  IN (beg + RegionSize) - ((p - beg) \div size + 1) * MetadataSize

\* The chunk addresses PopulateFreeList's loop hands out for region beg.
PopulateChunks(k, beg) ==
  {i \in beg..(beg + NChunks(k) * ClassIdToSize(k) - 1) :
     (i - beg) % ClassIdToSize(k) = 0}

\* The chunk addresses ForEachChunk visits in region r.
ForEachChunk(pr, r) ==
  LET size == ClassIdToSize(pr[r])
      max == RegionSize \div (size + MetadataSize)
  IN {r * RegionSize + j * size : j \in 0..max-1}

-----------------------------------------------------------------------------
(* Properties.                                                             *)

TypeOK ==
  /\ possible \in [Regions -> ClassIds]
  /\ freeList \in [ClassIds -> Seq(Batch)]
  /\ mutex \in [ClassIds -> Threads \cup {NoThread}]
  /\ pc \in [Threads -> {"Idle", "Populate", "ForceLock", "ForceUnlock"}]
  /\ cls \in [Threads -> ClassIds]
  /\ region \in [Threads -> Regions \cup {NoRegion}]
  /\ next \in [Threads -> 0..MaxChunks]
  /\ batch \in [Threads -> Batch]
  /\ held \in [Threads -> SUBSET Chunk]
  /\ dead \in BOOLEAN
  /\ lost \subseteq Chunk

\* Every place a chunk of a mapped region can be in.
PlaceIds ==
  UNION {{<<"list", k, i>> : i \in DOMAIN freeList[k]} : k \in ClassIds}
    \cup {<<"held", t>> : t \in Threads}
    \cup {<<"batch", t>> : t \in Threads}
    \cup {<<"unsliced", t>> : t \in Threads}
Place(p) ==
  CASE p[1] = "list" -> BatchChunks(freeList[p[2]][p[3]])
    [] p[1] = "held" -> held[p[2]]
    [] p[1] = "batch" -> BatchChunks(batch[p[2]])
    [] p[1] = "unsliced" -> Unsliced(p[2])

\* The number of chunks in all places, counted once per place.
PlacedCount == FS!MapThenSumSet(LAMBDA p : Cardinality(Place(p)), PlaceIds)

\* A chunk of a mapped region whose index is within the region's n_chunks.
Sliceable(x) ==
  ChunkClass(x) # 0 /\ x[2] < ChunksPerRegion[ChunkClass(x)]

\* Chunk ownership across AllocateBatch, PopulateFreeList (with its nested
\* batch-class allocation), the caches' Drain and DeallocateBatch: no chunk
\* is in two places (two batches, a batch and a cache, two caches), every
\* chunk on the free list of class k is a chunk of a region possible_regions
\* maps to k, and every batch lives either in one of its own chunks or in a
\* chunk of its batch class.  A violation is a chunk handed out twice.
ChunkOwnership ==
  /\ PlacedCount = Cardinality(UNION {Place(p) : p \in PlaceIds})
  /\ \A p \in PlaceIds : \A x \in Place(p) : Sliceable(x)
  /\ \A k \in ClassIds : \A i \in DOMAIN freeList[k] :
       LET b == freeList[k][i] IN
       /\ \A x \in b.chunks : ChunkClass(x) = k
       /\ IF BatchClassOf[k] = 0 THEN b.obj \in b.chunks
                                 ELSE ChunkClass(b.obj) = BatchClassOf[k]

\* Chunk conservation across PopulateBatches' push_back of full batches,
\* PopulateFreeList's push of the partial batch, the nested batch-class
\* allocations and the caches' Drain: every chunk of a mapped region is
\* in exactly one place (a free list, a cache, a batch being filled, or
\* the unsliced rest of a region being populated) unless a failed
\* CreateBatch abandoned it, and an abandoned chunk never comes back.  A
\* violation is a chunk dropped on a path other than that failure.
ChunksAccounted ==
  LET placed == UNION {Place(p) : p \in PlaceIds} IN
  \A x \in Chunk : Sliceable(x) => ((x \in lost) # (x \in placed))

\* The class mutex a thread spins on: ForceLock's next class, or the batch
\* class PopulateFreeList's CreateBatch must allocate from.
Wants(t) ==
  IF pc[t] = "ForceLock" THEN {next[t]}
  ELSE IF /\ pc[t] = "Populate"
          /\ next[t] < ChunksPerRegion[cls[t]]
          /\ batch[t].obj = NoObj
          /\ BatchClassOf[cls[t]] # 0
          /\ Stock(t, cls[t]) = {}
    THEN {BatchClassOf[cls[t]]}
  ELSE {}
WaitsFor == [p \in Threads \X Threads |->
               \E k \in Wants(p[1]) : mutex[k] = p[2]]

\* Lock order: ForceLock takes the class mutexes in ascending order while a
\* populating thread takes its batch class's mutex under its own class's;
\* no thread ever spins on a mutex whose holder (directly or through a
\* chain of holders) spins on one it holds.
NoWaitCycle ==
  LET tc == TransitiveClosure(WaitsFor, Threads) IN
  \A t \in Threads : ~tc[t, t]


\* The layout facts LayoutOK checks, for one possible_regions map pr.
LayoutFacts(pr) ==
  \A r \in RegionIds :
    LET k == pr[r]
        beg == r * RegionSize
        size == ClassIdToSize(k)
        chunks == ForEachChunk(pr, r)
        Inside(p) == \E c \in chunks : c <= p /\ p < c + size
    IN
    k # 0 =>
      /\ chunks = PopulateChunks(k, beg)
      /\ \A p \in beg..(beg + RegionSize - 1) :
           Inside(p) =>
             /\ PointerIsMine(pr, p)
             /\ GetBlockBegin(pr, p) \in chunks
             /\ GetBlockBegin(pr, p) <= p
             /\ p < GetBlockBegin(pr, p) + GetActuallyAllocatedSize(pr, p)
             /\ GetMetaData(pr, p) >= beg + NChunks(k) * size
             /\ GetMetaData(pr, p) + MetadataSize <= beg + RegionSize
             /\ \A q \in beg..(beg + RegionSize - 1) :
                  Inside(q) /\ GetBlockBegin(pr, q) # GetBlockBegin(pr, p) =>
                    \/ GetMetaData(pr, q) + MetadataSize <= GetMetaData(pr, p)
                    \/ GetMetaData(pr, p) + MetadataSize <= GetMetaData(pr, q)

\* The verdict of LayoutFacts for every possible_regions map, as a set
\* (TLC builds it once).
LayoutVerdicts == {<<pr, LayoutFacts(pr)>> : pr \in [RegionIds -> ClassIds]}
(* The layout's three views of a region agree: ForEachChunk (LSan's walk   *)
(* of all chunks) visits exactly the chunks PopulateFreeList hands out;    *)
(* for every address inside one of them GetBlockBegin returns that chunk   *)
(* and GetActuallyAllocatedSize a size that reaches past the address,      *)
(* and GetMetaData returns a slot of the metadata table at the region's    *)
(* end, never memory of a chunk, and a slot no other chunk's metadata      *)
(* overlaps.  This is the offset, size and 32-bit division arithmetic of   *)
(* GetBlockBegin, GetMetaData, PopulateFreeList and ForEachChunk, in the     *)
(* current possible_regions.                                                *)
LayoutOK == <<PossibleRegions, TRUE>> \in LayoutVerdicts

=============================================================================
