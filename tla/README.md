# TLA+ models of the compiler-rt sanitizer runtimes

This directory holds TLA+ specifications of the stateful parts of this
compiler-rt tree. It also holds the TLC configurations that check them. Every
definition is translated from the source under `src/`. `PROJECT.json` maps each
definition to the lines it models, and lists the runs, the mutants that show
each property can fail, the findings and the hazards.

## The system and its parts

| Part | Source | State | Operations | Interacts with |
|---|---|---|---|---|
| Scudo frontend | `src/lib/scudo/scudo_allocator.cpp` | A checksummed, atomically packed header per chunk (state, alloc type, size, class id, offset). | `allocate`, `deallocate`, `reallocate`, `getUsableSize`, `commitBack`, `isRssLimitExceeded` | The quarantine and the backend (primary and secondary allocators). |
| Scudo quarantine | `sanitizer_quarantine.h` (not in this tree) | A per-thread cache of batches and a global FIFO under a mutex. | `Put`, `Drain`, `Recycle`. The recycle callback is `QuarantineCallback::Recycle` in scudo_allocator.cpp. | Returns chunks to the backend. |
| SizeClassAllocator32 | `src/lib/sanitizer_common/sanitizer_allocator_primary32.h` | Per size class: a spin lock and a free list of transfer batches. Also a region map. | `AllocateBatch`, `DeallocateBatch`, `PopulateFreeList`, `ForceLock`, `ForceUnlock`, ... | The backend of Scudo and LSan. |
| LSan leak check | `src/lib/lsan/lsan_common.cpp`, `lsan_common.h` | A tag per chunk, the frontier, suppressed stack ids, root regions, the leak report. | `DoLeakCheck`, `DoRecoverableLeakCheck`, `CheckForLeaks`, `ClassifyAllChunks` with its passes, `LeakReport`, `__lsan_ignore_object`, `__lsan_(un)register_root_region`. | The allocator's chunk metadata and the stack depot. |
| StackDepotBase | `src/lib/sanitizer_common/sanitizer_stackdepotbase.h` | A hash table of lock-bit buckets, with ids per part. | `Put` (lock-free find, then locked insert), `Get`. | Used by LSan for allocation stacks. |
| StackStore and PersistentAllocator | `sanitizer_stack_store.h`, `sanitizer_persistent_allocator.h` | Bump-pointer regions advanced by CAS. | `Alloc`, `tryAlloc`, `refillAndAlloc`. | Storage of the stack depot. |
| TSan MutexSet | `src/lib/tsan/rtl/tsan_mutexset.cpp` | A bounded array of held mutexes. | `Add`, `Del`, `Remove`, `AddAddr`, `DelAddr`. Evicts the oldest entry when full. | The TSan report machinery. |
| Soft-float helpers | `src/lib/fp_lib.h` | None; pure functions. | `normalize`, `wideMultiply`, `rep_clz`. | The builtins. |
| Scudo RSS limit | `scudo_allocator.cpp` (`isRssLimitExceeded`, `init`, `allocate`), `sanitizer_linux_libcdep.cpp` (`GetRSS`, `MonotonicNanoTime`) | `RssLastCheckedAtNS`, the sticky `RssLimitExceeded` flag. | One refresh per 100ms, won by CAS; hard limit dies, soft limit sets or clears the flag; `allocate` fails with `OnOOM` while it is set. | The process's RSS, read from `/proc/self/statm` or `getrusage`. |
| Others | the rest of `sanitizer_linux_libcdep.cpp`, `cpu_model.c`, `hwasan_interface_internal.h`, `asan_errors.h`, the tests | OS glue, CPUID decoding, declarations. | | Not modelled (see below). |

The behaviours that are hard to test:

- Scudo:
  - Threads race on one chunk's header. Every change except the erase on the bypass path is a CAS on the packed header, which is loaded earlier.
  - A chunk passes from allocated, to quarantined, to the backend, and can be reissued.
- LSan:
  - The tag passes run in a fixed order.
  - `ResetTagsCb` must restore the tags so that the next check starts clean.
  - The suppression rerun loop is bounded by `i >= 8`.
  - The report is capped at `kMaxLeaksConsidered` records.

## Modules

### ScudoAllocator.tla (MCScudoAllocator.tla)

Threads allocate, free and reallocate chunks of one size class. The actions are:

- `ScudoMalloc`, `ScudoMemalign`: the entry points `scudoMalloc` (malloc as `FromMalloc`, operator new as `FromNew`) and `valloc`/`pvalloc`/`memalign`/`posix_memalign` (as `FromMemalign`). Both are `Allocate`: `allocate`, storing a fresh header with `StoreHeader` (`storeHeader`). The alignment only adds to the size asked of the Primary and is abstracted.
- `ScudoFree`: `scudoFree` (delete size 0) and `scudoSizedFree`, both `Deallocate`: `deallocate`, which loads the header and runs its checks. The thread keeps the loaded copy in `local`.
- `CommitDealloc`: `quarantineOrDeallocateChunk`. On the bypass path this is the blind `eraseHeader` plus the release. Otherwise it is the CAS to `ChunkQuarantine` plus `Quarantine::Put`.
- `ScudoRealloc`, `ReallocInPlace`, `ReallocMove`: `scudoRealloc` and `reallocate`. A zero size is `deallocate` as `FromMalloc`. Any other size goes to `Reallocate`, which compares it with `GetUsableSize`. Then comes the in-place CAS, or the allocate-and-quarantine path.
- `RecycleChunk`: `QuarantineCallback::Recycle`, one chunk per step.
- `CommitBack`: `commitBack`, which drains the thread cache.
- `Tamper`: the environment corrupting a header, which breaks its checksum.

Both header CASes go through `CompareExchangeHeaderOk` (`compareExchangeHeader`), which succeeds only when the header is still the caller's loaded copy. Any header check that fails sets `dead`, because `dieWithMessage` ends the process. The load and the commit of `deallocate` and `reallocate` are separate steps. This is where threads interleave, because the header is read before the TSD lock and the CAS.

The quarantine (`qcache`, `qglobal`, `recycling`) is modelled from the spec, because `sanitizer_quarantine.h` is not in this tree. `backend` counts how often each chunk is in the backend's free pool.

Ghost variables:

- `tampered`: chunks whose header was corrupted.
- `stale`: threads whose loaded header copy predates a reissue of the chunk.

### ScudoRssLimit.tla (MCScudoRssLimit.tla)

`isRssLimitExceeded` runs as a program counter per thread, one atomic access per step:

- `Call`: `allocate` asks when `CheckRssLimit`, and the load of `RssLastCheckedAtNS`.
- `Now`: `MonotonicNanoTime` and the 100ms test; inside the window the flag is returned.
- `Cas`: the weak CAS, which fails when another thread moved the time and may fail spuriously (`CasSucceeds` is the success).
- `ReadRss`: `GetRSS() >> 20` and the hard limit's `Die`.
- `SoftLoad` and `Store`: the soft limit's load of the flag and its separate store.
- `Ret`: the final load and `allocate`'s `OnOOM`.
- `Tick` (100ms pass) and `ChangeRss` (the program's memory use changes) are the environment.

Time is abstracted the way real-time specifications abstract it: `windowOpen` says whether 100ms have passed since the stored time, and `fresh[t]` says whether thread `t`'s loaded `LastCheck` is still the stored one. This is exact for the code's comparisons. A thread whose `LastCheck` is stale always finds the window elapsed, because the CAS that replaced it needed that, and its own CAS fails. `GetRSS` is an operator with the paths of the code: the statm page count times the page size, 0 for an empty read, getrusage's peak `ru_maxrss`, and 0 when getrusage fails. Sizes are in a scaled unit (`MB`, `KB`, `PageSize` bytes).

### LsanLeakCheck.tla (MCLsanLeakCheck.tla)

One action per pass of a leak check, in the code's order:

- `IgnoreSuppressedChunks`
- `CollectIgnored`
- `ScanRoots`: globals, thread stacks, registers, TLS and root regions
- `ProcessThreadRegistry`
- `FloodFillTag`: one frontier pop per step
- `ProcessPC`
- `CheckForLeaksCallback`: `MarkIndirectlyLeakedCb`, `CollectLeaksCb`, `ResetTagsCb`
- `ReportOrRerun`: `AddLeakedChunks`, `ApplySuppressions` (through `Suppress`), and the rerun decision of `CheckForLeaks` on `IndirectUnsuppressedLeakCount`. It ends with `PrintResults`: `ReportTopLeaks` prints every unsuppressed record, `PrintLeakedObjects` lists their chunks, and for `DoLeakCheck`'s check `HandleLeaks` dies when leaks were found and `ExitCode` is set.

A check starts from `DoRecoverableLeakCheck` or from `DoLeakCheck`. `DoLeakCheck` runs only once, because of its static `already_done` (`alreadyDone`). `atExit` records which of the two started the running check. `HandleLeaks` lives in `lsan.cpp`, which is not in this tree, so it is modelled from the spec.

A check holds `global_mutex` with the world stopped, so nothing interleaves inside it. Between checks the program can:

- call `__lsan_ignore_object` (`IgnoreObject`);
- register or unregister a root region (`RegisterRootRegion`, `UnregisterRootRegion`, which dies on an unknown region);
- drop references (`DropReferences`).

Memory is abstracted to the chunks each range points into. `ScanRangeForPointers` finds exactly those chunks, excluding a chunk's pointers to itself.

`AddLeakedChunks` is a RECURSIVE operator over the leaked chunks in `ForEachChunk` order, including its early `return` at the cap. `MarkIndirectlyLeaked` folds `MarkIndirectlyLeakedCb` over `ChunkOrder` with `FoldLeft` (SequencesExt), so each visit sees the tags the earlier visits set. `ScanIndirect` is `ScanRangeForPointers` with `kIndirectlyLeaked` and no frontier. The callback scans every chunk that is not `kReachable`, including one an earlier visit just tagged `kIndirectlyLeaked`. Because of that, the result does not depend on the order.

Spec step 7 says only chunks "still tagged DirectlyLeaked" are scanned. Under that reading, the kinds do depend on the order: in a two-chunk leak cycle, the chunk visited first stays direct. The mutant `MarkIndirectlyLeakedCbDirectOnly` is that reading, and `ReportMatchesReachability` catches it on the cycle c1 <-> c2. The reference follows the code: both chunks are indirect, and no direct leak is reported.

The properties compare the report with a reference built from the pointer graph by `ReflexiveTransitiveClosure` (community module Relation). A chunk must be kept if it is reachable from:

- the roots, thread contexts or registered regions;
- ignored objects;
- chunks with an invalid caller pc;
- chunks whose stack a suppression rule matches.

A leaked chunk is direct if no other leaked chunk points to it.

### SizeClassAllocator32.tla (MCSizeClassAllocator32.tla)

Per size class, the module holds a spin mutex (`mutex`) and a free list of transfer batches (`freeList`). It also holds the regions mapped so far (`possible`). Threads hold chunks in their cache (`held`). Each action is one call:

- `AllocateBatch`: pop a batch; or return nullptr when no region is left; or map a region and keep the mutex for `PopulateFreeList`.
- `PopulateStep`: one chunk of `PopulateBatches` per step, while the class mutex is held. When a batch is full, `CreateBatch` stores it. For classes whose batch class is not 0, this takes a chunk of the batch class from the thread's cache, refilled by a nested `AllocateBatch`. A failed nested allocation ends the populate with `return false` (line 329).
- `PopulateDone`: the push of the last batch and the pop the caller gets.
- The history variable `lost` collects the unsliced chunks that a failed `PopulateFreeList` leaves behind. `CreateBatch` is only called when `b` is null, so no partial batch is lost; only the rest of the region is.
- `Deallocate`: `DeallocateBatch`, with the local cache's `Drain` and its nested allocation.
- `ForceLock` and `ForceUnlock`: one mutex per step, ascending and descending.

The local cache (`CreateBatch`, `Refill`, `Drain`) is not in this tree. It is modelled from the spec and marked `spec_modelled` in the map. `WaitsFor` is the relation "t spins on a mutex u holds". `NoWaitCycle` uses `TransitiveClosure` from the community module Relation.

The address arithmetic is a section of constant-level operators over integer addresses: `ClassIdToSize`, `ComputeRegionId`, `ComputeRegionBeg`, `GetSizeClass`, `PointerIsMine`, `GetBlockBegin`, `GetActuallyAllocatedSize`, `GetMetaData`, `NChunks` (`n_chunks`), `PopulateChunks` (PopulateFreeList's loop) and `ForEachChunk`. `PossibleRegions` reads the model's `possible` as the byte map indexed by region id. The MC module derives each class's chunk count from `NChunks`, so the actions and the arithmetic agree on the layout. `LayoutVerdicts` evaluates the layout facts once for every map; `LayoutOK` looks up the current map.

### StackStore.tla (MCStackStore.tla)

`alloc` is a program counter per thread. Every atomic access of `tryAlloc` and `refillAndAlloc` is a step of its own:

- load `region_pos`, load `region_end`, then the weak CAS (which may fail spuriously);
- lock `mtx`, store 0 to `region_pos`, mmap, write the `BlockInfo`, store `region_end`, store `region_pos`.

`issued` records every range handed out, with the block it was bumped in. An mmap with no address left is `Die`.

### StackDepotMap.tla and StackDepotBase.tla (MCStackDepotBase.tla)

`StackDepotMap` is the abstract specification. It is a map from valid args to ids: `Put` returns the existing id or a fresh one, `Get` returns the args of an id, and `Free` forgets everything.

`StackDepotBase` is the hash table with lock bits. `LockBit` is `GetLowPtrBits<1>` of a bucket word. `Lock`, `LockFree` and `Unlock` are `lock()` and `unlock()`. `PersistentAlloc` is node memory never handed out before, and it dies when none is left. The actions are:

- `PutFind` is the lock-free find on the loaded head.
- `PutInsert` is the locked half: the refind when `s2 != s`, the id from `seq`, the `CHECK_LT` against `kMaxId`, the node from `freeNodes` or fresh memory, and the publishing unlock.
- `Get` scans the part's chains.
- `PrintBucket` is one bucket of `PrintAll`.
- `FreeLock`, `FreeMove` and `FreeUnlock` are `Free`: `LockAll` one bucket per step, the move under every bucket lock, and `UnlockAll` one bucket per step in descending order.

`FairSpec` adds weak fairness of `Continue(t)`, the steps of a call thread `t` has started. `CallsReturn` says every started call returns (or the process dies).

`DepotRefinesMap` checks `StackDepotMap!Spec` under the refinement mapping `ids <- DepotIds`. `DepotIds` maps each args to the id of its first node on the published chains.

### MutexSet.tla (MCMutexSet.tla)

The descriptors are a sequence, which is `descs_[0..size_-1]`. The actions are `Add`, `AddAddr`, `Del`, `DelAddr` and `Remove`. `RemovePos` (swap with the last slot) and the overflow eviction (`MakeRoom`, the first least epoch or seq) are operators used by the actions. A MutexSet belongs to one thread, so the operations do not interleave. Two ghost variables record the caller's side:

- `held`: the recursion count of each mutex the thread holds;
- `evicted`: the held mutexes whose descriptor an overflow dropped.

## Runs

| Run | Config | Expect | What it shows |
|---|---|---|---|
| scudo_quarantine | MCScudoAllocator.cfg | pass | Two threads, two chunks, sizes 1..2, a quarantine of 2 with a thread cache of 1, and tampering on. `ChunkPlacement`: every chunk is in exactly one of the backend, the quarantine, or allocated, and its header state agrees. `TamperedNeverReleased`: a corrupted chunk never reaches the backend. About 115k states. |
| scudo_bypass_double_free | MCScudoBypass.cfg | violation | With `QuarantineChunksUpToSize = 1`, size-2 chunks bypass the quarantine. Two frees of one chunk both erase it and release it twice (`ChunkPlacement`). |
| scudo_header_aba | MCScudoABA.cfg | violation | In 11 states, a free and a realloc of one chunk race. The chunk is quarantined, recycled and reissued by the realloc itself. The stale free's CAS then succeeds (`StaleUpdateNeverCommits`). |
| lsan_leak_check | MCLsanLeakCheck.cfg | pass | Every pointer graph over three chunks without self-pointers (64), every root set and rule set, with ignores, a root region, dropped references and two checks. Either check may be the once-only `DoLeakCheck`, which dies on leaks because `exitcode` is set. Each report equals the reference (`ReportMatchesReachability`). About 2.3M states in 56 s. |
| lsan_resolution_suppression | MCLsanResolution.cfg | violation | With `resolution`, suppressed ids are truncated ids that never match. After 8 reruns, a chunk held only by a suppressed leak is reported. |
| lsan_ignore_lost | MCLsanIgnoreLost.cfg | violation | A thread context points to an ignored chunk, so check 1 overwrites `kIgnored`. The reference is dropped, and check 2 reports the ignored object. |
| primary32_alloc | MCSizeClassAllocator32.cfg | pass | Two threads, three regions, and classes 1 and 2, where class 1 stores its batches in chunks of class 2. `ChunkOwnership`: no chunk is in two places (free lists, caches, the batch being built, unsliced region) and every free-list batch holds chunks of its class. `ChunksAccounted`: every chunk of a mapped region is in one of those places, or in `lost`, and never in both, so a chunk is dropped only by a failed `CreateBatch`. `NoWaitCycle`: ForceLock and nested allocations never wait in a cycle. `LayoutOK`: in every region map reached, with 16-byte regions, 2-byte metadata, 3-byte chunks of class 1 and 4-byte batches of class 2, ForEachChunk visits exactly the chunks populate hands out, GetBlockBegin maps every address inside a chunk to it, and GetMetaData gives a slot of the trailing table that overlaps no chunk and no other slot. About 600k states in under 2 min. |
| stackstore_alloc | MCStackStore.cfg | pass | Two threads, two allocations each of 1 or 4 words, blocks of at least 4 words, and three mmap addresses. `AllocationsDisjointInBlocks`: no two ranges overlap, and each lies in the usable part of the block it was bumped in. `AllocReturns`: every alloc returns or the process dies. About 135k states. |
| depot_refines_map | MCStackDepotBase.cfg | pass | Two threads each make two Puts or Gets, with all args in one bucket. The depot refines the abstract map, including two Puts of one trace racing past the lock-free find. About 22k states. |
| depot_all_ops | MCStackDepotAll.cfg | pass | Put, Get, PrintAll and Free, two calls per thread (a Free or PrintAll racing the other thread's Puts), under `FairSpec`. `IdsUnique`: every published id names its bucket's part, is below `seq`, and is unique. `CallsReturn`: no call spins for ever on a bucket lock; a `Put` or `PrintAll` waiting on a bucket that `Free` holds proceeds once `UnlockAll` releases it. About 70k states. |
| scudo_rss_limit | MCScudoRssLimit.cfg | pass | Two threads, soft limit 1MB and hard limit 2MB, RSS values of 0MB, exactly each limit and above the hard one, over the statm path. `SoftFlagTracksRss`: an RSS that settles at or below the soft limit eventually clears the refusal flag for good, and one that settles above sets it for good, despite CAS races and a slow refresher storing after a newer one. `HardLimitKills`: an RSS that stays above the hard limit eventually kills the process. About 21k states. |
| mutexset_bookkeeping | MCMutexSet.cfg | pass | Three ids and two addresses in a two-slot set. `RecordIsExact`: every held mutex whose descriptor was not dropped has one descriptor with its recursion count. `NoStaleDesc`: no descriptor is for a mutex no longer held, over-counts, or is duplicated. About 18k states. |

Each property of a passing run has a mutant in `PROJECT.json`: an operator that changes one mapped definition the way a plausible bug would. TLC finds each mutant's property violated.

### Observed while modelling, not kept as runs

The project keeps at most twelve runs. These behaviours were confirmed with TLC while modelling. They are kept here, and in `PROJECT.json`'s hazards, but not as runs:

- **LSan cap:** once `kMaxLeaksConsidered` records exist, `AddLeakedChunks` returns from its whole loop. Later leaks that belong to existing records are not counted either. In `lsan_leak_check`, c3 has an invalid caller pc and is always kept, so at most two records exist. A cap small enough to bite there (one record) would leave `ReportMatchesReachability` nothing to compare.
- **Primary32 lost region:** when the nested `CreateBatch` allocation fails inside `PopulateBatches`, the region stays registered to the class. Its unsliced chunks are referenced by nothing. `ChunksAccounted` in `primary32_alloc` now checks that this failure is the only way a chunk is lost.
- **Depot PrintAll clears buckets:** `PrintAll` (line 266) unlocks each bucket with the nullptr its walk ended on. The bucket is emptied, and a later Put of the same trace gets a new id, so `DepotRefinesMap` is violated. This is a bug in the code. The run was retired to make room for the RSS model; `depot_refines_map` still checks the refinement over Put and Get.
- **RSS over getrusage:** with `RssOutcomes = {"rusage"}`, the path without `can_use_proc_maps_statm` or when statm cannot be opened, `SoftFlagTracksRss` is violated. `ru_maxrss` is the peak RSS, so once the soft limit is exceeded the flag is never cleared, although the spec says it clears once usage drops back.
- **RSS empty reads:** when an empty statm read (`GetRSS` returns 0) may recur, `SoftFlagTracksRss` is violated. Each such refresh clears the flag and skips the hard limit for 100ms.
- **Primary32 metadata-area pointers:** `PointerIsMine` accepts addresses in a region's tail and metadata table. With the layout of the run, address 9 gives `GetBlockBegin` 9 (chunk index 3 of 3) and `GetMetaData` 8, inside chunk 2.
- **Depot Free ABA:** a `Free` between Put's lock-free load and its lock lets the same head node be reused for the same trace. `s2 == s` then skips the second find, and the trace gets two ids.

## Bounds and why they are enough

- **Scudo:**
  - Two threads are the least that can race.
  - Two chunks let a freed chunk be recycled and reissued while the other is in use.
  - A quarantine of size 2 with a thread cache of 1 makes every `Put` drain, and lets a `Recycle` happen within a few steps.
- **LSan:**
  - Three chunks give chains, cycles, shared targets and chunks reachable only through a leak.
  - Self-pointers are left out of the pass run, because `ScanRangeForPointers` skips a chunk's pointers into itself.
  - Two stacks give aggregation and a suppressed stack next to an unsuppressed one.
  - Two checks show what one check leaves behind for the next.
  - `ExitCode` is TRUE, the flag's default of 23. This makes `DoLeakCheck` end the process whenever its report is not empty. The recoverable check before it, and the one after an empty `DoLeakCheck`, still run.
  - `MaxReruns` is the code's literal 8.
  - `kMaxLeaksConsidered` (5000 in the code) is 4 in the pass run. This is the number of distinct records three chunks and two stacks can produce.
- **Primary32:**
  - Three regions for two allocating classes and a batch class let every class map a region and then run out.
  - Region sizes of 1 to 3 chunks and batch capacities of 1 or 2 make populate fill a batch, start another, and stop mid-batch.
  - Symmetry over threads and over regions is sound here, because the cfg checks invariants only.
- **StackStore:**
  - Blocks of 4 words with a 1-word `BlockInfo` fill after one 4-word allocation, so refills race with lock-free bumps.
  - Three mmap addresses allow two refills.
  - No symmetry is used, because the run checks liveness.
- **StackDepot:**
  - Two buckets in one part with `kMaxId = 3` give ids 1 and 2. A third trace in a part reaches the `CHECK_LT`.
  - Three nodes cover three distinct traces.
  - Two calls per thread let a Free or PrintAll run between the two halves of the other thread's Put.
- **Scudo RSS:**
  - Two threads are the least that race on the CAS and on the flag's load and store.
  - The RSS values include each limit exactly, where `<=` and `>` decide. They also include a value between the limits and one above the hard limit.
  - The 100ms window is a boolean, so no clock bound is needed.
- **Primary32 layout:** 16-byte regions with 3- and 4-byte chunks and 2-byte metadata leave a tail that is shorter than one metadata slot. This is the case where a wrong slot index would overlap a chunk. Every class and region map of three regions is checked.
- **MutexSet:**
  - Two slots for five mutexes make overflows by both interfaces frequent.
  - A recursion bound of 2 gives re-acquisitions and releases of evicted mutexes.
  - Epochs 0..2 give ties and strictly older entries.

## Fairness and liveness

`stackstore_alloc` checks `AllocReturns` under weak fairness of every thread's step, and strong fairness of a successful CAS. The weak fairness is justified because the threads are scheduled by the OS. A spurious failure of `atomic_compare_exchange_weak` cannot recur forever, which justifies the strong fairness. `scudo_rss_limit` checks `SoftFlagTracksRss` and `HardLimitKills` under weak fairness of `Tick`, because time passes. It also assumes weak fairness of every thread's step: the program keeps allocating, and the check runs only inside `allocate`. Strong fairness of a successful CAS is assumed because a weak CAS does not fail spuriously forever. `ChangeRss` has no fairness; the properties are about RSS that settles. `depot_all_ops` checks `CallsReturn` under weak fairness of each thread's started call. The lock bits are spin locks, and a spin lock is not fair: a waiter can lose every race for the bit, which would call for strong fairness. Weak fairness suffices here because every thread makes at most `MaxCalls` calls. The other threads eventually stop taking the bit, and the waiter's step then stays enabled. When a thread starts a call is left free. The other modules check safety only. Their loops are bounded in the code (the LSan rerun counter) or run under a lock held for one step.

`CHECK_DEADLOCK FALSE` is used where the process really stops:

- `dieWithMessage`, `Die()` and failed `CHECK`s end it;
- the bounded programs (a fixed number of calls per thread) stop calling the runtime.

`mutexset_bookkeeping` checks deadlock, because `Remove` is always enabled.

## Not modelled, and why

- **Scudo:**
  - RSS limit: the `Report` and `DumpProcessMap` output before `Die`.
  - The Secondary, alignment offsets and `getStats` carry no concurrency beyond what is modelled.
  - `scudoCalloc` and `scudoAlignedAlloc` are `allocate` as `FromMalloc`, the same step as `ScudoMalloc`. Zeroing the contents is not observable in the model. Bad requests (an alignment that is not a power of two, or a `calloc` or `pvalloc` overflow) either return null, which changes nothing, or die. Neither outcome is modelled as a step of its own.
- **SizeClassAllocator32:** `RandomShuffle`, the statistics, `TotalMemoryUsed` and `TestOnlyUnmap`. The masking of sign-extended addresses is not modelled; the space starts at 0.
- **PersistentAllocator:** it appears only as `PersistentAlloc` in StackDepotBase. Its `tryAlloc` is the same code as StackStore's. Its `refillAndAlloc` is not in this tree.
- **Scudo `getUsableSize` (`malloc_usable_size`):** it dies on a header that is not allocated, and otherwise changes nothing. Every such death is also one of `deallocate`'s header checks, so as an action it would reach no new state.
- **fp_lib.h:** pure soft-float helpers. They are not modelled yet.
- **sanitizer_linux_libcdep.cpp (except `GetRSS` and `MonotonicNanoTime`) and cpu_model.c:** OS interfaces, TLS layout and table decoding, with no state machine.
- **hwasan_interface_internal.h and asan_errors.h:** declarations and report structures.
- **The tests:** test programs.

## Plan

1. ScudoAllocator and ScudoRssLimit: done.
2. LsanLeakCheck: done.
3. SizeClassAllocator32: done for the shared free lists and the address arithmetic. Next, a refinement to an abstract pool of free chunks.
4. StackDepotBase: done (the refinement, unique ids, PrintAll).
5. StackStore: done. PersistentAllocator shares its code.
6. MutexSet: done.
7. fp_lib.h: pure operators (`normalize`, `wideMultiply`, `rep_clz`) checked against arithmetic over small widths. This needs a run slot. The project is at its limit of twelve runs, so a run would have to be merged or retired first.
