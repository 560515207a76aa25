--------------------------- MODULE LsanLeakCheck ----------------------------
(***************************************************************************)
(* Recoverable leak checks of LeakSanitizer (src/lib/lsan/lsan_common.cpp: *)
(* DoRecoverableLeakCheck, CheckForLeaks, ClassifyAllChunks, LeakReport)   *)
(* and the program calls that change what they see between checks         *)
(* (__lsan_ignore_object, __lsan_register_root_region, ...).               *)
(*                                                                         *)
(* A check runs with the world stopped and under global_mutex, so its      *)
(* passes never interleave with the program; each ForEachChunk pass is one *)
(* action and the flood fill pops one frontier entry per step.  Memory is  *)
(* abstracted to the chunks each range holds pointers into: the body of    *)
(* every chunk (heap), the thread and global roots (roots), the thread     *)
(* contexts (ctxPtrs) and each root region (RegionPtrs).                   *)
(***************************************************************************)
EXTENDS Integers, Sequences, FiniteSets, SequencesExt, Relation

CONSTANTS
  Chunks,             \* allocated chunks, by user-visible address
  Heaps,              \* the pointer graphs the program may have built
  ChunkOrder,         \* the order ForEachChunk visits them in
  Stacks,             \* allocation stack trace ids in the stack depot
  StackOf,            \* the allocation stack trace id of each chunk
  Resolution,         \* flags()->resolution != 0
  Truncated,          \* depot id of each stack cut to resolution frames
  InvalidPC,          \* chunks whose caller pc is 0 or in the linker
  Regions,            \* root regions the program may register
  RegionPtrs,         \* chunks each root region holds pointers to
  ContextPointers,    \* the tool's thread contexts may point into chunks
  MaxLeaksConsidered, \* kMaxLeaksConsidered
  MaxReruns,          \* CheckForLeaks gives up when i >= 8
  MaxChecks,          \* bound: leak checks the program requests
  ExitCode            \* common_flags()->exitcode != 0

ASSUME ChunkOrder \in Seq(Chunks) /\ ToSet(ChunkOrder) = Chunks
       /\ Len(ChunkOrder) = Cardinality(Chunks)
ASSUME Heaps \subseteq [Chunks -> SUBSET Chunks]
ASSUME StackOf \in [Chunks -> Stacks]
ASSUME Resolution => Truncated \in [Stacks -> Stacks]
ASSUME InvalidPC \subseteq Chunks /\ RegionPtrs \in [Regions -> SUBSET Chunks]
ASSUME {MaxLeaksConsidered, MaxReruns, MaxChecks} \subseteq Nat \ {0}

\* enum ChunkTag
DirectlyLeaked   == "kDirectlyLeaked"
IndirectlyLeaked == "kIndirectlyLeaked"
Reachable        == "kReachable"
Ignored          == "kIgnored"

\* Where the leak check is; Idle between checks.
Phases == {"Idle", "IgnoreSuppressed", "CollectIgnored", "ScanRoots",
           "ThreadRegistry", "FloodFill", "FloodFillPC", "Report"}

LeakedChunk == [chunk : Chunks, stack : Stacks, direct : BOOLEAN]
Leak == [stack : Stacks, direct : BOOLEAN, hits : Nat, suppressed : BOOLEAN]

VARIABLES
  heap,        \* chunks pointed to from each chunk's body
  roots,       \* chunks pointed to from globals, stacks, registers, TLS
  ctxPtrs,     \* GetAdditionalThreadContextPtrs
  regions,     \* root_regions: how often each region is registered
  rules,       \* stack ids some leak suppression rule matches
  tag,         \* LsanMetadata::tag() of each chunk
  frontier,    \* the Frontier vector
  leaks,       \* LeakedChunks collected by CollectLeaksCb
  suppressed,  \* LeakSuppressionContext::suppressed_stacks
  iter,        \* the loop counter i of CheckForLeaks
  phase,       \* where the current check is
  dead,        \* the process died (Die())
  checks,      \* bound: checks completed
  userIgnored, \* ghost: chunks passed to __lsan_ignore_object
  report,      \* ghost: leaks_ of the last completed check
  reported,    \* ghost: chunks in its unsuppressed records
  alreadyDone, \* DoLeakCheck's static already_done
  atExit       \* the running check is DoLeakCheck's

vars == <<heap, roots, ctxPtrs, regions, rules, tag, frontier, leaks,
          suppressed, iter, phase, dead, checks, userIgnored, report, reported, alreadyDone, atExit>>

\* The stack id AddLeakedChunks gives a leak: with flags()->resolution the
\* trace cut to that many frames is put into the depot again.
RecordStack(s) == IF Resolution THEN Truncated[s] ELSE s

\* Chunks some registered root region points into.
RegionRoots == UNION {RegionPtrs[r] : r \in {x \in Regions : regions[x] > 0}}

-----------------------------------------------------------------------------
\* Any heap graph of Heaps, any referenced chunks and suppression rules.  Every
\* chunk starts kDirectlyLeaked (the tag RegisterAllocation gives it).
Init ==
  /\ heap \in Heaps
  /\ roots \in SUBSET Chunks
  /\ ctxPtrs \in IF ContextPointers THEN SUBSET Chunks ELSE {{}}
  /\ regions = [r \in Regions |-> 0]
  /\ rules \in SUBSET Stacks
  /\ tag = [c \in Chunks |-> DirectlyLeaked]
  /\ frontier = <<>>
  /\ leaks = <<>>
  /\ suppressed = {}
  /\ iter = 0
  /\ phase = "Idle"
  /\ dead = FALSE
  /\ checks = 0
  /\ userIgnored = {}
  /\ report = <<>>
  /\ reported = {}
  /\ alreadyDone = FALSE
  /\ atExit = FALSE

\* ScanRangeForPointers(begin, end, frontier, ..., kReachable) over a range
\* pointing to targets: chunks neither reachable nor ignored are tagged
\* and pushed.  self is the scanned chunk (pointers to self do not count).
ScanReachable(self, targets) ==
  LET new == {p \in targets \ {self} : tag[p] \notin {Reachable, Ignored}} IN
  /\ tag' = [c \in Chunks |-> IF c \in new THEN Reachable ELSE tag[c]]
  /\ frontier' = frontier \o SetToSeq(new)

\* DoRecoverableLeakCheck: takes global_mutex, CheckForLeaks with i = 0.
DoRecoverableLeakCheck ==
  /\ ~dead /\ phase = "Idle" /\ checks < MaxChecks
  /\ phase' = "IgnoreSuppressed"
  /\ iter' = 0
  /\ atExit' = FALSE
  /\ UNCHANGED <<heap, roots, ctxPtrs, regions, rules, tag, frontier, leaks,
                 suppressed, dead, checks, userIgnored, report, reported,
                 alreadyDone>>

\* DoLeakCheck (__lsan_do_leak_check, and the check at exit): under
\* global_mutex, nothing once already_done is set; otherwise it sets it
\* and runs CheckForLeaks, whose result goes to HandleLeaks.
DoLeakCheck ==
  /\ ~dead /\ phase = "Idle" /\ checks < MaxChecks /\ ~alreadyDone
  /\ alreadyDone' = TRUE
  /\ atExit' = TRUE
  /\ phase' = "IgnoreSuppressed"
  /\ iter' = 0
  /\ UNCHANGED <<heap, roots, ctxPtrs, regions, rules, tag, frontier, leaks,
                 suppressed, dead, checks, userIgnored, report, reported>>

\* ClassifyAllChunks: ForEachChunk(IgnoredSuppressedCb) when the sorted
\* suppressed stacks are not empty.
IgnoreSuppressedChunks ==
  /\ phase = "IgnoreSuppressed"
  /\ tag' = [c \in Chunks |->
               IF tag[c] # Ignored /\ StackOf[c] \in suppressed
                 THEN Ignored ELSE tag[c]]
  /\ phase' = "CollectIgnored"
  /\ UNCHANGED <<heap, roots, ctxPtrs, regions, rules, frontier, leaks,
                 suppressed, iter, dead, checks, userIgnored, report, reported, alreadyDone, atExit>>

\* ForEachChunk(CollectIgnoredCb): ignored chunks seed the frontier.
CollectIgnored ==
  /\ phase = "CollectIgnored"
  /\ frontier' = SelectSeq(ChunkOrder, LAMBDA c : tag[c] = Ignored)
  /\ phase' = "ScanRoots"
  /\ UNCHANGED <<heap, roots, ctxPtrs, regions, rules, tag, leaks, suppressed,
                 iter, dead, checks, userIgnored, report, reported, alreadyDone, atExit>>

\* ProcessGlobalRegions, the register/stack/TLS scans of ProcessThreads,
\* and ProcessRootRegions: every root range is scanned for pointers.
ScanRoots ==
  /\ phase = "ScanRoots"
  /\ ScanReachable("root", roots \cup RegionRoots)
  /\ phase' = "ThreadRegistry"
  /\ UNCHANGED <<heap, roots, ctxPtrs, regions, rules, leaks, suppressed, iter,
                 dead, checks, userIgnored, report, reported, alreadyDone, atExit>>

\* ProcessThreadRegistry: every allocated chunk a thread context points
\* into is set kReachable and pushed, whatever its tag was.
ProcessThreadRegistry ==
  /\ phase = "ThreadRegistry"
  /\ tag' = [c \in Chunks |-> IF c \in ctxPtrs THEN Reachable ELSE tag[c]]
  /\ frontier' = frontier \o SetToSeq(ctxPtrs)
  /\ phase' = "FloodFill"
  /\ UNCHANGED <<heap, roots, ctxPtrs, regions, rules, leaks, suppressed, iter,
                 dead, checks, userIgnored, report, reported, alreadyDone, atExit>>

\* FloodFillTag(frontier, kReachable): pop the last chunk and scan its body.
FloodFillTag ==
  /\ phase \in {"FloodFill", "FloodFillPC"}
  /\ frontier # <<>>
  /\ LET next == Last(frontier)
         new  == {p \in heap[next] \ {next} : tag[p] \notin {Reachable, Ignored}}
     IN  /\ tag' = [c \in Chunks |-> IF c \in new THEN Reachable ELSE tag[c]]
         /\ frontier' = Front(frontier) \o SetToSeq(new)
  /\ UNCHANGED <<heap, roots, ctxPtrs, regions, rules, leaks, suppressed, iter,
                 phase, dead, checks, userIgnored, report, reported, alreadyDone, atExit>>

\* CHECK_EQ(0, frontier->size()); ProcessPC: ForEachChunk(MarkInvalidPCCb)
\* ignores and pushes the chunks not yet reachable whose caller pc is
\* unknown or in the linker.
ProcessPC ==
  /\ phase = "FloodFill" /\ frontier = <<>>
  /\ LET marked == {c \in InvalidPC : tag[c] \notin {Reachable, Ignored}} IN
     /\ tag' = [c \in Chunks |-> IF c \in marked THEN Ignored ELSE tag[c]]
     /\ frontier' = SelectSeq(ChunkOrder, LAMBDA c : c \in marked)
  /\ phase' = "FloodFillPC"
  /\ UNCHANGED <<heap, roots, ctxPtrs, regions, rules, leaks, suppressed, iter,
                 dead, checks, userIgnored, report, reported, alreadyDone, atExit>>

\* ScanRangeForPointers(chunk, ..., nullptr, "HEAP", kIndirectlyLeaked) over
\* the body of chunk c: every other chunk it points to whose tag is neither
\* kReachable nor kIgnored is tagged kIndirectlyLeaked.
ScanIndirect(t, c) ==
  [d \in Chunks |->
     IF d # c /\ d \in heap[c] /\ t[d] \notin {Reachable, Ignored}
       THEN IndirectlyLeaked ELSE t[d]]

\* Mutant of MarkIndirectlyLeakedCb: only chunks still tagged
\* kDirectlyLeaked are scanned.
MarkIndirectlyLeakedCbDirectOnly(t, c) ==
  IF t[c] = DirectlyLeaked THEN ScanIndirect(t, c) ELSE t

\* MarkIndirectlyLeakedCb: a chunk whose tag is not kReachable (so also one
\* an earlier visit of this pass tagged kIndirectlyLeaked, and a kIgnored
\* one) has its body scanned.
MarkIndirectlyLeakedCb(t, c) ==
  IF t[c] # Reachable THEN ScanIndirect(t, c) ELSE t

\* ForEachChunk(MarkIndirectlyLeakedCb): the callback applied to each chunk
\* in ForEachChunk's order, each visit seeing the tags the earlier ones set.
MarkIndirectlyLeaked(t) == FoldLeft(MarkIndirectlyLeakedCb, t, ChunkOrder)

\* The end of ClassifyAllChunks and of CheckForLeaksCallback once the second
\* flood fill is done: MarkIndirectlyLeakedCb, CollectLeaksCb, then
\* ResetTagsCb, which "assumes we did not overwrite any kIgnored tags".
CheckForLeaksCallback ==
  /\ phase = "FloodFillPC" /\ frontier = <<>>
  /\ LET t == MarkIndirectlyLeaked(tag)
         l == SelectSeq(ChunkOrder,
                        LAMBDA c : t[c] \in {DirectlyLeaked, IndirectlyLeaked})
     IN /\ leaks' = [i \in 1..Len(l) |->
                       [chunk |-> l[i], stack |-> StackOf[l[i]],
                        direct |-> t[l[i]] = DirectlyLeaked]]
        /\ tag' = [c \in Chunks |-> IF t[c] # Ignored THEN DirectlyLeaked ELSE t[c]]
  /\ phase' = "Report"
  /\ UNCHANGED <<heap, roots, ctxPtrs, regions, rules, frontier, suppressed,
                 iter, dead, checks, userIgnored, report, reported, alreadyDone, atExit>>

\* LeakReport::AddLeakedChunks: a leak joins the record with its stack id
\* and kind; a new record is appended unless kMaxLeaksConsidered records
\* exist, in which case the whole loop returns.
RECURSIVE AddLeakedChunks(_, _)
AddLeakedChunks(recs, ls) ==
  IF ls = <<>> THEN recs
  ELSE LET l   == Head(ls)
           s   == RecordStack(l.stack)
           hit == {i \in DOMAIN recs : recs[i].stack = s /\ recs[i].direct = l.direct}
       IN IF hit # {}
            THEN AddLeakedChunks([recs EXCEPT ![CHOOSE i \in hit : TRUE].hits = @ + 1],
                                 Tail(ls))
          ELSE IF Len(recs) = MaxLeaksConsidered THEN recs
          ELSE AddLeakedChunks(Append(recs, [stack |-> s, direct |-> l.direct,
                                             hits |-> 1, suppressed |-> FALSE]),
                               Tail(ls))

\* LeakSuppressionContext::Suppress, with SuppressByRule: the rules (the
\* suppressions file, the default and built-in ones, each matched against
\* every frame's module, function or file) are abstracted to the set of
\* stack ids they match; the hit counts and weights are not modelled.
Suppress(s) == s \in rules

\* LeakReport::ApplySuppressions: every record whose stack a rule matches is
\* suppressed, and its id pushed to suppressed_stacks.
ApplySuppressions(recs) ==
  [i \in DOMAIN recs |-> [recs[i] EXCEPT !.suppressed = Suppress(recs[i].stack)]]

\* LeakReport::UnsuppressedLeakCount and IndirectUnsuppressedLeakCount.
UnsuppressedLeakCount(recs) ==
  Cardinality({i \in DOMAIN recs : ~recs[i].suppressed})
IndirectUnsuppressedLeakCount(recs) ==
  Cardinality({i \in DOMAIN recs : ~recs[i].suppressed /\ ~recs[i].direct})

\* LeakReport::ReportTopLeaks with max_leaks = 0: every unsuppressed record
\* is printed (the sort by kind and size only orders the output).
ReportTopLeaks(recs) == {r \in ToSet(recs) : ~r.suppressed}

\* PrintLeakedObjectsForLeak (report_objects): the chunks of the leaks that
\* were folded into the printed records.
PrintLeakedObjects(shown) ==
  {leaks[i].chunk : i \in {j \in DOMAIN leaks :
                             \E r \in shown : /\ r.stack = RecordStack(leaks[j].stack)
                                             /\ r.direct = leaks[j].direct}}

\* PrintResults: the report is printed only when some record is
\* unsuppressed, and its result is whether one is.
PrintResults(recs) == UnsuppressedLeakCount(recs) > 0

\* HandleLeaks (lsan.cpp): when DoLeakCheck found leaks and exitcode is
\* set, the process dies with it.
HandleLeaks(hasReportedLeaks) == atExit /\ hasReportedLeaks /\ ExitCode

\* The rest of CheckForLeaks: report when no record was suppressed, when no
\* unsuppressed indirect leak is left, or when i >= 8; rerun otherwise.
ReportOrRerun ==
  LET recs  == ApplySuppressions(AddLeakedChunks(<<>>, leaks))
      supp  == {recs[i].stack : i \in {j \in DOMAIN recs : recs[j].suppressed}}
      done  == supp = {} \/ IndirectUnsuppressedLeakCount(recs) = 0
                         \/ iter >= MaxReruns
  IN
  /\ phase = "Report"
  /\ suppressed' = suppressed \cup supp
  /\ leaks' = <<>>
  /\ IF done
       THEN /\ phase' = "Idle"
            /\ checks' = checks + 1
            /\ report' = recs
            /\ reported' = IF PrintResults(recs)
                              THEN PrintLeakedObjects(ReportTopLeaks(recs))
                              ELSE {}
            /\ dead' = HandleLeaks(PrintResults(recs))
            /\ UNCHANGED iter
       ELSE /\ phase' = "IgnoreSuppressed"
            /\ iter' = iter + 1
            /\ UNCHANGED <<checks, report, reported, dead>>
  /\ UNCHANGED <<heap, roots, ctxPtrs, regions, rules, tag, frontier,
                 userIgnored, alreadyDone, atExit>>

\* __lsan_ignore_object(p) under global_mutex: IgnoreObjectLocked tags an
\* allocated chunk kIgnored (or finds it already ignored).
IgnoreObject(c) ==
  /\ ~dead /\ phase = "Idle" /\ checks < MaxChecks
  /\ c \notin userIgnored
  /\ tag' = [tag EXCEPT ![c] = Ignored]
  /\ userIgnored' = userIgnored \cup {c}
  /\ UNCHANGED <<heap, roots, ctxPtrs, regions, rules, frontier, leaks,
                 suppressed, iter, phase, dead, checks, report, reported, alreadyDone, atExit>>

\* __lsan_register_root_region: root_regions.push_back (bound: a region is
\* registered at most once at a time).
RegisterRootRegion(r) ==
  /\ ~dead /\ phase = "Idle" /\ checks < MaxChecks /\ regions[r] = 0
  /\ regions' = [regions EXCEPT ![r] = @ + 1]
  /\ UNCHANGED <<heap, roots, ctxPtrs, rules, tag, frontier, leaks, suppressed,
                 iter, phase, dead, checks, userIgnored, report, reported, alreadyDone, atExit>>

\* Mutant: the entry count is decremented without finding the region.
UnregisterRootRegionNoCheck(r) ==
  /\ ~dead /\ phase = "Idle" /\ checks < MaxChecks
  /\ regions' = [regions EXCEPT ![r] = @ - 1]
  /\ UNCHANGED <<heap, roots, ctxPtrs, rules, tag, frontier, leaks, suppressed,
                 iter, phase, dead, checks, userIgnored, report, reported, alreadyDone, atExit>>

\* __lsan_unregister_root_region: removes one matching entry, or reports
\* that the region was never registered and dies.
UnregisterRootRegion(r) ==
  /\ ~dead /\ phase = "Idle" /\ checks < MaxChecks
  /\ IF regions[r] > 0
       THEN regions' = [regions EXCEPT ![r] = @ - 1] /\ UNCHANGED dead
       ELSE dead' = TRUE /\ UNCHANGED regions
  /\ UNCHANGED <<heap, roots, ctxPtrs, rules, tag, frontier, leaks, suppressed,
                 iter, phase, checks, userIgnored, report, reported, alreadyDone, atExit>>

\* Between checks the program overwrites some of its pointers.
DropReferences ==
  /\ ~dead /\ phase = "Idle" /\ checks < MaxChecks
  /\ \E r \in SUBSET roots, x \in SUBSET ctxPtrs :
       /\ <<r, x>> # <<roots, ctxPtrs>>
       /\ roots' = r
       /\ ctxPtrs' = x
  /\ UNCHANGED <<heap, regions, rules, tag, frontier, leaks, suppressed, iter,
                 phase, dead, checks, userIgnored, report, reported, alreadyDone, atExit>>

Next ==
  \/ DoRecoverableLeakCheck
  \/ DoLeakCheck
  \/ IgnoreSuppressedChunks
  \/ CollectIgnored
  \/ ScanRoots
  \/ ProcessThreadRegistry
  \/ FloodFillTag
  \/ ProcessPC
  \/ CheckForLeaksCallback
  \/ ReportOrRerun
  \/ \E c \in Chunks : IgnoreObject(c)
  \/ \E r \in Regions : RegisterRootRegion(r) \/ UnregisterRootRegion(r)
  \/ DropReferences

Spec == Init /\ [][Next]_vars

-----------------------------------------------------------------------------
TypeOK ==
  /\ heap \in [Chunks -> SUBSET Chunks]
  /\ roots \in SUBSET Chunks /\ ctxPtrs \in SUBSET Chunks
  /\ regions \in [Regions -> Nat] /\ rules \in SUBSET Stacks
  /\ tag \in [Chunks -> {DirectlyLeaked, IndirectlyLeaked, Reachable, Ignored}]
  /\ frontier \in Seq(Chunks)
  /\ leaks \in Seq(LeakedChunk)
  /\ suppressed \in SUBSET Stacks
  /\ iter \in 0..MaxReruns
  /\ phase \in Phases
  /\ dead \in BOOLEAN
  /\ checks \in 0..MaxChecks
  /\ userIgnored \in SUBSET Chunks
  /\ report \in Seq(Leak) /\ Len(report) <= MaxLeaksConsidered
  /\ reported \in SUBSET Chunks
  /\ alreadyDone \in BOOLEAN /\ atExit \in BOOLEAN

\* Reference: what a leak check should find in the current heap.  A chunk
\* must be kept when it is reachable, through chunk bodies, from a root
\* range, a thread context, a registered root region, an object passed to
\* __lsan_ignore_object, a chunk with an invalid caller pc, or a chunk
\* whose allocation stack a suppression rule matches.
PointsTo == [x, y \in Chunks |-> y \in heap[x]]
KeptFrom(S) ==
  LET reach == ReflexiveTransitiveClosure(PointsTo, Chunks)
  IN  {y \in Chunks : \E x \in S : reach[x, y]}
MustKeep ==
  KeptFrom(roots \cup ctxPtrs \cup RegionRoots \cup userIgnored \cup InvalidPC
           \cup {c \in Chunks : RecordStack(StackOf[c]) \in rules})
Leaked == Chunks \ MustKeep
\* A leaked chunk is direct when no other leaked chunk points to it.
DirectLeak(c) == ~\E d \in Leaked \ {c} : c \in heap[d]
ExpectedLeaks ==
  {[stack |-> RecordStack(StackOf[c]), direct |-> DirectLeak(c),
    hits |-> Cardinality({d \in Leaked : /\ RecordStack(StackOf[d]) = RecordStack(StackOf[c])
                                        /\ DirectLeak(d) = DirectLeak(c)}),
    suppressed |-> FALSE] : c \in Leaked}

\* When CheckForLeaks returns, the unsuppressed records of its LeakReport
\* are exactly the leaks of the heap it scanned: every unreachable,
\* unsuppressed chunk is counted once, under its stack id and the right
\* kind, and nothing reachable or suppressed is reported.  This needs the
\* passes of ClassifyAllChunks, the tag reset between checks and the
\* suppression reruns all to be right.
ReportMatchesReachability ==
  [][phase = "Report" /\ phase' = "Idle" =>
       {r \in ToSet(report') : ~r.suppressed} = ExpectedLeaks]_vars

\* A check never reports an object the program passed to
\* __lsan_ignore_object before it (ResetTagsCb relies on no pass of an
\* earlier check having overwritten its kIgnored tag).
IgnoredObjectNeverReported ==
  [][phase = "Report" /\ phase' = "Idle" => reported' \cap userIgnored = {}]_vars

=============================================================================
