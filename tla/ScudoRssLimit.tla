---------------------------- MODULE ScudoRssLimit ----------------------------
(***************************************************************************)
(* Scudo's opportunistic RSS limit check (ScudoAllocator::                  *)
(* isRssLimitExceeded in src/lib/scudo/scudo_allocator.cpp, called by       *)
(* allocate when a hard or soft limit is set), with GetRSS and              *)
(* MonotonicNanoTime from sanitizer_linux_libcdep.cpp.                      *)
(*                                                                         *)
(* Time is abstracted the way real-time specifications do: only whether    *)
(* 100ms have passed since the time stored in RssLastCheckedAtNS matters.  *)
(* windowOpen is that fact; Tick is time passing.  A thread's loaded       *)
(* LastCheck is represented by fresh[t], "no CAS has replaced the value I  *)
(* loaded".  A thread whose LastCheck is stale finds the window elapsed    *)
(* (the CAS that replaced it needed that) and its CAS fails, so this is    *)
(* exact for every comparison the code makes.  Memory sizes are in bytes   *)
(* of a scaled unit: MB bytes make a megabyte, KB bytes a kilobyte.        *)
(***************************************************************************)
EXTENDS Integers, FiniteSets

CONSTANTS
  Threads,
  HardRssLimitMb,   \* common_flags()->hard_rss_limit_mb, 0 when unset
  SoftRssLimitMb,   \* common_flags()->soft_rss_limit_mb, 0 when unset
  RssValues,        \* the resident set sizes (bytes) the program reaches
  RssOutcomes,      \* which path of GetRSS a call takes (see GetRSS)
  MayReturnNull,    \* allocator_may_return_null (OnOOM returns or dies)
  PageSize, KB, MB

ASSUME HardRssLimitMb \in Nat /\ SoftRssLimitMb \in Nat
ASSUME RssOutcomes \subseteq {"statm", "statm_empty", "rusage", "rusage_fails"}

\* CheckRssLimit = HardRssLimitMb || SoftRssLimitMb (init).
CheckRssLimit == HardRssLimitMb # 0 \/ SoftRssLimitMb # 0

VARIABLES
  windowOpen,   \* MonotonicNanoTime() >= RssLastCheckedAtNS + 100ms
  flag,         \* RssLimitExceeded
  rss,          \* the process's resident set size, in bytes
  maxRss,       \* its high-water mark, what getrusage's ru_maxrss reports
  pc,           \* per thread: where it is in allocate/isRssLimitExceeded
  fresh,        \* per thread: its LastCheck is still RssLastCheckedAtNS
  mb,           \* per thread: CurrentRssMb
  dead          \* Die() or OnOOM's death ended the process

vars == <<windowOpen, flag, rss, maxRss, pc, fresh, mb, dead>>

PCs == {"Idle", "Load", "Now", "Cas", "Rss", "SoftLoad", "StoreTrue",
        "StoreFalse", "Ret"}

(* GetRSS() >> 20.  With can_use_proc_maps_statm the second number of      *)
(* /proc/self/statm is the RSS in pages; an empty read returns 0; without  *)
(* the flag, or when the file cannot be opened, getrusage's ru_maxrss (in  *)
(* KB, shifted left by 10) is used, or 0 when getrusage fails.            *)
StatmResident == rss \div PageSize
GetRSSFromGetrusage(ok) == IF ok THEN (maxRss \div KB) * KB ELSE 0
GetRSS(o) ==
  CASE o = "statm"        -> StatmResident * PageSize
    [] o = "statm_empty"  -> 0
    [] o = "rusage"       -> GetRSSFromGetrusage(TRUE)
    [] o = "rusage_fails" -> GetRSSFromGetrusage(FALSE)
\* Mutant: the ">> 20" is forgotten, bytes are compared as megabytes.
MbOfNoShift(bytes) == bytes
MbOf(bytes) == bytes \div MB

Init ==
  /\ windowOpen = FALSE        \* init stores MonotonicNanoTime()
  /\ flag = FALSE
  /\ rss \in RssValues
  /\ maxRss = rss
  /\ pc = [t \in Threads |-> "Idle"]
  /\ fresh = [t \in Threads |-> FALSE]
  /\ mb = [t \in Threads |-> 0]
  /\ dead = FALSE

Goto(t, p) == pc' = [pc EXCEPT ![t] = p]

(* allocate: after its size checks, when CheckRssLimit it asks            *)
(* isRssLimitExceeded, whose first step loads RssLastCheckedAtNS.          *)
Call(t) ==
  /\ pc[t] = "Idle" /\ CheckRssLimit
  /\ Goto(t, "Load")
  /\ fresh' = [fresh EXCEPT ![t] = TRUE]
  /\ UNCHANGED <<windowOpen, flag, rss, maxRss, mb, dead>>

(* CurrentCheck = MonotonicNanoTime(); within 100ms of LastCheck the       *)
(* current flag is returned.                                               *)
Now(t) ==
  /\ pc[t] = "Load"
  /\ Goto(t, IF ~fresh[t] \/ windowOpen THEN "Cas" ELSE "Ret")
  /\ UNCHANGED <<windowOpen, flag, rss, maxRss, fresh, mb, dead>>

(* The weak CAS of RssLastCheckedAtNS from LastCheck to CurrentCheck.  It  *)
(* fails when another thread moved it, and may fail spuriously; a failure  *)
(* returns the current flag.  Success restarts the window.                 *)
CasSucceeds(t) ==
  /\ pc[t] = "Cas" /\ fresh[t]
  /\ Goto(t, "Rss")
  /\ windowOpen' = FALSE
  /\ fresh' = [u \in Threads |-> FALSE]
  /\ UNCHANGED <<flag, rss, maxRss, mb, dead>>

Cas(t) ==
  \/ CasSucceeds(t)
  \/ /\ pc[t] = "Cas"
     /\ Goto(t, "Ret")
     /\ UNCHANGED <<windowOpen, flag, rss, maxRss, fresh, mb, dead>>

\* Mutant: the hard-limit comparison is written the wrong way round.
ReadRssHardInverted(t) ==
  /\ pc[t] = "Rss"
  /\ \E o \in RssOutcomes :
       LET cur == MbOf(GetRSS(o)) IN
       /\ mb' = [mb EXCEPT ![t] = cur]
       /\ IF HardRssLimitMb # 0 /\ cur < HardRssLimitMb
            THEN dead' = TRUE /\ UNCHANGED pc
            ELSE /\ Goto(t, IF SoftRssLimitMb # 0 THEN "SoftLoad" ELSE "Ret")
                 /\ UNCHANGED dead
  /\ UNCHANGED <<windowOpen, flag, rss, maxRss, fresh>>

(* CurrentRssMb = GetRSS() >> 20; above the hard limit the process dies.  *)
ReadRss(t) ==
  /\ pc[t] = "Rss"
  /\ \E o \in RssOutcomes :
       LET cur == MbOf(GetRSS(o)) IN
       /\ mb' = [mb EXCEPT ![t] = cur]
       /\ IF HardRssLimitMb # 0 /\ HardRssLimitMb < cur
            THEN dead' = TRUE /\ UNCHANGED pc
            ELSE /\ Goto(t, IF SoftRssLimitMb # 0 THEN "SoftLoad" ELSE "Ret")
                 /\ UNCHANGED dead
  /\ UNCHANGED <<windowOpen, flag, rss, maxRss, fresh>>

\* Mutant: once set, the soft flag is never cleared.
SoftLoadNoClear(t) ==
  /\ pc[t] = "SoftLoad"
  /\ Goto(t, IF ~flag /\ mb[t] > SoftRssLimitMb THEN "StoreTrue" ELSE "Ret")
  /\ UNCHANGED <<windowOpen, flag, rss, maxRss, fresh, mb, dead>>

(* The soft limit: load RssLimitExceeded, and clear it when RSS is back    *)
(* at or below the limit, or set it when RSS is above.  The store is a    *)
(* separate atomic access.                                                 *)
SoftLoad(t) ==
  /\ pc[t] = "SoftLoad"
  /\ Goto(t, CASE flag /\ mb[t] <= SoftRssLimitMb  -> "StoreFalse"
               [] ~flag /\ mb[t] > SoftRssLimitMb -> "StoreTrue"
               [] OTHER                          -> "Ret")
  /\ UNCHANGED <<windowOpen, flag, rss, maxRss, fresh, mb, dead>>

Store(t) ==
  /\ pc[t] \in {"StoreTrue", "StoreFalse"}
  /\ flag' = (pc[t] = "StoreTrue")
  /\ Goto(t, "Ret")
  /\ UNCHANGED <<windowOpen, rss, maxRss, fresh, mb, dead>>

(* return atomic_load_relaxed(&RssLimitExceeded); allocate then fails     *)
(* with OnOOM, which returns null or dies, or goes on allocating.          *)
Ret(t) ==
  /\ pc[t] = "Ret"
  /\ Goto(t, "Idle")
  /\ dead' = (flag /\ ~MayReturnNull)
  /\ UNCHANGED <<windowOpen, flag, rss, maxRss, fresh, mb>>

Step(t) ==
  Call(t) \/ Now(t) \/ Cas(t) \/ ReadRss(t) \/ SoftLoad(t) \/ Store(t) \/ Ret(t)

\* 100ms pass.
Tick ==
  /\ ~windowOpen /\ windowOpen' = TRUE
  /\ UNCHANGED <<flag, rss, maxRss, pc, fresh, mb, dead>>

\* The program's memory use changes.
ChangeRss ==
  /\ \E v \in RssValues \ {rss} :
       /\ rss' = v
       /\ maxRss' = IF v > maxRss THEN v ELSE maxRss
  /\ UNCHANGED <<windowOpen, flag, pc, fresh, mb, dead>>

Next ==
  /\ ~dead
  /\ \/ \E t \in Threads : Step(t)
     \/ Tick
     \/ ChangeRss

(* Time passes; threads keep allocating (each step of a call is taken);   *)
(* a weak CAS that could succeed does not fail spuriously forever.         *)
Fairness ==
  /\ WF_vars(~dead /\ Tick)
  /\ \A t \in Threads : WF_vars(~dead /\ Step(t)) /\ SF_vars(~dead /\ CasSucceeds(t))

Spec == Init /\ [][Next]_vars /\ Fairness

-----------------------------------------------------------------------------

\* The resident set size in megabytes, as the operating system knows it.
RealMb == rss \div MB

MaxMb == CHOOSE m \in {v \div MB : v \in RssValues} :
           \A v \in RssValues : v \div MB <= m

TypeOK ==
  /\ windowOpen \in BOOLEAN /\ flag \in BOOLEAN /\ dead \in BOOLEAN
  /\ rss \in RssValues /\ maxRss \in RssValues /\ rss <= maxRss
  /\ pc \in [Threads -> PCs]
  /\ fresh \in [Threads -> BOOLEAN]
  /\ mb \in [Threads -> 0..MaxMb]

(* The soft limit follows the RSS (spec: a sticky refusal flag cleared    *)
(* only once usage drops back below the threshold): if RSS settles at or  *)
(* below SoftRssLimitMb, RssLimitExceeded is eventually false for good,    *)
(* and if it settles above, the flag is eventually set for good (or the   *)
(* process dies).  This needs some thread to win the weak CAS in every    *)
(* window, and a refresher that read an old RSS and stores after a newer  *)
(* one (the load and store of the flag are separate) to be corrected by a *)
(* later refresh.                                                          *)
SoftFlagTracksRss ==
  /\ (<>[](RealMb <= SoftRssLimitMb) => <>[](~flag))
  /\ (<>[](RealMb > SoftRssLimitMb) => <>[](flag \/ dead))

(* An RSS that stays above HardRssLimitMb eventually kills the process     *)
(* (Die in isRssLimitExceeded), however the CAS races between threads go. *)
HardLimitKills ==
  <>[](RealMb > HardRssLimitMb) => <>dead

=============================================================================
