-------------------------- MODULE CollectorMemory --------------------------
(***************************************************************************)
(* The memory of collectors that several threads allocate, use and free.   *)
(*                                                                         *)
(* The size of a collector's memory access region comes from its flags or, *)
(* where they leave it open, from the caches of the machine; the answer of *)
(* the discovery is kept for the process, without a lock.  The state of a  *)
(* collector is allocated with the extras of the platform - its pages are  *)
(* locked, or come from a secure arena - which the platform may refuse;    *)
(* the region never is.  What is measured in the region is the walk of     *)
(* jent_memaccess_deterministic().                                         *)
(***************************************************************************)
EXTENDS CacheDiscovery

CONSTANTS Thread, Machine, Core,
          MemsizeOffset,      \* JENT_MAX_MEMSIZE_OFFSET
          DefaultBits,        \* JENT_DEFAULT_MEMORY_BITS
          MaxField,           \* the field of JENT_MAX_MEMSIZE_MAX
          MaxAuto,            \* JENT_MAX_AUTO_MEMSIZE
          Ask,                \* the flags an allocation is called with
          Page, StateLen,     \* the page size, sizeof(struct rand_data)
          ExtrasLimit,        \* collectors that can have the extras at a time
          BlockSize,          \* JENT_MEMORY_BLOCKSIZE
          MemLoops,           \* ec->memaccessloops
          LoopInit,           \* JENT_MEM_ACC_LOOP_INIT
          LoopCount,          \* the loop_cnt a measurement is called with
          MaxWalks            \* bound: walks of one collector

ASSUME MemoryAssumption ==
  /\ {MemsizeOffset, DefaultBits, MaxField, MaxAuto, StateLen} \subseteq Nat
  /\ {MemLoops, LoopInit} \cup LoopCount \subseteq Nat
  /\ MemsizeOffset <= DefaultBits
  /\ MaxAuto <= MaxField /\ MaxAuto + MemsizeOffset < SizeWidth
  /\ Page \in Nat \ {0}
  /\ BlockSize \in Nat \ {0} /\ BlockSize % 2 = 0
  /\ Ask # {} /\ Ask \subseteq [all_caches : BOOLEAN, field : Nat,
                               force : BOOLEAN, memaccess : BOOLEAN]

VARIABLES machine,
          cached,             \* cached[all_caches]: exponents, 0 for none
          cached_valid,
          pc,
          ask,                \* flags: all_caches, field, force, memaccess
          found,              \* what the thread's own discovery has found
          extras,             \* the state has the extras
          mapped,             \* pages mapped for a thread's state and region
          mem,                \* ec->mem is not NULL
          memmask, memlocation,
          hits,               \* history: accesses of every location
          walks,              \* history: number of walks, up to the bound
          discovered          \* history: what was discovered, on which core

memo_vars == <<cached, cached_valid>>
ec_vars == <<extras, mapped, mem, memmask, memlocation, hits, walks>>
memory_vars == <<machine, memo_vars, pc, ask, found, ec_vars, discovered>>

-----------------------------------------------------------------------------
(* Sizes *)

\* jent_update_memsize(): the field for a size of 2^bits, or for none.
\* JENT_CACHE_SHIFT_BITS is 0.
AutoField(bits, all_caches) ==
  LET max == IF bits = 0 THEN DefaultBits
             ELSE IF all_caches THEN bits ELSE bits + 2
  IN  Min({Largest({max - MemsizeOffset}), MaxAuto, MaxField})

\* jent_memsize()
Memsize(field) ==
  IF field = 0 THEN Power(DefaultBits) ELSE Power(Min({field, MaxField}) + MemsizeOffset)

\* The pages jent_zalloc_common() maps for len bytes: the payload and a guard
\* page on either side.
Total(len) == (len + Page - 1) \div Page + 2

Holding(t) == pc[t] \notin {"idle", "state"}

-----------------------------------------------------------------------------
(* Allocation, up to the state *)

MemoryInit ==
  /\ machine \in Machine
  /\ cached = [all \in BOOLEAN |-> 0]
  /\ cached_valid = FALSE
  /\ pc = [t \in Thread |-> "idle"]
  /\ ask \in [Thread -> {CHOOSE a \in Ask : TRUE}]
  /\ found = [t \in Thread |-> NoSizes]
  /\ extras = [t \in Thread |-> FALSE]
  /\ mapped = [t \in Thread |-> [state |-> 0, mem |-> 0]]
  /\ mem = [t \in Thread |-> FALSE]
  /\ memmask = [t \in Thread |-> 0]
  /\ memlocation = [t \in Thread |-> 0]
  /\ hits = [t \in Thread |-> <<>>]
  /\ walks = [t \in Thread |-> 0]
  /\ discovered = {}

\* jent_entropy_collector_alloc_internal() of thread t, past its checks.
AllocCall(t, a) ==
  /\ pc[t] = "idle"
  /\ pc' = [pc EXCEPT ![t] = "state"]
  /\ ask' = [ask EXCEPT ![t] = a]
  /\ UNCHANGED <<machine, memo_vars, found, ec_vars, discovered>>

\* The answers of mlock(), VirtualLock() or the arena: it has room for the
\* state or not, it may refuse all the same, and mlock() may fail with an error
\* that is no refusal.
Answers(t) ==
  {"refused", "error"} \cup
  IF Cardinality({u \in Thread : extras[u]}) < ExtrasLimit THEN {"granted"} ELSE {}

\* Whether jent_zalloc_common() gives the memory back over an answer.
FailsOn(answer, force) ==
  \/ answer = "error"
  \/ answer = "refused" /\ force

\* What a failed allocation leaves of the pages it had mapped.  First, one that
\* returns without giving them back.
StillMapped(len) == Total(len)

GivenBack(len) == 0

\* jent_zalloc() of the state.  A machine whose extras cannot be refused has
\* none to ask for.
StateAllocated(t, answer) ==
  /\ pc[t] = "state"
  /\ machine.refusable => ~FailsOn(answer, ask[t].force)
  /\ mapped' = [mapped EXCEPT ![t].state = Total(StateLen)]
  /\ extras' = [extras EXCEPT ![t] = machine.refusable /\ answer = "granted"]
  /\ pc' = [pc EXCEPT ![t] =
       IF ~ask[t].memaccess THEN "rest"
       ELSE IF ask[t].field = 0 THEN "load_valid" ELSE "mem"]
  /\ UNCHANGED <<machine, memo_vars, ask, found, mem, memmask, memlocation,
                 hits, walks, discovered>>

StateRefused(t, answer) ==
  /\ pc[t] = "state"
  /\ machine.refusable /\ FailsOn(answer, ask[t].force)
  /\ mapped' = [mapped EXCEPT ![t].state = GivenBack(StateLen)]
  /\ pc' = [pc EXCEPT ![t] = "idle"]
  /\ UNCHANGED <<machine, memo_vars, ask, found, extras, mem, memmask,
                 memlocation, hits, walks, discovered>>

\* mmap() or malloc() has no memory, or mprotect() fails for a guard page and
\* what was mapped is given back.
StateFails(t) ==
  /\ pc[t] = "state"
  /\ mapped' = [mapped EXCEPT ![t].state = GivenBack(StateLen)]
  /\ pc' = [pc EXCEPT ![t] = "idle"]
  /\ UNCHANGED <<machine, memo_vars, ask, found, extras, mem, memmask,
                 memlocation, hits, walks, discovered>>

-----------------------------------------------------------------------------
(* jent_cache_size_roundup(): the discovery and its memo *)

LoadValid(t) ==
  /\ pc[t] = "load_valid"
  /\ pc' = [pc EXCEPT ![t] = IF cached_valid THEN "load" ELSE "discover"]
  /\ UNCHANGED <<machine, memo_vars, ask, found, ec_vars, discovered>>

\* The order of the stores after a discovery.  First, one that publishes before
\* it has stored.
ValidFirst ==
  [discover |-> "store_valid", store_valid |-> "store_l1",
   store_l1 |-> "store_all", store_all |-> "load"]

StoreOrder ==
  [discover |-> "store_l1", store_l1 |-> "store_all",
   store_all |-> "store_valid", store_valid |-> "load"]

\* The thread runs on any core.
Discover(t, core) ==
  /\ pc[t] = "discover"
  /\ found' = [found EXCEPT ![t] = Uncached(machine, core)]
  /\ discovered' = discovered \cup {[core |-> core, sizes |-> found'[t]]}
  /\ pc' = [pc EXCEPT ![t] = StoreOrder["discover"]]
  /\ UNCHANGED <<machine, memo_vars, ask, ec_vars>>

Store(t) ==
  /\ pc[t] \in {"store_l1", "store_all"}
  /\ LET all == pc[t] = "store_all"
     IN  cached' = [cached EXCEPT ![all] =
                      SizeBits(RoundupFromSizes(found[t], all))]
  /\ pc' = [pc EXCEPT ![t] = StoreOrder[pc[t]]]
  /\ UNCHANGED <<machine, cached_valid, ask, found, ec_vars, discovered>>

StoreValid(t) ==
  /\ pc[t] = "store_valid"
  /\ cached_valid' = TRUE
  /\ pc' = [pc EXCEPT ![t] = StoreOrder[pc[t]]]
  /\ UNCHANGED <<machine, cached, ask, found, ec_vars, discovered>>

\* The load, and jent_update_memsize() around it: the thread goes on with the
\* field it has derived.
Load(t) ==
  /\ pc[t] = "load"
  /\ memmask' = [memmask EXCEPT ![t] =
       Memsize(AutoField(cached[ask[t].all_caches], ask[t].all_caches)) - 1]
  /\ found' = [found EXCEPT ![t] = NoSizes]
  /\ pc' = [pc EXCEPT ![t] = "mem"]
  /\ UNCHANGED <<machine, memo_vars, ask, extras, mapped, mem, memlocation,
                 hits, walks, discovered>>

-----------------------------------------------------------------------------
(* Allocation, from the region on *)

\* The size of the region a thread is about to allocate.
RegionSize(t) == IF ask[t].field = 0 THEN memmask[t] + 1 ELSE Memsize(ask[t].field)

\* jent_zalloc_unlocked() of the region.
MemAllocated(t) ==
  /\ pc[t] = "mem"
  /\ mem' = [mem EXCEPT ![t] = TRUE]
  /\ mapped' = [mapped EXCEPT ![t].mem = Total(RegionSize(t))]
  /\ memmask' = [memmask EXCEPT ![t] = RegionSize(t) - 1]
  /\ hits' = [hits EXCEPT ![t] = [i \in 0 .. RegionSize(t) - 1 |-> 0]]
  /\ pc' = [pc EXCEPT ![t] = "rest"]
  /\ UNCHANGED <<machine, memo_vars, ask, found, extras, memlocation, walks,
                 discovered>>

\* jent_zalloc_unlocked() fails as jent_zalloc() does: ec->mem stays NULL.
MemFails(t) ==
  /\ pc[t] = "mem"
  /\ mapped' = [mapped EXCEPT ![t].mem = GivenBack(RegionSize(t))]
  /\ pc' = [pc EXCEPT ![t] = "failed"]
  /\ UNCHANGED <<machine, memo_vars, ask, found, extras, mem, memmask,
                 memlocation, hits, walks, discovered>>

\* jent_entropy_collector_free(): jent_zfree() unmaps what the length it is
\* given comes to, with the guard pages, and the extras go with the mapping.
Freed(t) ==
  /\ mapped' = [mapped EXCEPT
       ![t] = [state |-> @.state - Total(StateLen),
               mem   |-> IF mem[t] THEN @.mem - Total(memmask[t] + 1) ELSE @.mem]]
  /\ extras' = [extras EXCEPT ![t] = FALSE]
  /\ mem' = [mem EXCEPT ![t] = FALSE]
  /\ memmask' = [memmask EXCEPT ![t] = 0]
  /\ memlocation' = [memlocation EXCEPT ![t] = 0]
  /\ hits' = [hits EXCEPT ![t] = <<>>]
  /\ walks' = [walks EXCEPT ![t] = 0]
  /\ pc' = [pc EXCEPT ![t] = "idle"]
  /\ UNCHANGED <<machine, memo_vars, ask, found, discovered>>

\* No memory for the region, a health test that cannot be initialized, no
\* counting thread, no divisor: the error path frees what there is.
AllocFails(t) == pc[t] \in {"failed", "rest"} /\ Freed(t)

AllocDone(t) ==
  /\ pc[t] = "rest"
  /\ pc' = [pc EXCEPT ![t] = "live"]
  /\ UNCHANGED <<machine, memo_vars, ask, found, ec_vars, discovered>>

Free(t) == pc[t] = "live" /\ Freed(t)

-----------------------------------------------------------------------------
(* jent_memaccess_deterministic() *)

\* What is added to the location.  First, a whole block.
StrideBlock == BlockSize

Stride == BlockSize - 1

\* mem_loop_cnt of a measurement, or of one in the startup stage of the memory
\* access, which makes "tripple the default iteration count": "allow caller to
\* set the counter".
Loops(loop_cnt, startup) ==
  IF loop_cnt # 0 THEN loop_cnt
  ELSE IF startup THEN MemLoops * LoopInit ELSE MemLoops

Walk(t, loops) ==
  LET wrap == memmask[t] + 1
      at(i) == (memlocation[t] + i * Stride) % wrap
  IN  /\ pc[t] = "live" /\ mem[t] /\ walks[t] < MaxWalks
      /\ walks' = [walks EXCEPT ![t] = @ + 1]
      /\ memlocation' = [memlocation EXCEPT ![t] = at(loops)]
      /\ hits' = [hits EXCEPT ![t] =
           [l \in DOMAIN @ |->
              @[l] + Cardinality({i \in 0 .. loops - 1 : at(i) = l})]]
      /\ UNCHANGED <<machine, memo_vars, pc, ask, found, extras, mapped, mem,
                     memmask, discovered>>

-----------------------------------------------------------------------------

MemoryNext ==
  \E t \in Thread :
    \/ \E a \in Ask : AllocCall(t, a)
    \/ \E answer \in Answers(t) : StateAllocated(t, answer)
    \/ \E answer \in Answers(t) : StateRefused(t, answer)
    \/ StateFails(t)
    \/ LoadValid(t)
    \/ \E core \in Core : Discover(t, core)
    \/ Store(t)
    \/ StoreValid(t)
    \/ Load(t)
    \/ MemAllocated(t)
    \/ MemFails(t)
    \/ AllocFails(t)
    \/ AllocDone(t)
    \/ \E loop_cnt \in LoopCount, startup \in BOOLEAN :
         Walk(t, Loops(loop_cnt, startup))
    \/ Free(t)

MemorySpec == MemoryInit /\ [][MemoryNext]_memory_vars

-----------------------------------------------------------------------------
(* The machines *)

\* A data cache of a level.
DataCache(c, l) ==
  IsData(c) /\ c.level = l /\ c.size > 0 /\ (l = 1 => c.type = "data")

\* What the interfaces of a machine answer.
CacheRecord ==
  [type : {"data", "instruction", "unified", "none"}, level : Nat, size : Nat]

Described(m) ==
  /\ m.build \in {"linux", "kernel", "apple", "windows", "bsd", "aix"}
  /\ m.sysfs \in Seq(Seq(CacheRecord) \cup {Absent})
  /\ m.conf \in Int /\ m.sysconf \in [Level -> Int]
  /\ {m.leaf4, m.leaf_ext, m.clidr} \subseteq [Core -> Seq(CacheRecord)]
  /\ m.cpuinfo \in Seq([key : STRING, value : Nat])
  /\ {m.sysctl.perflevel0, m.sysctl.flat} \subseteq [Level -> Nat]
  /\ m.records \in Seq([relation : STRING, cache : CacheRecord] \cup {Malformed})
  /\ m.sysconfig \in [1 .. 2 -> Int]

\* A machine lists its caches the way the library reads them: the data caches
\* are among the indices and subleaves it asks for ...
InReach(caches) ==
  \A i \in DOMAIN caches : \A l \in Level : DataCache(caches[i], l) => i <= MaxIndex

\* ... a core has one of a level ...
OneOfLevel(caches) ==
  \A i, j \in DOMAIN caches : \A l \in Level :
    DataCache(caches[i], l) /\ DataCache(caches[j], l) => i = j

\* ... and an arm64 core its levels in order, with none past the last.
InOrder(levels) ==
  \A l \in DOMAIN levels :
    /\ levels[l].level = l
    /\ IsData(levels[l]) => \A k \in 1 .. l : levels[k].type # "none"

ASSUME MachineAssumption ==
  /\ IsFiniteSet(Core)
  /\ \A parts \in DOMAIN ArmCores : ArmCores[parts] \in [Level -> Nat]
  /\ \A m \in Machine :
       /\ Described(m)
       /\ m.conf <= MaxCpus
       /\ \A c \in DOMAIN m.sysfs : m.sysfs[c] # Absent => InReach(m.sysfs[c])
       /\ \A core \in Core :
            /\ InReach(m.leaf4[core]) /\ InReach(m.leaf_ext[core])
            /\ OneOfLevel(m.leaf4[core]) /\ OneOfLevel(m.leaf_ext[core])
            /\ InOrder(m.clidr[core])

-----------------------------------------------------------------------------
(* Properties *)

\* The sizes of the data caches of a level a sequence of caches names.
Named(caches, l) == {c.size : c \in {d \in Range(caches) : DataCache(d, l)}}

\* The sizes CPUID names for a level on a core: AMD's leaf counts where Intel's
\* lists no data cache at all.
LeafNames(m, core, l) ==
  IF \E k \in Level : Named(m.leaf4[core], k) # {} THEN Named(m.leaf4[core], l)
                                                  ELSE Named(m.leaf_ext[core], l)

\* The sizes of the caches of a level that a core names itself.
CoreNames(m, core, l) ==
  IF m.arch = "arm" THEN {size \in Named(m.clidr[core], l) : size >= Arm64Min}
                    ELSE LeafNames(m, core, l)

\* The sizes the table has for the parts /proc/cpuinfo lists, each of the
\* implementer that its own block of lines gives.
InBlockOf(lines, i, j) ==
  /\ i < j /\ lines[i].key = "implementer"
  /\ \A k \in i + 1 .. j : lines[k].key \notin {"processor", "implementer"}

PartNames(lines, l) ==
  LET listed == {part \in DOMAIN ArmCores :
                   \E i, j \in DOMAIN lines :
                     InBlockOf(lines, i, j) /\ part = <<lines[i].value, lines[j].value>>}
  IN  {ArmCores[part][l] : part \in listed}

\* What jent_get_cachesize_uncached() finds covers the caches of the machine: it
\* is no smaller than any cache a configured CPU shows in sysfs or, to the
\* kernel, itself, than any Windows describes and than those of the performance
\* cores of macOS - whichever core of a hybrid part it is.  It names a level if
\* any of the sources of the build does, the last one of Linux (the parts that
\* /proc/cpuinfo lists on Arm, CPUID on x86) and either leaf of CPUID included,
\* and where the others are silent that last source is covered too.
Covers(m, core, s) ==
  \A l \in Level :
    LET shown == UNION {Named(m.sysfs[c], l) :
                          c \in {k \in 1 .. Min({m.conf, Len(m.sysfs)}) :
                                 m.sysfs[k] # Absent}}
        last  == IF m.arch = "arm" THEN PartNames(m.cpuinfo, l)
                                   ELSE LeafNames(m, core, l)
    IN  CASE m.build = "kernel" ->
               \A c \in Core : \A size \in CoreNames(m, c, l) : s[l] >= size
          [] m.build = "linux" ->
               /\ \A size \in shown : s[l] >= size
               /\ (\E size \in shown \cup {m.sysconf[l]} \cup last : size > 0) => s[l] > 0
               /\ Sysfs(m)[l] = 0 /\ m.sysconf[l] <= 0 => \A size \in last : s[l] >= size
          [] m.build = "apple" ->
               /\ s[l] >= m.sysctl.perflevel0[l]
               /\ m.sysctl.flat[l] > 0 => s[l] > 0
          [] m.build = "windows" ->
               \A c \in Records(m) : c.size \in Named(<<c>>, l) => s[l] >= c.size
          [] m.build = "bsd" -> \A size \in LeafNames(m, core, l) : s[l] >= size
          [] m.build = "aix" -> l < 3 => s[l] >= m.sysconfig[l]

\* A region that jent_update_memsize() sizes "a bit more memory than we have as
\* data cache", of the L1 alone four times as much, and at most twice that -
\* unless it is the default or the bound.
Exceeds(size, s, all_caches) ==
  LET sum == IF all_caches THEN s[1] + s[2] + s[3] ELSE 4 * s[1]
  IN  \/ size = Memsize(MaxAuto)
      \/ size = Power(DefaultBits) /\ (sum = 0 \/ size > sum)
      \/ sum > 0 /\ size > sum /\ size <= 2 * sum

\* Whoever discovers and whoever reads the memo of jent_cache_size_roundup()
\* meanwhile, every region of automatic size exceeds the caches that a
\* discovery has found, and a discovery finds what the machine shows.
RegionExceedsCaches ==
  /\ \A d \in discovered : Covers(machine, d.core, d.sizes)
  /\ \A t \in Thread :
       mem[t] /\ ask[t].field = 0 =>
         \E d \in discovered :
           Exceeds(memmask[t] + 1, d.sizes, ask[t].all_caches)

\* Every page is accounted for on every path of
\* jent_entropy_collector_alloc_internal(): what is mapped is the state and the
\* region of the collectors there are, to the page; nobody but them holds the
\* extras; and a collector that demanded them has them as long as it lives.
MemoryAccounted ==
  \A t \in Thread :
    /\ mapped[t].state = IF Holding(t) THEN Total(StateLen) ELSE 0
    /\ mapped[t].mem = IF mem[t] THEN Total(RegionSize(t)) ELSE 0
    /\ mem[t] => Holding(t)
    /\ extras[t] => Holding(t)
    /\ Holding(t) /\ ask[t].force /\ machine.refusable => extras[t]

\* "ensure that every memory location is hit evenly": the walk of
\* jent_memaccess_deterministic() never comes back to a location before it has
\* been to all of them, wherever the loop of one measurement ends.
HitEvenly ==
  \A t \in Thread :
    \A k, l \in DOMAIN hits[t] : hits[t][k] <= hits[t][l] + 1
=============================================================================
