--------------------------- MODULE CacheDiscovery ---------------------------
(***************************************************************************)
(* What the library finds out about the data caches of a machine, and the  *)
(* size it derives from them.  Pure: no state of the library is involved.  *)
(*                                                                         *)
(* A machine is a record of what its interfaces answer:                    *)
(*   sysfs    the CPU directories, each a sequence of cache indices, or    *)
(*            Absent where the CPU has no directory                        *)
(*   conf     the number of CPUs sysconf() says are configured             *)
(*   sysconf  the sizes sysconf() gives for the three levels               *)
(*   leaf4, leaf_ext   the subleaves CPUID enumerates on every core        *)
(*   clidr    the levels of an arm64 core as its cache ID registers give   *)
(*            them                                                         *)
(*   cpuinfo  the lines of /proc/cpuinfo on Arm                            *)
(*   sysctl   the sizes the sysctls of macOS give, of the performance      *)
(*            cores and of any                                             *)
(*   records  the records Windows describes its processors with; one of    *)
(*            an impossible size is Malformed                              *)
(*   sysconfig   the L1 and L2 of the system configuration of AIX          *)
(*   build, arch   the backend, and the architecture it is built for       *)
(* A cache is a record of its type, its level and its size; a level or a   *)
(* size of 0 is an attribute that cannot be read or does not parse.        *)
(***************************************************************************)
EXTENDS Integers, Sequences, FiniteSets, FiniteSetsExt

CONSTANTS SizeWidth,  \* bits of a size: 64
          MaxCpus,    \* JENT_NCPU_SET_MAX
          MaxIndex,   \* the 16 indices, and the 16 subleaves, that are asked
          Absent,     \* no directory
          Malformed,  \* a record whose size is impossible
          Arm64Min,   \* JENT_CACHE_ARM64_MIN
          ArmCores    \* jent_arm_core_caches[]: the sizes of an implementer's
                      \* part, a function of the pairs it knows

ASSUME DiscoveryAssumption ==
  /\ SizeWidth \in 2 .. 64 /\ MaxCpus \in Nat \ {0} /\ MaxIndex \in Nat

Level == 1 .. 3

NoSizes == [l \in Level |-> 0]

Largest(sizes) == Max(sizes \cup {0})

-----------------------------------------------------------------------------
(* From sizes to the working set *)

\* (uint64_t)1 << n, a doubling at a time.
Power(n) ==
  LET power[k \in 0 .. n] == IF k = 0 THEN 1 ELSE 2 * power[k - 1]
  IN  power[n]

AllOnes == Power(SizeWidth) - 1

\* jent_cache_size_add(): "a garbage level must not wrap the sum into a small
\* one".
SizeAdd(sum, size) == IF size > AllOnes - sum THEN AllOnes ELSE sum + size

\* The sum of what was discovered, over the L1 alone or over all levels.
SizeSum(s, all_caches) ==
  IF all_caches THEN SizeAdd(SizeAdd(s[1], s[2]), s[3]) ELSE s[1]

\* A size as the set of its bits, and back.
Bits(size) == {b \in 0 .. SizeWidth - 1 : (size \div Power(b)) % 2 = 1}

Value(bits) ==
  LET value[b \in 0 .. SizeWidth] ==
        IF b = 0 THEN 0
        ELSE value[b - 1] + IF b - 1 \in bits THEN Power(b - 1) ELSE 0
  IN  value[SizeWidth]

\* sum |= (sum >> k)
OrShifted(bits, k) == bits \cup {b - k : b \in {c \in bits : c >= k}}

\* The cascade of jent_cache_roundup_from_sizes(): "Force the sum to be of the
\* form (bounding_power_of_2 - 1)".
Smeared(sum) ==
  LET byte == OrShifted(OrShifted(OrShifted(Bits(sum), 1), 2), 4)
  IN  Value(OrShifted(OrShifted(OrShifted(byte, 8), 16), 32))

\* jent_cache_roundup_from_sizes()
RoundupFromSizes(s, all_caches) ==
  LET sum == SizeSum(s, all_caches)
  IN  IF sum = 0 THEN 0
      ELSE IF sum >= Power(SizeWidth - 1) THEN Power(SizeWidth - 1)
      ELSE Smeared(sum) + 1

\* jent_cache_size_bits(), jent_log2_simple(): how often the size can be halved.
SizeBits(size) == Cardinality({b \in 1 .. SizeWidth - 1 : size >= Power(b)})

-----------------------------------------------------------------------------
(* The sources *)

\* jent_cache_type_is_data()
IsData(cache) == cache.type \in {"data", "unified"}

\* jent_get_cachesize_sysfs_dir(): the configured CPUs, and those past them as
\* long as there are directories.
Walked(m) ==
  LET conf == IF m.conf <= 0 THEN 1 ELSE Min({m.conf, MaxCpus})
      there(c) == c <= Len(m.sysfs) /\ m.sysfs[c] # Absent
  IN  {c \in 1 .. MaxCpus :
         \/ c <= conf /\ there(c)
         \/ c > conf /\ \A k \in conf + 1 .. c : there(k)}

\* The caches the walk reads: an instruction cache, an index whose level or
\* size does not parse and an L4 are passed over.
Read(m) ==
  {cache \in UNION {{m.sysfs[c][i] : i \in 1 .. Min({MaxIndex, Len(m.sysfs[c])})}
                      : c \in Walked(m)} :
     IsData(cache) /\ cache.level \in Level /\ cache.size > 0}

Sysfs(m) ==
  [l \in Level |-> Largest({cache.size : cache \in {c \in Read(m) : c.level = l}})]

\* jent_get_cachesize_sysconf(): a negative answer is none.
Sysconf(m) == [l \in Level |-> Largest({m.sysconf[l]})]

\* jent_cache_sizes_cpuid_leaf(): the first cache of a level.  An L1 has to be a
\* data cache; a set count of all ones, here a size of 0, is dropped.
CpuidLeaf(subleaves) ==
  LET counts(l, c) == /\ c.level = l /\ c.size > 0
                      /\ IsData(c) /\ (l = 1 => c.type = "data")
      of(l) == {k \in 1 .. Min({MaxIndex, Len(subleaves)}) : counts(l, subleaves[k])}
  IN  [l \in Level |-> IF of(l) = {} THEN 0 ELSE subleaves[Min(of(l))].size]

\* jent_cache_sizes_cpuid() on one core: Intel's leaf, or the one of AMD where
\* that is empty.
Cpuid(m, core) ==
  IF CpuidLeaf(m.leaf4[core]) # NoSizes THEN CpuidLeaf(m.leaf4[core])
                                         ELSE CpuidLeaf(m.leaf_ext[core])

\* jent_cache_sizes_arm64() on one core: a size below the minimum is "not a
\* cache, but a maintenance loop bound".
Arm64(levels) ==
  [l \in Level |->
     IF /\ l <= Len(levels) /\ IsData(levels[l])
        /\ \A k \in 1 .. l : levels[k].type # "none"
        /\ levels[l].size >= Arm64Min
     THEN levels[l].size ELSE 0]

\* jent_cache_sizes_merge(): "Raise each level to what a later source found,
\* never lowering one".
Merge(s, later) == [l \in Level |-> Largest({s[l], later[l]})]

\* jent_cpuinfo_arm_line(), over the file: the implementer of one CPU's block
\* is forgotten at the next.
Cpuinfo(lines) ==
  LET line(acc, n) ==
        IF n.key = "processor" THEN [acc EXCEPT !.implementer = Absent]
        ELSE IF n.key = "implementer" THEN [acc EXCEPT !.implementer = n.value]
        ELSE IF <<acc.implementer, n.value>> \in DOMAIN ArmCores
          THEN [acc EXCEPT !.sizes =
                  Merge(acc.sizes, ArmCores[<<acc.implementer, n.value>>])]
          ELSE acc
      file[n \in 0 .. Len(lines)] ==
        IF n = 0 THEN [implementer |-> Absent, sizes |-> NoSizes]
                 ELSE line(file[n - 1], lines[n])
  IN  file[Len(lines)].sizes

-----------------------------------------------------------------------------
(* The discovery *)

\* The first of the names of jent_sysctl_cachesize() that resolves to a size.
Sysctl(m) ==
  [l \in Level |-> IF m.sysctl.perflevel0[l] # 0 THEN m.sysctl.perflevel0[l]
                                                ELSE m.sysctl.flat[l]]

\* The caches among the records of Windows: of the relation asked for, up to
\* the first whose size "would make the walk spin or read past the buffer".
Records(m) ==
  LET good == {k \in DOMAIN m.records : \A n \in 1 .. k : m.records[n] # Malformed}
  IN  {m.records[k].cache : k \in {n \in good : m.records[n].relation = "cache"}}

\* "Keep the largest of each level rather than whatever happens to be
\* enumerated last"; an L1 has to be a data cache.
Windows(m) ==
  LET counts(l, c) == c.level = l /\ IsData(c) /\ (l = 1 => c.type = "data")
  IN  [l \in Level |-> Largest({c.size : c \in {r \in Records(m) : counts(l, r)}})]

\* "a negative one is no size", and there is no L3.
Aix(m) ==
  [l \in Level |-> IF l = 3 THEN 0 ELSE Largest({m.sysconfig[l]})]

\* What a thread on a core asks last.
LastSource(m, core) == IF m.arch = "arm" THEN Cpuinfo(m.cpuinfo) ELSE Cpuid(m, core)

\* Whether no level is left to ask for: "Asked per level".
Complete(s) == \A l \in Level : s[l] # 0

\* The levels still unknown are taken from the last source, the others kept.
Completed(s, last) == [l \in Level |-> IF s[l] = 0 THEN last[l] ELSE s[l]]

\* jent_get_cachesize_uncached() of Linux, by a thread that runs on core.
UncachedUser(m, core) ==
  LET sysfs  == Sysfs(m)
      merged == IF Complete(sysfs) THEN sysfs ELSE Merge(sysfs, Sysconf(m))
  IN  IF Complete(merged) THEN merged ELSE Completed(merged, LastSource(m, core))

\* jent_cache_sizes_worker(), run on core by an interrupt.
Worker(m, core) ==
  IF m.arch = "arm" THEN Arm64(m.clidr[core]) ELSE Cpuid(m, core)

\* jent_get_cachesize_uncached() of the Linux kernel: the largest of every
\* online CPU.
UncachedKernel(m) ==
  [l \in Level |-> Largest({Worker(m, c)[l] : c \in DOMAIN m.leaf4})]

\* The backend of the build.  The BSDs ask the core the thread is on.
Uncached(m, core) ==
  CASE m.build = "linux"   -> UncachedUser(m, core)
    [] m.build = "kernel"  -> UncachedKernel(m)
    [] m.build = "apple"   -> Sysctl(m)
    [] m.build = "windows" -> Windows(m)
    [] m.build = "bsd"     -> Cpuid(m, core)
    [] m.build = "aix"     -> Aix(m)
=============================================================================
