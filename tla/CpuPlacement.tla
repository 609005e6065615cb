---------------------------- MODULE CpuPlacement ----------------------------
(***************************************************************************)
(* Where the counting thread is put: how many CPUs there are for it, which *)
(* is the highest of them, and what pinning it there does.  Pure: a host   *)
(* is a record of what the operating system answers to a thread.           *)
(*                                                                         *)
(*   platform  "linux", "windows", or "other" that has no affinity to read *)
(*   online    the ranges of CPUs of sysfs, or Unreadable                  *)
(*   sysfs     whether the build asks for them                             *)
(*   sysconf   the number of CPUs sysconf(), or Windows, gives             *)
(*   affinity  the CPUs the thread may run on, a set of numbers; on        *)
(*             Windows bits of its processor group                         *)
(*   width     the bits of the kernel's CPU mask, or of a KAFFINITY        *)
(*   denied    whether the affinity, or the layout of the groups, cannot   *)
(*             be read at all                                              *)
(*   nomem     whether a set wider than a cpu_set_t cannot be allocated     *)
(*   pinnable  the CPUs the operating system lets it be pinned to; none on *)
(*             Windows, which is asked for the affinity instead            *)
(*   groups    the active processors of every group of Windows, a sequence *)
(*             of sets of bits: "a parked or disabled processor leaves a   *)
(*             gap"                                                        *)
(*   group     the group of the thread                                     *)
(***************************************************************************)
EXTENDS Integers, Sequences, FiniteSetsExt

CONSTANTS FixedBits,    \* the bits of a cpu_set_t
          SetMax,       \* JENT_NCPU_SET_MAX
          Unreadable

\* The sets jent_affinity_mask() tries: of the default size, then doubled "as
\* on a machine with more CPUs than CPU_SETSIZE".
SetSizes == {FixedBits * 2 ^ k : k \in 0 .. SetMax} \cap (1 .. SetMax)

\* The first set tried is a cpu_set_t, and the last has room for the last CPU
\* that can be named.
ASSUME PlacementAssumption ==
  FixedBits \in Nat \ {0} /\ SetMax \in Nat /\ {FixedBits, SetMax} \subseteq SetSizes

\* A negative errno.
Error == -1

\* What is asked of an affinity mask: how many CPUs, and the last of them.
NoMask == [count |-> 0, highest |-> Error]

-----------------------------------------------------------------------------
(* Linux *)

\* The sets there is memory for.
Allocated(h) == {size \in SetSizes : h.nomem => size <= FixedBits}

AffinityMask(h) ==
  IF h.denied \/ \A size \in Allocated(h) : size < h.width THEN NoMask
  ELSE [count |-> Cardinality(h.affinity),
        highest |-> IF h.affinity = {} THEN Error ELSE Max(h.affinity)]

\* jent_ncpu_parse_online(): no range, one that ends before it starts, or beyond
\* any CPU that can be pinned to, is no list.
ParseOnline(ranges) ==
  LET width(k) == ranges[k].end - ranges[k].start + 1
      parses(r) == 0 <= r.start /\ r.start <= r.end /\ r.end < SetMax
  IN  IF ranges # <<>> /\ \A k \in DOMAIN ranges : parses(ranges[k])
      THEN MapThenSumSet(width, DOMAIN ranges) ELSE Error

\* jent_ncpu_sysfs(): a file that cannot be read, or not to its end, is an error.
Sysfs(h) == IF h.online = Unreadable THEN Error ELSE ParseOnline(h.online)

-----------------------------------------------------------------------------
(* Windows: the flat numbering of the active processors of all groups *)

\* The active processors, each with its group and its bit.
Active(h) == UNION {{g} \X h.groups[g] : g \in 1 .. Len(h.groups)}

\* The flat number of the first CPU of a group: those of the groups before it.
Base(h, g) == Cardinality({place \in Active(h) : place[1] < g})

\* The position of a bit among the active processors of its group.  First, the
\* bit itself.
PositionOfBit(h, g, bit) == bit

Position(h, g, bit) == Cardinality({b \in h.groups[g] : b < bit})

\* jent_ncpu_thread_affinity()
ThreadAffinity(h) ==
  IF h.denied \/ h.group > Len(h.groups) THEN NoMask
  ELSE LET mask == h.affinity \cap h.groups[h.group]
       IN  [count |-> Cardinality(mask),
            highest |-> IF mask = {} THEN Error
                        ELSE Base(h, h.group) + Position(h, h.group, Max(mask))]

\* jent_cpu_to_group(): the group and the bit of a flat number, if there is one.
CpuToGroup(h, cpu) ==
  {place \in Active(h) :
     cpu - Base(h, place[1]) =
       Cardinality({x \in h.groups[place[1]] : x < place[2]})}

-----------------------------------------------------------------------------
(* The hosts *)

\* What an operating system may answer.  A thread runs somewhere.  Linux lets it
\* be pinned to any CPU it runs on, and Windows counts those among the active
\* processors of its group.
Consistent(h) ==
  /\ h.width \in Nat /\ h.sysconf \in Int /\ h.affinity # {} /\ h.pinnable \subseteq Nat
  /\ h.platform = "linux" => h.affinity \subseteq h.pinnable \cap (0 .. h.width - 1)
  /\ h.platform = "windows" =>
       /\ \A g \in 1 .. Len(h.groups) : h.groups[g] \subseteq 0 .. h.width - 1
       /\ h.group \in 1 .. Len(h.groups) /\ Len(h.groups) \in Nat
       /\ h.affinity \subseteq h.groups[h.group]
       /\ h.pinnable = {}

-----------------------------------------------------------------------------
(* The two questions, and the answer to them *)

\* What a thread can find out about its own affinity.
Mask(h) ==
  CASE h.platform = "linux"   -> AffinityMask(h)
    [] h.platform = "windows" -> ThreadAffinity(h)
    [] h.platform = "other"   -> NoMask

\* jent_ncpu(): the first source that names a CPU.
Ncpu(h) ==
  IF Mask(h).count > 0 THEN Mask(h).count
  ELSE IF h.platform = "linux" /\ h.sysfs /\ Sysfs(h) > 0 THEN Sysfs(h)
  ELSE IF h.sysconf > 0 THEN h.sysconf ELSE Error

\* jent_cpu_highest(): without a mask "the CPU numbers are taken to be the dense
\* range" of the count.
CpuHighest(h) ==
  IF Mask(h).highest >= 0 THEN Mask(h).highest
  ELSE IF Ncpu(h) = Error THEN Error ELSE Ncpu(h) - 1

\* The CPUs a thread that was not pinned may run on.
Inherited(h) ==
  IF h.platform = "windows" THEN {h.group} \X h.affinity ELSE h.affinity

\* The CPUs a set can be made for.
Nameable(h) == IF h.nomem THEN FixedBits ELSE SetMax

\* jent_thread_pin_to_cpu(): the CPUs it may run on afterwards, the same as
\* before if the pinning is refused.
Pinned(h, cpu) ==
  LET places == IF h.platform = "windows"
                THEN IF h.denied THEN {} ELSE CpuToGroup(h, cpu) \cap Inherited(h)
                ELSE {cpu} \cap h.pinnable \cap (0 .. Nameable(h) - 1)
  IN  IF places = {} THEN Inherited(h) ELSE places
=============================================================================
