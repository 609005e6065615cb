------------------------- MODULE MCCollectorMemory -------------------------
(***************************************************************************)
(* Two threads on machines that show their caches in different ways.       *)
(***************************************************************************)
EXTENDS CollectorMemory, TLC

C(type, level, size) == [type |-> type, level |-> level, size |-> size]
R(relation, cache) == [relation |-> relation, cache |-> cache]

\* A performance and an efficiency core, what a container leaves of them, and
\* a core that names caches no machine has.
BigCore == <<C("data", 1, 3), C("instruction", 1, 9), C("unified", 2, 4),
             C("unified", 3, 5), C("unified", 4, 30)>>
SmallCore == <<C("data", 1, 1), C("instruction", 1, 9), C("unified", 2, 2),
               C("unified", 3, 5)>>
L1Only == <<C("data", 1, 1), C("unified", 2, 0), C("unified", 0, 7)>>
Garbage == <<C("data", 1, 3), C("unified", 2, 200), C("unified", 3, 60)>>

Hybrid ==
  [sysfs |-> <<SmallCore, BigCore>>, conf |-> 2, sysconf |-> <<1, 2, 5>>,
   leaf4 |-> [p |-> BigCore, e |-> SmallCore],
   leaf_ext |-> [p |-> <<>>, e |-> <<>>],
   clidr |-> [p |-> <<C("data", 1, 3), C("unified", 2, 1), C("unified", 3, 5)>>,
              e |-> <<C("data", 1, 2), C("none", 2, 0)>>],
   cpuinfo |-> <<>>,
   sysctl |-> [perflevel0 |-> <<3, 4, 0>>, flat |-> <<1, 2, 0>>],
   records |-> << R("cache", C("data", 1, 3)), R("cache", C("instruction", 1, 9)),
                  R("group", C("unified", 2, 30)), R("cache", C("unified", 2, 4)),
                  R("cache", C("data", 1, 1)), R("cache", C("unified", 2, 2)),
                  Malformed, R("cache", C("unified", 3, 60)) >>,
   sysconfig |-> <<2, -1>>,
   arch |-> "x86", build |-> "linux", refusable |-> TRUE]

MCMachine ==
  { Hybrid,
    \* only the directory of an efficiency core is configured, the other exists
    [Hybrid EXCEPT !.conf = 1, !.refusable = FALSE],
    \* sysfs is hidden, so the core decides
    [Hybrid EXCEPT !.sysfs = <<Absent, Absent>>, !.sysconf = <<-1, -1, -1>>],
    \* sysfs names the L1 alone, sysconf() the L2
    [Hybrid EXCEPT !.sysfs = <<L1Only>>, !.sysconf = <<0, 4, 0>>,
                   !.leaf_ext = Hybrid.leaf4,
                   !.leaf4 = [p |-> <<>>, e |-> <<>>]],
    \* an Arm phone
    [Hybrid EXCEPT !.sysfs = <<L1Only, <<>> >>, !.sysconf = <<0, 0, 0>>,
                   !.arch = "arm",
                   !.cpuinfo = << [key |-> "processor", value |-> 0],
                                  [key |-> "implementer", value |-> 1],
                                  [key |-> "part", value |-> 1],
                                  [key |-> "processor", value |-> 1],
                                  [key |-> "part", value |-> 3],
                                  [key |-> "processor", value |-> 2],
                                  [key |-> "implementer", value |-> 1],
                                  [key |-> "part", value |-> 2],
                                  [key |-> "processor", value |-> 3],
                                  [key |-> "implementer", value |-> 1],
                                  [key |-> "part", value |-> 1] >>],
    [Hybrid EXCEPT !.build = "kernel", !.refusable = FALSE],
    [Hybrid EXCEPT !.build = "kernel", !.refusable = FALSE, !.arch = "arm"],
    [Hybrid EXCEPT !.build = "kernel", !.refusable = FALSE,
                   !.leaf_ext = Hybrid.leaf4,
                   !.leaf4 = [p |-> <<>>, e |-> <<>>]],
    [Hybrid EXCEPT !.sysfs = <<Garbage>>, !.conf = 0],
    \* the other backends, each of which asks one source
    [Hybrid EXCEPT !.build = "apple"],
    [Hybrid EXCEPT !.build = "apple", !.sysctl.perflevel0 = <<0, 0, 0>>],
    [Hybrid EXCEPT !.build = "windows"],
    [Hybrid EXCEPT !.build = "bsd", !.leaf_ext = Hybrid.leaf4,
                   !.leaf4 = [p |-> <<>>, e |-> <<>>]],
    [Hybrid EXCEPT !.build = "aix"],
    \* nothing is known
    [Hybrid EXCEPT !.sysfs = <<>>, !.sysconf = <<0, 0, 0>>,
                   !.leaf4 = [p |-> <<>>, e |-> <<>>]] }

MCCore == {"p", "e"}

MCArmCores == (<<1, 1>> :> <<2, 4, 0>>) @@ (<<1, 2>> :> <<2, 6, 8>>) @@ (<<1, 3>> :> <<9, 9, 9>>)

A(all, field, force) ==
  [all_caches |-> all, field |-> field, force |-> force, memaccess |-> TRUE]

MCAsk ==
  { A(FALSE, 0, FALSE), A(TRUE, 0, TRUE), A(FALSE, 5, FALSE),
    [A(FALSE, 0, TRUE) EXCEPT !.memaccess = FALSE] }

Symmetry == Permutations(Thread)
=============================================================================
