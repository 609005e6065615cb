------------------------------ MODULE MCNotime ------------------------------
EXTENDS Notime

\* A Linux host: what a thread may run on, on a kernel with a mask of width bits.
L(affinity, width) ==
  [platform |-> "linux", affinity |-> affinity, width |-> width, denied |-> FALSE, nomem |-> FALSE,
   pinnable |-> affinity, sysfs |-> FALSE, online |-> Unreadable, sysconf |-> -1,
   groups |-> <<>>, group |-> 0]

\* A Windows host with two groups, each with a hole.
W(group, affinity) ==
  [L(affinity, 8) EXCEPT !.platform = "windows", !.pinnable = {}, !.group = group,
                         !.groups = <<{0, 2, 3}, {1, 2, 4}>>, !.sysconf = 6]

CpuRange(start, end) == [start |-> start, end |-> end]

MCHost ==
  { L({0, 1}, 2),                                      \* fits a cpu_set_t
    L({0, 3}, 4), L({1, 6}, 8),                        \* does not, and has holes
    [L({0}, 2) EXCEPT !.pinnable = {0, 1}],            \* one CPU of a larger cpuset
    [L({1, 3}, 4) EXCEPT !.nomem = TRUE, !.sysconf = 4],   \* no memory for a set
    [L({1, 9}, 16) EXCEPT !.sysconf = 10],             \* wider than any set tried
    [L({0, 2}, 4) EXCEPT !.denied = TRUE, !.sysfs = TRUE,
                         !.online = <<CpuRange(0, 0), CpuRange(2, 3)>>],
    [L({0, 2}, 4) EXCEPT !.denied = TRUE, !.sysfs = TRUE,
                         !.online = <<CpuRange(2, 1)>>, !.sysconf = 3],
    [L({0, 2}, 4) EXCEPT !.denied = TRUE, !.sysfs = TRUE,
                         !.online = <<CpuRange(0, 9)>>],   \* nothing names a CPU
    W(1, {0, 2}), W(1, {2}), W(2, {1, 2, 4}), W(2, {2, 4}),
    [W(2, {2, 4}) EXCEPT !.denied = TRUE],
    [L({0, 1, 2}, 0) EXCEPT !.platform = "other", !.sysconf = 3],
    [L({0, 1, 2}, 0) EXCEPT !.platform = "other", !.sysconf = 3, !.pinnable = {}] }
=============================================================================
