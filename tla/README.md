# A TLA+ model of the Jitter RNG

The Jitter RNG collects entropy from the execution timing of a CPU.  This
directory models the library (`src/`, with what it needs of `arch/`), the `rngd`
daemon and the Linux kernel module built on it.  TLC checks the models on small
instances; TLAPS proves the main results for every value of the constants.

Lines such as `health.c:753` refer to `src/jitterentropy-health.c`, and `mod.c`
to `linux_kernel/jitterentropy_mod.c`, and so on.  `PROJECT.json` holds the line
range every definition models, the list of hazards, and for every property a
change of the code that breaks it.

## The system

| Part | State | Operations | Module |
|---|---|---|---|
| Repetition count test (RCT) | `rct_count`, its failure bits | insert, restart, duplicate | `Rct` |
| Adaptive proportion test (APT) | base, count, window position, failure bits | insert, reset, duplicate | `Apt` |
| Lag predictor | history ring, scoreboard, best predictor, success counters | insert, reset, duplicate | `Lag` |
| Stuck test, the tests together | `stuck_prime`, `startup_state` | `jent_stuck`, `jent_health_init`, `jent_health_duplicate` | `Health` |
| Block generation, RCT with memory | `rct_mem_*`, `in_recovery`, `startup_state` | `jent_random_data`, `jent_rct_mem_insert` and its recovery loop | `RandomData` |
| The instance | `struct rand_data` as far as it outlives a call | alloc, startup, read, read_safe, reset, bound self test, free | `Collector` |
| What the instance promises | requests, blocks, accounting | begin, fulfil, refuse, open, close | `EntropyService` |
| Process-wide initialization | `jent_selftest_run`, the forced internal timer, a divisor per clock | `jent_entropy_init(_ex)`, the allocation that reads them | `Initialization` |
| Startup measurement | recorded deltas, backward and stuck counts | `jent_time_entropy_init`, `jent_gcd_verdict` | `StartupTest` |
| Counting thread (internal timer) | counter of two words, stop flag, thread, the handler and its context | settick, unsettick, count, read; choice and configuration of the handler | `Notime` |
| CPU count and placement | none (a pure function of the host) | CPU count, the n-th usable CPU, pinning | `CpuPlacement` |
| Cache discovery | none (a pure function of the machine) | the backends of Linux, the Linux kernel, Apple, Windows, AIX and the BSDs; rounding | `CacheDiscovery` |
| Memory of the collectors | the memo of the cache size, mappings, locks, walk position | alloc, lock, free, deterministic walk | `CollectorMemory` |
| Conditioning | `struct jent_sha_ctx` | update, final, XDRBG-256 generate, the Keccak permutation | `Keccak`, `Conditioning` |
| What the conditioning promises | the data since the last result, the state fed back | give, digest, generate | `Xdrbg` |
| `rngd` daemon | the starting process and its pipe, collector, flags and masks of the signals, alarm, readiness | start, daemonize, main loop, handlers, entropy files, injection with retries, shutdown | `Rngd` |
| `rngd` PID file | names, inodes, locks, contents | start, daemonize, shutdown, kill | `PidFile` |
| Kernel instance: character device, hwrng, crypto API, raw entropy test interface | collector, mutex, self-test work, loop count of a recording | open, read, generate, record, ioctl, status, self test, release or unregister | `KernelInstance` |
| Kernel instance slots | the counter of open instances | the compare-and-swap loop, failing opens, close | `InstanceSlots` |
| Kernel crypto API instances | buckets, PID namespaces | charge, put, namespace freed and reused | `Kcapi` |
| Kernel module | registrations, users, parameters | load, each failing step, unwinding, unload | `KernelModule` |

How they interact.  `jent_read_entropy()` generates block after block with
`jent_random_data()`, which measures the noise source until it has enough
measurements that are not stuck.  Every measurement goes through the stuck test
into the APT, the lag predictor, the RCT and the RCT with memory.  The last may
start a recovery, which calls `jent_random_data()` from inside the measurement.
A test that fails sets sticky bits that end the generation.  The plain read then
returns an error; `jent_read_entropy_safe()` replaces the collector by one at a
higher oversampling rate that went through the startup, and carries the tests'
state over.  A startup may fail in the same way and goes on with a further
replacement.  All of it divides deltas by what the process-wide initialization
has measured for the clock, which is the platform's or a counting thread.  The
daemon and the kernel module are callers with their own concurrency: signals,
open files, a work queue, and processes that use an interface as soon as it is
registered.

What makes it hard:

* state that outlives the collector it belongs to - counters, windows, identity,
  accounting, the verdict of a self test - and must be carried over exactly;
* a reset inside a startup inside a reset, each with failure paths on which a
  collector must be freed once and a counting thread stopped;
* the recursion of the recovery loop, underneath a loop that reads the same
  counters and the same startup state;
* counters compared with `==` that may start at, or jump to, the cutoff;
* threads that race for process-wide results without a lock;
* in the kernel, pointers that a reader under the mutex replaces, and
  registrations that cannot be undone once they have users.

## Modules and how they correspond to the code

Variables keep the names of the code's fields where one variable is one field.
History variables, which the code does not have, are marked as such at their
declaration.

`Oversampling` and `TimeDelta` hold what the tests share: the rates, the two
severities of a failure and the time deltas.

`Rct`, `Apt` and `Lag` have the state of one test each and one operator per
function: `RctInsert` is `jent_rct_insert()`, `RctRestart` its part of
`jent_health_init()`, `RctDuplicate` is `jent_rct_duplicate()` on a freshly
allocated replacement.  History variables keep what the counters stand for - the
run of stuck verdicts, the symbols of the window, the deltas seen - and the
properties compare the counters with them.  A failure ends the measurements,
since `jent_random_data_one()` polls it, so an insertion requires that the test
has not failed.

`Health` composes them: `Measure` is one measurement with `jent_stuck()`,
`StageEnd` the `jent_health_init()` between startup stages, `StartupReset` and
`ReadReset` the replacement in a startup and in `jent_read_entropy_safe()`,
`RecoveryStart` and `RecoveryEnd` the detour of the RCT with memory to the
combined noise source.  Each test's own specification is a property of the
composition, so what is proved of a test alone holds of it here.

`RandomData` has the call stack of the recovery as the sequence `frames`.  Its
steps are single measurements, returns of `jent_random_data_one()`, and start
and end of the recovery.  The APT and the lag predictor are a nondeterministic
failure; the RCT is a counter, as it is what ends the loop on a source that is
stuck for good.

`Collector` has a heap of three addresses - the caller's collector, a
replacement, and the replacement's replacement, the most the code ever has at
once - and a control point `pc`.  What a generation, an initialization, an
allocation and the start of the counting thread return is an input.  A bound
self test runs on another thread while `jent_read_entropy()` runs.
`EntropyService` is the caller's view of it; `ImplementsService` maps the heap
and the control point to it.

`Initialization` has every atomic load and store of the process-wide state as a
step of its own, with threads that initialize and allocate with any flags.
`StartupTest` is what a single measurement of a clock makes of its readings,
with the unsigned differences of the code and the rounds of Euclid's algorithm
as the code's loop has them.  `Notime` has every load and store of one word of
the counter as a step; the writer stores the high word first, as the comment of
`jent_notime_read()` has it.  Around the thread it has the handler: chosen and
configured until the first initialization freezes it, with a context per
collector.  `CpuPlacement`, which `Notime` extends, is a function from a host -
its affinity mask, what its kernel and files answer - to the number of CPUs and
to the CPU a thread of the handler ends up on.  A CPU from `JENT_NCPU_SET_MAX`
on is not pinned to, as in `jent_thread_pin_to_cpu()`, and without memory for a
wider set none beyond a `cpu_set_t`.

`CacheDiscovery` is a function from a machine - what its interfaces answer - to
the size of the region, with the shifts of the rounding on sets of bits;
`CollectorMemory` has the threads that share the memo of that size, the mapping,
guard pages and locking of `jent_zalloc()` with every refusal, and the walk over
the region, of as many loops as a measurement, the memory access startup stage
or a caller asks for.  A machine has the answers of all sources; its build says
which backend asks.

`Keccak` is the permutation as the code has it, lane by lane with its tables and
its loop order, on lanes of `LaneBits` bits; a lane is the set of its bits that
are one.  `Conditioning` is the sponge with its partial block and the generator
on top of it, bytes being sets of bits as well.  `Xdrbg` is written
from FIPS 202 and from what the comments say of XDRBG-256: the steps by the
coordinates of a bit, padding and squeezing on a whole message, the rotation
offsets and the round constants computed instead of tabulated.  It is a promise,
not a translation of code.

`Rngd` separates the raising of a signal, its delivery when the mask allows, and
the test of its flag.  The process that was started and the daemon it forks are
two, with the pipe between them; the entropy files hold any of a set of contents,
no number among them.  The daemon may be started with or without a PID file, and
a start may fail in every step of it.  `PidFile` has names, inodes and locks: a lock belongs to
the inode, so that a removed name may be created again as another file.

`KernelInstance` is one instance of the kernel module, of one of four kinds, with
its callers, its status file, the work item of the self test and its end.  The
kinds share the control of the code they share: who loads the pointer to the
collector must still hold the mutex when it uses it, because a blocking read may
replace the collector.  A file of the character device takes a slot with the
steps of `InstanceSlots`, as an instance of that module, and gives it back with
its release.  A copy to the caller may fault at any byte: what it has copied of
its chunk by then is in the caller's buffer and not reported, which the history
variable `spilled` keeps.  For the raw interface the history variables `stamp` and `recorded`
keep what lies between two time stamps, which no recorded number shows.

`Kcapi` has the buckets that bound the instances of the crypto API, and the PID
namespaces they refer to.  `KernelModule` extends it by the order of
registrations and removals, with users that arrive as soon as they can: an
instance of the crypto API may exist from the moment its algorithm is
registered, also while a load is on its way to fail.  A module that is built in
defers the registration of its hwrng to a late initcall, which runs if the load
went well and may fail on its own (`late`).

## Runs

Every bound is in the .cfg or the MC module.

* `health`: deltas modulo three, an APT window of four, a lag history of four and
  a window of eight, so that the ring wraps, the best predictor changes, windows
  end at different times and every test can be the first to fail.  The second
  rate has the two APT cutoffs at the window size, as the code's table has from
  rate 15 on.  It may stop: a permanent failure is final.
* `random_data`: blocks of nine measurements, three of which the RCT with memory
  observes, a recovery of two blocks, and a cutoff below the number of
  observations, as in the NTG.1 tables of the low rates.
* `collector`: three rates, requests of up to two blocks, two successful
  requests: a reset inside a startup inside a reset, and a failure in the second
  block of a request.
* `initialization`: two threads and two possible divisors of a clock.
* `startup_test`: three measurements after one that fills the caches, a word of
  nine values so that the clock wraps, one tolerated backward step.  It ends with
  the verdict.
* `notime`: words of four values, counts up to nine so that the carry happens
  twice, two successive counting threads; sixteen hosts with holes in their CPU
  numbers, masks wider than the set asked with, two processor groups, and files
  that cannot be read or make no sense; a fixed set of two bits and a largest set
  of eight, so that the growing of the set succeeds and fails, and a CPU beyond
  it that is asked for.
* `rngd`: two retries, thresholds of three and two wakeups; entropy files with
  nothing, a value on either side of the threshold, one out of range, a negative
  one, and no number.  It may stop: the daemon exits.
* `kernel_instance`: one thread with up to two chunks, or three raw samples in
  batches of two, next to the procfs reader, the work item, the holder of the
  mutex in another file and the end of the instance; one slot, for which a
  privileged opener competes.  It may stop: a permanent failure under
  `fips_enabled` is a `panic()`.
* `kernel_module`: sizes below, at and above the limits; three instances of the
  crypto API, three buckets, a limit of two, callers in and out of namespaces
  they and root created, and a namespace whose address is used twice
  (`MaxIncarnation` counts the reuses).  It may stop, as above.
* `collector_memory`: two threads and fifteen machines, which differ in which
  source knows which level and which backend asks, with a hybrid processor, a
  container that hides sysfs and a source that answers nonsense; caches that only
  `/proc/cpuinfo` or the CPUID leaf of AMD names.  Two walks, each of the default,
  the threefold or a caller's number of loops.
* `conditioning`: lanes of sixteen bits, two rounds, a block of eight bytes;
  pieces short of, at and beyond a block; requests of nothing, less than and
  more than a digest; four calls, whose bound ends a behaviour.  Rotations
  are modulo the lane, so they are checked as formulas and not at 64 bits.  The
  order of the lanes is used in full by one round, and the table of the round
  constants is compared to its last entry and bit by an ASSUME.
* `pid_file_shutdown` is the one run that ends with a violation, see below.

What the runs show of each part is stated at the properties; in short:

| Run | Holds |
|---|---|
| `health` | every test reports exactly what its window holds, through stages, recoveries and replacements; the stuck test judges a noise source by its own deltas |
| `random_data` | one recovery per block, one deep; the interrupted stage is undisturbed; delivered blocks had a complete window; the call returns |
| `collector` | no collector lost; the counting thread runs when it is read and only then; identity, limits and verdicts survive replacements; calls return; `EntropyService` is implemented |
| `initialization` | a collector divides by the one divisor of its clock; nobody is refused for racing a passing initialization, unless that has forced the internal timer on the process; only a caller that may use it forces the internal timer |
| `startup_test` | the divisor is the greatest common one of the forward steps; a clock that passes advances, varies and is not stuck |
| `notime` | one thread counts for the reader; no torn value becomes a time; the stop returns; a thread runs on the CPU its starter's affinity or the configured number determines |
| `rngd` | alarms go on and reseeding is forced in time (`ReseedsGoOn`); a termination is honoured and the starting process returns (`DaemonAnswers`); readiness and exit codes are true (`ReadyAndExitHonest`) |
| `kernel_instance` | no freed collector is used; a read reports the chunks it delivered whole, and only a faulting copy leaves anything beyond them; slots are counted exactly; no raw delta spans a gap and one recording has one loop count; a failed self test is kept; every call returns |
| `kernel_module` | nothing is removed under a user; a failed load leaves nothing behind; buckets count exactly; no user in one container, with the namespaces it made there, exceeds the limit |
| `collector_memory` | a discovery covers what the sources of its machine name, an automatic region exceeds what a discovery found; every mapping is given back with its length; locations are hit evenly |
| `conditioning` | any sequence of pieces, digests and requests yields what FIPS 202 and XDRBG-256 define on the data as a whole |

Why the bounds are enough: in each model the interesting event - a wrap, a
carry, a window's end, a cutoff, a second replacement, a reused address - happens
several times within the bound, and the rest of the state is the same again
after it.  Where that argument is not good enough, there is a proof.

## Fairness

* `RandomData`, `Collector`: weak fairness of the steps of a running call.
  Nothing in it blocks, so it advances whenever its thread is scheduled.  The
  caller's steps and the self test on the other thread are not fair.  In
  `RandomData` the history variable `parity` changes with every measurement, so
  that a loop that measures for ever is not a stuttering state.
* `Notime`: weak fairness of the counting threads and of the join.  That a reader
  is not preempted for a whole wrap of the low word between two loads
  (`AdvanceAssumption`) is no fairness but bounds what a read meets, see the
  divergences; the proof needs it as well.
* `Rngd`: weak fairness of the daemon's own steps, of the process that started it
  once its pipe has an answer or is closed, of the alarm that was armed
  and of the delivery of a pending signal, as the operating system provides it.
  Nobody is assumed to raise a termination.
* `KernelInstance`: weak fairness of steps that do not wait - the workqueue, the
  timer of the self test and the release of a mutex held through another file
  among them - and strong fairness of the mutex: the kernel hands it over to the
  first waiter, so a waiter for whom it is free again and again obtains it.
  Nobody is assumed to call, to order a test or to end an instance.

## Where the code and its comments differ

One disagreement is kept as a run.  `pid_file_shutdown`: `dealloc()`
(`rngd.c:1351`) closes the PID file, which releases the lock, before it unlinks
the name.  An instance that starts in between locks a file whose name is then
removed, and the next start creates another one: two instances run, against the
comment at `rngd.c:1453`.  What does hold is proved: as long as no name was
removed only one runs (`PidFileCorrect`).

The others met while modelling are smaller; the models have the code's side.

* `health.c:412`: `jent_apt_duplicate()` decides by `apt_observations`, which
  `jent_apt_reset()` does not clear.  After a completed window or a startup stage
  the replacement continues with the closed window's base, a complete one for one
  more symbol, while `tests/unit/unit-error.c:411` says that "a window that has
  not begun carries nothing over".  That is so for the first window of a
  collector, which is the one the test sets up.
* `health.c:220`: the best predictor is replaced by a strictly larger score only,
  so a tie stays with the incumbent and does not go "to the shortest lag".
* `health.c:240`: the end of a lag window clears the history the stuck test takes
  its references from, and no deltas are left unjudged: the next two are
  compared with zeroes rather than with their predecessors (`health.c:246`).
* `health.c:626`: a recovery that interrupts a startup stage measures another
  noise source and returns, without the new reference `health.c:937` asks for.
* `health.c:587`: the common cutoff of the RCT with memory is the number of
  observations of a window, so in FIPS mode a window all of whose observations
  are stuck does reach it, although "the test cannot fail" (`health.c:489`).
* `base.c:1129`: the internal timer is forced before it was measured.  A thread
  that allocates in between is refused, although "a thread told that the
  internal timer is forced also sees the state the forcing thread built"
  (`timer.c:152`).  Also, an allocation that asks for the internal timer, and
  whose measurement fails after a passed initialization on the platform clock,
  leaves the timer forced and the mark of the passed initialization set: later
  allocations are refused until the next explicit initialization.
* `timer.c:291`: two reads that are both torn agree with each other if the
  counting thread wraps the low word during each of them, against "a torn read
  cannot slip through" (`timer.c:312`); it takes a preemption for 2^32 counts.
* `arch-thread.c:171`: a configured CPU is pinned to with whatever
  the operating system permits, and Linux permits a CPU of the cpuset outside of
  the affinity mask.  `doc/jent_entropy_switch_notime_impl.3:109` has "a CPU
  outside the process's affinity mask or cpuset" among those that are not honoured.
  `PlacedOnItsCpu` leaves this one case open.
* `linux_kernel/jitterentropy_status.c:29` speaks of an instance "without a
  collector - one whose reallocation on health-test recovery failed".  There is
  none:
  `jent_entropy_reset()` (`base.c:528`) keeps the old collector in that case.
* `mod.c:387`: the character device and the algorithm are removed before the
  debugfs interface, which was registered last; "Reverse order of the
  registrations" (`mod.c:380`) is not quite it.  Nobody is harmed.

One branch cannot be taken: `health.c:740` leaves the APT and the lag predictor
alone when a replacement reads another clock.  A failure is reported in a
compliance mode only (`health.c:876`), so only there is a collector replaced, and
there the clock is pinned (`base.c:500`).  `Health` and `Collector` therefore have
no replacement on another clock.

Two failures cannot happen, as a by-product of the proofs: the permanent failure
of the lag predictor, and the one of the RCT with memory.  The intermittent one
ends the measurements first, and a replacement's cutoffs are higher than what it
takes over.

## Proofs

Eight modules hold theorems.  Each of them extends the modules it is about; TLC
evaluates the named ASSUMEs of those modules in the runs.  What the proofs assume
of the constants:

* the two cutoffs of a test are ordered (`RctCutoffAssumption`, `AptAssumption`),
  those of the lag predictor also grow with the rate (`LagAssumption`), and at
  least two deltas are left unjudged after a new reference (`HealthAssumption`);
* a reader of the internal timer is not kept between its loads for a whole turn
  of the low word (`AdvanceAssumption`); without such a bound `ReadsTheCounter`
  is false, and TLC refutes it at one more count than a turn;
* outside of the compliance modes the cutoff of the RCT with memory is out of
  reach of a window (`RctMemAssumption`), and the counters hold the measurements
  of a block (`NosrAssumption`, which the code checks in every call);
* the actors of a kernel instance are distinct, and so are the addresses and the
  null value; openers and instances are finitely many (`InstanceAssumption`,
  `CallerAssumption`, and the ASSUMEs of the theorems on the PID file);
* the clock may run back less often than it is measured (`StartupAssumption`);
* the answers of a host do not contradict each other: a thread runs somewhere,
  Linux lets it be pinned to a CPU it runs on, and Windows counts those among the
  active ones of its group (`Consistent`); the largest affinity set is one of
  those that are tried (`PlacementAssumption`);
* a machine has no more CPUs than the library looks at, lists its data caches
  among the indices and subleaves the library asks for, a core has one of a
  level, and an arm64 core has its levels in order (`MachineAssumption`); the
  bound of an automatic region is a size (`MemoryAssumption`,
  `DiscoveryAssumption`).

Everything else - how many threads, readers, openers, retries, wakeups, chunks,
how large the words, windows, batches and limits - is any value of its type.

An invariant is seldom inductive as it stands.  What had to be added, and why:

* `HealthProofs`.  `RctCorrect`: the count is the history's base plus the run of
  stuck verdicts, because the verdict alone says nothing about a count that is
  not yet at a cutoff.  `AptCorrect`: its properties are inductive together;
  the work is in lemmas on the occurrences in a sequence with one more element.
  `LagCorrect` has all of `LagVerdict`.  `LagInductive` bounds both success
  counters by the cutoffs also when a failure is set, which makes the takeover at
  a higher rate safe; `LagTables` says where the ring has each of the last deltas,
  what every score counts, and that the best predictor was the loop's choice.  The
  loop is a recursive function, about which nothing can be shown by induction
  over its argument; the lemma takes the least argument at which it would be
  wrong instead.  `TestsComposed` shows step by step that the composition
  implements each test, and `HealthCorrect` draws the conclusion.
  `StuckJudgesOwnSource` needs `OwnSourceInv`: outside of an interrupted stage
  the unjudged deltas to come, and those already measured, make up the references.
* `CollectorProofs`: `CollectorsAccounted` and the refinement
  `InstanceImplementsService` from `CollectorInv`, which has exactly the addresses
  that hold collectors, the handles of a call and its buffer at every control
  point, and the accounting of a collector in its startup, without which the
  moment of the replacement would be no stuttering step.  `ReallocationInvisible`,
  `VerdictsFinal` and `MeasuredWithThread` from `InstanceInv`: the collector in
  its startup succeeds the caller's in every field a caller could notice, only an
  intermittent failure leads there, and whose counting thread runs is known
  at every point.  For the block generation `RecoveryCorrect`, with the
  unreachable permanent failure, and `BlocksCovered`: `RdInv` adds that a loop's
  counter never overtakes the window's, that a block whose recovery is spent has
  its window complete or a failure, and that the count is below the cutoff while
  nothing has failed.
* `InitializationProofs`: `AllocatedOnMeasuredClock`, `RefusedForCause` and
  `TimerForcedOnRequest`, for any number of threads.  `InitializationInv` says of
  every thread what its earlier atomic loads have established and no other thread
  can undo: a clock that has a divisor, a measurement that failed, or the forced
  internal timer.  For the startup test `DivisorGreatest` and `ClockWorks`, from
  `StartupInv`: the recorded deltas are the clock's steps forward, the backward
  ones are counted, and an outcome of "ok" has looked at all of them.  The rest is
  arithmetic: a round of `jent_gcd64()` keeps the common divisors of its pair
  and makes the remainder smaller, so that the loop ends with the greatest one;
  the running divisor keeps those of the deltas seen; and a product that wraps is
  never more than what it stands for.
* `NotimeProofs`: `OneCounts` and `ReadsCounter`.  `ReadInv` says of every word a
  reader has loaded when the counter had it: a high word from before the carry
  in the second load means that the whole first load was from before it.
  `NearInv` is where the assumption on the reader enters.  `ThreadPlaced`, from
  `PlacementInv`: a thread was placed on its host by the context that still
  belongs to it.  That the flat number of a processor leads back to its group
  and bit is a lemma on ranks: of two active processors the earlier one has fewer
  before it, so no two share a number.
* `RngdProofs`: `ReadyAndExit`, and `ReseedsForced`, the part of `ReseedsGoOn`
  that is an invariant, with the threshold of the phase the daemon is in.
  `RngdInv` adds that the wakeups counted since the last forced reseed include
  those that went by.  For the PID file `PidFileCorrect` and `StartsKeepRunning`:
  no start takes the name or the contents from the file of a running instance.
  `PidInv` adds that all open descriptors are of one file until a name is removed.
* `KernelInstanceProofs`: `CollectorOutlivesUse` and `FailuresKept` from
  `ContextInv`: the mutex is with whoever works on the collector, on the very one
  the context points to, and each phase of the end has let go of everybody who
  could still come.  `ReadsReportDelivered` and `RecordingsHomogeneous` from
  `ReadInv`, with `SpillInv` on what a faulting copy leaves behind.  `FilesHoldSlots` from `SlotInv`: who has loaded a full counter has
  seen it full during its call; `InstanceTakesSlots` is the refinement of
  `InstanceSlots` by the life of a file.
* `KernelModuleProofs`: `BucketsAreExact` and `TenantsLimited`, for any number of
  instances, users and namespaces, from `BucketsInv`: the references of a
  namespace are the buckets keyed by it and the instances about to drop one, so a
  key cannot come to mean another namespace while its bucket is in the table.
  `UsersHoldModule` and `LoadsEndSound` from `LoadInv`: what is registered, and
  who may use it, by where a load or an unload is, and from `HwrngInv`: how far
  the hwrng has come, at load or after it.
* `MemoryProofs`: `EveryPageAccounted` and `WalkHitsEvenly`, from `MemoryInv`: what
  a thread holds at every point of an allocation, the size it has derived being a
  power of two, and how often every location was accessed after as many steps as
  were walked.  The stride is odd, so it has an inverse modulo the power of two:
  a turn of as many accesses as there are locations reaches each of them once,
  wherever walks of different lengths end in it.
  `RegionsExceedCaches` adds `MemoKept`: the exponents in the memo, once marked
  valid, and the size a thread goes on with stem from a discovery, though not
  necessarily the same one.  Its lemmas follow the code from the sources to the
  size: `UncachedCovers` for every backend down to the source it asks last, `SmearedOnes` for the shifts, which
  fill the bits below the highest one, `RoundupBits` and `RegionExceeds`.

A loop of the code is a recursive function over the number of its rounds.  What
it computes is shown with a lemma on sets of numbers (`Rounds`): a set that has 0
and with every number below the bound the next one has all of them, because there
is no least one missing.

TLC has checked every one of these invariants on the bounds of the runs as well
(`ContextInv` and `ReadInv` also with two readers, 1.3 million states).

Only model-checked are:

* liveness - `CallReturns`, `RandomDataReturns`, `StopReturns`, `DaemonAnswers`,
  `CallsReturn` and the first half of `ReseedsGoOn` - for which the prover has
  neither fairness nor ENABLED;
* `ImplementsXdrbg`: what the folds of the permutation and of the sponge compute,
  step by step over their tables;
* `OnlyOneRuns`, which is violated.

## Not modelled

* `status.c`, `uuid.c`: formatting, no state.
* The known-answer tests of the conditioning and of the common divisor: fixed
  vectors, which are their own check.  Whether one passes is an input of
  `Collector`, `Initialization` and `KernelInstance`.
* The pseudorandom walk over the memory, which the default build uses for all
  measurements but those of the memory access startup stage (`noise.c:514`): the
  distribution of xoshiro128** is not a question for TLC.  The deterministic walk,
  which is modelled, runs in that stage, and everywhere in a build without
  `JENT_RANDOM_MEMACCESS`.
* The failure of `jent_set_fips_failure_callback()` in a load (`mod.c:281`): it
  refuses only once the library was initialized, and this is its first use.
* The build without the lag predictor (`health.c:276`): a build option in which
  the stuck test keeps its two references in fields of its own.
* The rest of the platform glue in `arch/` - the clock, the scheduler, the FIPS
  switch, the operating system's random numbers, the CPU counts of the kernels:
  stateless queries, each a single call, whose answers are inputs of the models.
  The arenas of libgcrypt and OpenSSL are an answer as well.
* The command line of `rngd`, and all texts, with the note on a promoted quality
  of the hwrng.
* The user-space wrappers of the kernel device: open, read and ioctl in a loop,
  without state of their own.
* The tests and the recording tools, which were read as a statement of what the
  code should do.

## Plan

The state-changing parts of the library, the daemon and the kernel module are
modelled, and every invariant the runs check is proved but for the one that is
violated.  What is left:

1. `Conditioning`: the bookkeeping of the partial block apart from the
   permutation - what is absorbed is the padded data, whatever its pieces - with
   the permutation as a constant function.
2. `CollectorMemory`: the pseudorandom walk, once there is something to state of
   it that does not rest on the distribution of its generator.
