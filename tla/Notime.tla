------------------------------- MODULE Notime -------------------------------
(***************************************************************************)
(* The internal timer: a thread that counts, and the reader that takes its *)
(* counter for the time, on a platform where the counter takes two loads   *)
(* and two stores.                                                         *)
(*                                                                         *)
(* Every load and store of one word is a step.  The writer stores the high *)
(* word first, as jent_notime_read() has it; a reader loads the words in   *)
(* either order.  Around it is the life of the handler the thread belongs  *)
(* to: it is chosen and configured before the first initialization, makes  *)
(* a context for every collector, and puts each of its threads on a CPU.   *)
(***************************************************************************)
EXTENDS CpuPlacement

CONSTANTS Word,         \* the values of the low word, 2^32
          MaxCount,     \* bound: how far the counter is followed
          Advance,      \* how far it may get during one jent_notime_read()
          CountingThread,
          Host,         \* what the operating system may answer, CpuPlacement
          Cpu,          \* the numbers an application may configure
          NoCtx, NoHost

ASSUME NotimeAssumption ==
  /\ Word \in Nat /\ Word > 2
  /\ {MaxCount, Advance} \subseteq Nat
  /\ Cpu \subseteq Nat
  /\ \A h \in Host : Consistent(h)

\* No reader is kept between its loads for a whole turn of the low word.
ASSUME AdvanceAssumption == Advance < Word

VARIABLES hi, lo,            \* ec->notime_timer, its two words
          notime_interrupt, notime_running, notime_prev_timer,
          thread,            \* where each counting thread is
          value,             \* what it is storing
          pc,                \* where the reader is
          a, b,              \* the two reads of jent_notime_read()
          loaded,            \* the words of the current read already loaded
          out,               \* the last time jent_get_nstime_internal() gave
          count,             \* history: the number the counter stands for
          since,             \* history: what it was when a was first loaded
          notime_thread,     \* the registered handler: "builtin" or "external"
          notime_cpu,        \* the configured CPU
          switch_blocked,    \* jent_notime_switch_blocked
          ctx,               \* ec->notime_thread_ctx
          host,              \* what a starting thread is told of its CPUs
          runs_on            \* the CPUs it may run on, until it counts

counter == <<hi, lo>>
handshake == <<notime_interrupt, notime_running>>
counting == <<thread, value>>
reading == <<a, b, loaded, since>>
handler == <<notime_thread, notime_cpu, switch_blocked, ctx>>
placement == <<host, runs_on>>
vars == <<counter, handshake, notime_prev_timer, counting, pc, reading, out, count,
          handler, placement>>

Number(h, l) == h * Word + l

Empty == [hi |-> 0, lo |-> 0]

\* JENT_NOTIME_CPU_DEFAULT, ~0UL
CpuDefault == -1

-----------------------------------------------------------------------------
(* The counting thread, jent_notime_sample_timer() *)

\* "Best-effort pin; only the builtin handler's ctx has this layout."  The
\* affinity asked about is that of the reader that started the thread.
PinThread(t) ==
  LET cpu == IF ctx.cpu = CpuDefault THEN CpuHighest(host) ELSE ctx.cpu
  IN  /\ thread[t] = "new"
      /\ runs_on' = IF ctx # NoCtx /\ notime_thread = "builtin" /\ cpu >= 0
                    THEN Pinned(host, cpu) ELSE Inherited(host)
      /\ thread' = [thread EXCEPT ![t] = "placed"]
      /\ UNCHANGED <<counter, handshake, notime_prev_timer, value, pc, reading, out,
                     count, handler, host>>

\* The counter is zeroed, the high word first.
ZeroHigh(t) ==
  /\ thread[t] = "placed"
  /\ hi' = 0
  /\ thread' = [thread EXCEPT ![t] = "zeroing"]
  /\ host' = NoHost /\ runs_on' = {}
  /\ UNCHANGED <<lo, handshake, notime_prev_timer, value, pc, reading, out, count, handler>>

ZeroLow(t) ==
  /\ thread[t] = "zeroing"
  /\ lo' = 0
  /\ count' = 0
  /\ thread' = [thread EXCEPT ![t] = "counting"]
  /\ UNCHANGED <<hi, handshake, notime_prev_timer, value, pc, reading, out,
                 handler, placement>>

\* How long a reader may be kept between its loads.
ReadIsFast == pc \in {"a", "b", "judge"} => count < since + Advance

\* ec->notime_timer++ loads and adds, then stores the high word ...
StoreHigh(t) ==
  /\ thread[t] = "counting"
  /\ notime_interrupt = 0
  /\ count < MaxCount /\ ReadIsFast
  /\ value' = [value EXCEPT ![t] = Number(hi, lo) + 1]
  /\ hi' = value'[t] \div Word
  /\ thread' = [thread EXCEPT ![t] = "storing"]
  /\ UNCHANGED <<lo, handshake, notime_prev_timer, pc, reading, out, count,
                 handler, placement>>

\* ... and the low word.
StoreLow(t) ==
  /\ thread[t] = "storing"
  /\ lo' = value[t] % Word
  /\ count' = value[t]
  /\ value' = [value EXCEPT ![t] = 0]
  /\ thread' = [thread EXCEPT ![t] = "counting"]
  /\ UNCHANGED <<hi, handshake, notime_prev_timer, pc, reading, out,
                 handler, placement>>

\* Where an interrupted thread goes.  First, one that clears its counter
\* and goes on.
StartsOver == "zeroing"

Leaves == "done"

Interrupted(t) ==
  /\ thread[t] = "counting"
  /\ notime_interrupt = 1
  /\ thread' = [thread EXCEPT ![t] = Leaves]
  /\ UNCHANGED <<counter, handshake, notime_prev_timer, value, pc, reading, out, count,
                 handler, placement>>

Count(t) ==
  \/ PinThread(t) \/ ZeroHigh(t) \/ ZeroLow(t)
  \/ StoreHigh(t) \/ StoreLow(t) \/ Interrupted(t)

-----------------------------------------------------------------------------
(* The reader *)

\* A thread is created, jent_notime_thread_create().
Created(t) == thread' = [thread EXCEPT ![t] = "new"]

\* What a start does to the interrupt.
InterruptCleared == notime_interrupt' = 0

\* jent_notime_settick()
Settick(t) ==
  /\ pc = "stopped"
  /\ thread[t] = "none"
  /\ InterruptCleared
  /\ notime_prev_timer' = 0
  /\ hi' = 0 /\ lo' = 0 /\ count' = 0
  /\ out' = 0
  /\ \/ /\ Created(t)
        /\ notime_running' = 1
        /\ pc' = "ready"
        /\ host' \in Host
     \/ /\ UNCHANGED <<thread, notime_running, pc, host>>   \* no thread: an error
  /\ UNCHANGED <<value, reading, handler, runs_on>>

\* jent_get_nstime_internal() asks for the time.
GetTime ==
  /\ pc = "ready"
  /\ pc' = "a"
  /\ loaded' = {}
  /\ since' = count
  /\ UNCHANGED <<counter, handshake, notime_prev_timer, counting, a, b, out, count,
                 handler, placement>>

\* One word of a, or of b, is loaded.
LoadWord(w) ==
  LET word == IF w = "hi" THEN hi ELSE lo
  IN  /\ pc \in {"a", "b"}
      /\ w \notin loaded
      /\ \/ pc = "a" /\ a' = [a EXCEPT ![w] = word] /\ UNCHANGED b
         \/ pc = "b" /\ b' = [b EXCEPT ![w] = word] /\ UNCHANGED a
      /\ \/ /\ loaded = {}
            /\ loaded' = {w}
            /\ UNCHANGED pc
         \/ /\ loaded # {}
            /\ loaded' = {}
            /\ pc' = IF pc = "a" THEN "b" ELSE "judge"
      /\ UNCHANGED <<counter, handshake, notime_prev_timer, counting, since, out, count,
                     handler, placement>>

\* "The reader's own tear": the two reads disagree.
ReaderTorn(x, y) == y < x \/ y - x > Word \div 2

\* "Possibly the writer's, torn high".  First, one that knows nothing of it.
WriterNever(y) == FALSE

WriterTorn(y) == y % Word = Word - 1

\* The counter has not ticked since the last time.
NotTicked(now) == now <= notime_prev_timer

\* The read is done again, or its value is the time.
Judge ==
  LET x == Number(a.hi, a.lo)
      y == Number(b.hi, b.lo)
  IN  /\ pc = "judge"
      /\ \/ /\ ReaderTorn(x, y) \/ WriterTorn(y) \/ NotTicked(y)
            /\ pc' = "a"
            /\ since' = count
            /\ UNCHANGED <<notime_prev_timer, out, a, b>>
         \/ /\ ~ReaderTorn(x, y) /\ ~WriterTorn(y) /\ ~NotTicked(y)
            /\ notime_prev_timer' = y
            /\ out' = y
            /\ pc' = "ready"
            /\ a' = Empty /\ b' = Empty /\ since' = 0
      /\ UNCHANGED <<counter, handshake, counting, loaded, count,
                     handler, placement>>

\* jent_notime_unsettick() stops a thread a start created.
Unsettick ==
  /\ pc = "ready"
  /\ notime_running = 1
  /\ notime_interrupt' = 1
  /\ pc' = "join"
  /\ UNCHANGED <<counter, notime_running, notime_prev_timer, counting, reading, out, count,
                 handler, placement>>

\* When jent_notime_thread_join() lets the reader go on.  First, at once.
Detached == TRUE

Joined == \A t \in CountingThread : thread[t] \in {"none", "done"}

Join ==
  /\ pc = "join"
  /\ Joined
  /\ thread' = [t \in CountingThread |-> IF thread[t] = "done" THEN "none" ELSE thread[t]]
  /\ notime_running' = 0
  /\ pc' = "stopped"
  /\ UNCHANGED <<counter, notime_interrupt, notime_prev_timer, value, reading, out, count,
                 handler, placement>>

-----------------------------------------------------------------------------
(* The handler *)

\* Whether the handler and its CPU may still be chosen.
Switchable == switch_blocked = 0

\* jent_notime_set_cpu() and jent_notime_switch(); refused, or given an
\* incomplete handler, they change nothing.
SetCpu(cpu) ==
  /\ Switchable
  /\ notime_cpu' = cpu
  /\ UNCHANGED <<counter, handshake, notime_prev_timer, counting, pc, reading, out, count,
                 notime_thread, switch_blocked, ctx, placement>>

Switch(new_thread) ==
  /\ Switchable
  /\ notime_thread' = new_thread
  /\ UNCHANGED <<counter, handshake, notime_prev_timer, counting, pc, reading, out, count,
                 notime_cpu, switch_blocked, ctx, placement>>

\* jent_notime_block_switch(), as the first initialization begins
BlockSwitch ==
  /\ switch_blocked' = 1
  /\ UNCHANGED <<counter, handshake, notime_prev_timer, counting, pc, reading, out, count,
                 notime_thread, notime_cpu, ctx, placement>>

\* The context jent_notime_init_flags() makes, and the ones a handler of the
\* application's may: it may do without.
Context(h) ==
  IF notime_thread = "external"
  THEN {NoCtx, [of |-> "external", cpu |-> CpuDefault]}
  ELSE {c \in {[of |-> "builtin", cpu |-> notime_cpu]} : Ncpu(h) >= 2}

\* jent_notime_enable_thread(), for a collector that was just allocated, on
\* behalf of a thread on the host h.  After an error there is no context and no
\* collector.
EnableThread(h) ==
  /\ pc = "idle"
  /\ switch_blocked = 1
  /\ ctx' \in Context(h)
  /\ pc' = "stopped"
  /\ hi' = 0 /\ lo' = 0 /\ count' = 0
  /\ notime_interrupt' = 0 /\ notime_prev_timer' = 0 /\ out' = 0
  /\ UNCHANGED <<notime_running, counting, reading, notime_thread, notime_cpu,
                 switch_blocked, placement>>

\* jent_notime_disable(), as the collector is freed: "only a context an init
\* handed back is torn down".
Disable ==
  /\ pc = "stopped"
  /\ ctx' = NoCtx
  /\ pc' = "idle"
  /\ UNCHANGED <<counter, handshake, notime_prev_timer, counting, reading, out, count,
                 notime_thread, notime_cpu, switch_blocked, placement>>

-----------------------------------------------------------------------------

Init ==
  /\ hi = 0 /\ lo = 0
  /\ notime_interrupt = 0 /\ notime_running = 0 /\ notime_prev_timer = 0
  /\ thread = [t \in CountingThread |-> "none"]
  /\ value = [t \in CountingThread |-> 0]
  /\ pc = "idle"
  /\ a = Empty /\ b = Empty
  /\ loaded = {}
  /\ out = 0
  /\ count = 0
  /\ since = 0
  /\ notime_thread = "builtin"
  /\ notime_cpu = CpuDefault
  /\ switch_blocked = 0
  /\ ctx = NoCtx
  /\ host = NoHost
  /\ runs_on = {}

Next ==
  \/ \E t \in CountingThread : Count(t) \/ Settick(t)
  \/ GetTime
  \/ \E w \in {"hi", "lo"} : LoadWord(w)
  \/ Judge \/ Unsettick \/ Join
  \/ \E cpu \in Cpu : SetCpu(cpu)
  \/ \E new_thread \in {"builtin", "external"} : Switch(new_thread)
  \/ BlockSwitch
  \/ \E h \in Host : EnableThread(h)
  \/ Disable

Spec == Init /\ [][Next]_vars

\* The operating system schedules the counting thread and the one that waits
\* for its end.
FairSpec ==
  Spec /\ (\A t \in CountingThread : WF_vars(Count(t))) /\ WF_vars(Join)

-----------------------------------------------------------------------------
(* Properties *)

\* However the two loads of jent_notime_read() fall between the two stores of
\* the counting thread, the time it gives is one the counter had while it read, and
\* later than the one before: "guarantee that it ticked since last time we
\* looked".
ReadsTheCounter ==
  [][pc = "judge" /\ pc' = "ready" =>
       since <= out' /\ out' <= count /\ out' > out]_vars

\* A started thread counts until it is told to stop, so that a reader waiting
\* for the next tick does not wait for a thread that is gone.  Nothing but that
\* one thread writes the counter, and nothing does once a stop has returned:
\* what the caller frees afterwards is not written to.  The handler that stops
\* the thread and frees its context is the one that made them.
OneCountsForReader ==
  LET alive == {t \in CountingThread : thread[t] \notin {"none", "done"}}
  IN  /\ Cardinality(alive) <= 1
      /\ pc \in {"idle", "stopped"} => alive = {}
      /\ pc \in {"ready", "a", "b", "judge"} => alive # {}
      /\ ctx # NoCtx => ctx.of = notime_thread

\* The number of a processor of Windows: its index in "the active processors of
\* all processor groups in group order".
FlatNumber(h, p) ==
  Cardinality({q \in Active(h) : q[1] < p[1] \/ (q[1] = p[1] /\ q[2] < p[2])})

\* The CPU a counting thread ends up on, after its number was worked out by
\* jent_cpu_highest() and resolved by jent_thread_pin_to_cpu(), with holes in the
\* set, on a kernel with a wide mask, and across processor groups.  By default it
\* is "the highest-numbered CPU in the affinity set of the thread that starts
\* it", where that can be read, and elsewhere "the CPU count minus one".  A
\* configured CPU of that set is the one, if a set can be made for it.  What
\* Windows, an operating system that refuses or a handler of the application's
\* does not pin stays where its starter may run.  One case is the operating
\* system's to decide: a configured CPU outside the affinity that it lets the
\* thread be pinned to.
PlacedOnItsCpu ==
  LET allowed == Inherited(host)
      builtin == ctx # NoCtx /\ ctx.of = "builtin"
      default == builtin /\ ctx.cpu = CpuDefault
      chosen  == builtin /\ ctx.cpu # CpuDefault
      can(cpu) == cpu \in host.pinnable /\ cpu < Nameable(host)
      at == {p \in allowed : FlatNumber(host, p) = ctx.cpu}
  IN  (\E t \in CountingThread : thread[t] = "placed") =>
        /\ ~builtin => runs_on = allowed
        /\ host.platform = "linux" /\ ~host.denied /\ host.width <= Nameable(host) =>
             (default => runs_on = {Max(allowed)})
        /\ host.platform = "windows" /\ ~host.denied =>
             /\ default => runs_on = {<<host.group, Max(host.affinity)>>}
             /\ chosen => runs_on = IF at = {} THEN allowed ELSE at
        /\ host.platform = "other" /\ host.sysconf > 0 =>
             (default /\ can(host.sysconf - 1) => runs_on = {host.sysconf - 1})
        /\ host.platform # "windows" =>
             (chosen /\ ctx.cpu \in allowed /\ can(ctx.cpu) => runs_on = {ctx.cpu})
        /\ \/ runs_on = allowed
           \/ Cardinality(runs_on) = 1 /\ runs_on \subseteq allowed \cup host.pinnable

\* jent_notime_stop() comes back: it does not wait for a thread that goes on
\* counting.
StopReturns == (pc = "join") ~> (pc = "stopped")
=============================================================================
