------------------------ MODULE InitializationProofs ------------------------
(***************************************************************************)
(* The process-wide state of Initialization is safe with any number of     *)
(* threads, however their initializations and allocations interleave.  And *)
(* the startup test, which an initialization runs: what the clock is that  *)
(* jent_time_entropy_init() lets pass, and the divisor it finds.           *)
(***************************************************************************)
EXTENDS Initialization, StartupTest, FiniteSetTheorems, NaturalsInduction, TLAPS


Label == {"idle", "pre", "first", "second", "post", "return", "measure",
          "measure_alloc", "verdict", "alloc", "timer", "enable", "enabled",
          "divisor"}

\* What the steps read and write.
TypeOK ==
  /\ selftest_run \in {0, 1} /\ forced \in {0, 1} /\ failures \in {0, 1}
  /\ gcd \in [Clock -> Divisor \cup {0}]
  /\ pc \in [Thread -> Label]
  /\ flags \in [Thread -> Flags] /\ allocating \in [Thread -> {0, 1}]
  /\ measures \in [Thread -> Clock]
  /\ caller \in [Thread -> {"first", "second", "post", "enabled"}]
  /\ ret \in [Thread -> {0, 1}]
  /\ clock \in [Thread -> Clock] /\ divisor \in [Thread -> Divisor \cup {0}]

\* What may refuse a thread, and what an initialization that passed leaves
\* behind.  Neither is ever taken back.
Excuse == failures = 1 \/ forced = 1

Ready == gcd["platform"] # 0 \/ Excuse

\* While a thread is in jent_time_entropy_init(): only the second try of an
\* initialization and jent_notime_enable() measure the internal timer.
MeasureShape(t) ==
  /\ pc[t] \in {"measure", "measure_alloc", "verdict"} =>
       /\ measures[t] = "notime" =>
            ~Disabled(flags[t]) /\ caller[t] \in {"post", "enabled"}
       /\ measures[t] = "platform" => caller[t] = "second"
  /\ pc[t] = "measure_alloc" => measures[t] = "platform"
  /\ pc[t] = "verdict" /\ measures[t] = "notime" => forced = 1

\* What the result of a thread stands for, where it is looked at.
ResultShape(t) ==
  /\ pc[t] = "second" /\ ret[t] = 1 => flags[t] = "force" \/ Excuse
  /\ pc[t] \in {"post", "return", "idle"} /\ ret[t] = 1 => Excuse
  /\ pc[t] \in {"second", "post", "return"} /\ ret[t] = 0 => Ready
  /\ pc[t] \in {"timer", "enable", "divisor"} => Ready

\* The clock of the collector a thread allocates, and what it holds at last.
ClockShape(t) ==
  /\ pc[t] \in {"enable", "enabled"} => ~Disabled(flags[t])
  /\ pc[t] = "enabled" \/ clock[t] = "notime" => forced = 1
  /\ Disabled(flags[t]) => clock[t] = "platform"
  /\ pc[t] = "divisor" /\ flags[t] = "force" => clock[t] = "notime"
  /\ Holds(t) => /\ divisor[t] = gcd[clock[t]] /\ divisor[t] # 0
                 /\ flags[t] = "force" => clock[t] = "notime"

ThreadInv(t) == MeasureShape(t) /\ ResultShape(t) /\ ClockShape(t)

InitializationInv ==
  /\ TypeOK
  /\ selftest_run = 1 => Ready
  /\ \A t \in Thread : ThreadInv(t)

-----------------------------------------------------------------------------
(* One step *)

\* What the threads share only grows: a flag that is raised stays, a divisor
\* that is established is never replaced.
SharedGrows ==
  /\ forced = 1 => forced' = 1
  /\ failures = 1 => failures' = 1
  /\ \A c \in Clock : gcd[c] # 0 => gcd'[c] = gcd[c]

\* A step of a thread changes nothing of another.
OthersKept(t) ==
  \A u \in Thread \ {t} :
    /\ pc'[u] = pc[u] /\ ret'[u] = ret[u]
    /\ flags'[u] = flags[u] /\ allocating'[u] = allocating[u]
    /\ measures'[u] = measures[u] /\ caller'[u] = caller[u]
    /\ clock'[u] = clock[u] /\ divisor'[u] = divisor[u]

\* What permits a thread to go on is never taken back.
LEMMA ReadyGrows ==
  ASSUME SharedGrows
  PROVE  (Excuse => Excuse') /\ (Ready => Ready')
  BY Zenon DEF SharedGrows, Excuse, Ready, Clock

\* The other threads go on as they would have.
LEMMA OthersSafe ==
  ASSUME InitializationInv, SharedGrows, NEW t \in Thread, OthersKept(t)
  PROVE  \A u \in Thread \ {t} : ThreadInv(u)'
<1>. SUFFICES ASSUME NEW u \in Thread \ {t}
              PROVE  ThreadInv(u)'
  BY Zenon
<1>1. ThreadInv(u) /\ clock[u] \in Clock
  BY Zenon DEF InitializationInv, TypeOK
<1>2. /\ pc'[u] = pc[u] /\ ret'[u] = ret[u]
      /\ flags'[u] = flags[u] /\ allocating'[u] = allocating[u]
      /\ measures'[u] = measures[u] /\ caller'[u] = caller[u]
      /\ clock'[u] = clock[u] /\ divisor'[u] = divisor[u]
  BY Zenon DEF OthersKept
<1>3. MeasureShape(u)'
  BY <1>1, <1>2, Zenon DEF ThreadInv, MeasureShape, SharedGrows
<1>4. ResultShape(u)'
  BY <1>1, <1>2, ReadyGrows, Zenon DEF ThreadInv, ResultShape
<1>5. ClockShape(u)'
  BY <1>1, <1>2, Zenon DEF ThreadInv, ClockShape, SharedGrows, Holds
<1>. QED
  BY <1>3, <1>4, <1>5, Zenon DEF ThreadInv

\* It holds before the first call.
LEMMA Initially == Init => InitializationInv
  BY DEF Init, InitializationInv, TypeOK, ThreadInv, MeasureShape, ResultShape,
         ClockShape, Holds, Label, Clock, Flags, Disabled, Ready, Excuse

\* A step of a thread is safe if it is for the thread itself.
LEMMA StepSafe ==
  ASSUME InitializationInv, NEW t \in Thread, TypeOK', SharedGrows,
         OthersKept(t), ThreadInv(t)', selftest_run' = 1 => Ready'
  PROVE  InitializationInv'
  BY OthersSafe, Zenon DEF InitializationInv

\* Every step of jent_entropy_init_ex() is.
LEMMA InitializeSafe ==
  ASSUME InitializationInv, NEW t \in Thread, Initialize(t)
  PROVE  InitializationInv'
<1>. USE DEF InitializationInv, TypeOK, Clock, Flags, Label
<1>t. ThreadInv(t) /\ (selftest_run = 1 => Ready)
  BY Zenon
<1>1. ASSUME NEW passed \in BOOLEAN, Pre(t, passed)
      PROVE  InitializationInv'
  <2>1. TypeOK' /\ SharedGrows /\ OthersKept(t)
    BY <1>1, Zenon DEF Pre, MarkAfterTests, Returns, Goto, SharedGrows,
       OthersKept, call, startup, collector
  <2>2. MeasureShape(t)' /\ ResultShape(t)' /\ ClockShape(t)'
    BY <1>1, <1>t DEF Pre, Returns, Goto, call, startup, collector,
       ThreadInv, MeasureShape, ResultShape, ClockShape, Holds, Excuse
  <2>3. selftest_run' = 1 => Ready'
    BY <1>1, <1>t, <2>1, ReadyGrows, Zenon DEF Pre, MarkAfterTests
  <2>. QED
    BY <2>1, <2>2, <2>3, StepSafe, Zenon DEF ThreadInv
<1>2. CASE First(t)
  <2>1. TypeOK' /\ SharedGrows /\ OthersKept(t)
    BY <1>2 DEF First, MeasureClock, Returns, Goto, SharedGrows, OthersKept,
                shared, call, startup, collector
  <2>2. MeasureShape(t)' /\ ResultShape(t)' /\ ClockShape(t)'
    BY <1>2, <1>t DEF First, MeasureClock, Returns, Goto, shared, call,
       startup, collector,
       ThreadInv, MeasureShape, ResultShape, ClockShape, Holds, Disabled
  <2>3. selftest_run' = 1 => Ready'
    BY <1>2, <1>t, <2>1, ReadyGrows, Zenon DEF First, shared
  <2>. QED
    BY <2>1, <2>2, <2>3, StepSafe, Zenon DEF ThreadInv
<1>3. CASE Second(t)
  <2>1. TypeOK' /\ SharedGrows /\ OthersKept(t)
    BY <1>3 DEF Second, MeasureClock, Goto, SharedGrows, OthersKept,
                shared, call, startup, collector
  <2>2. MeasureShape(t)' /\ ResultShape(t)' /\ ClockShape(t)'
    BY <1>3, <1>t DEF Second, FallsBack, MeasureClock, Goto, shared, call,
       startup, collector, Ready, Excuse,
       ThreadInv, MeasureShape, ResultShape, ClockShape, Holds, Disabled
  <2>3. selftest_run' = 1 => Ready'
    BY <1>3, <1>t, <2>1, ReadyGrows, Zenon DEF Second, shared
  <2>. QED
    BY <2>1, <2>2, <2>3, StepSafe, Zenon DEF ThreadInv
<1>4. CASE Post(t)
  <2>1. TypeOK' /\ SharedGrows /\ OthersKept(t)
    BY <1>4 DEF Post, MarkNegated, Goto, SharedGrows, OthersKept,
                call, startup, collector
  <2>2. MeasureShape(t)' /\ ResultShape(t)' /\ ClockShape(t)'
    BY <1>4, <1>t, Zenon DEF Post, Goto, call, startup, collector, Ready,
       Excuse, ThreadInv, MeasureShape, ResultShape, ClockShape, Holds
  <2>3. selftest_run' = 1 => Ready'
    BY <1>4, <1>t, <2>1, ReadyGrows
       DEF Post, MarkNegated, ThreadInv, ResultShape
  <2>. QED
    BY <2>1, <2>2, <2>3, StepSafe, Zenon DEF ThreadInv
<1>5. CASE InitReturn(t)
  <2>1. TypeOK' /\ SharedGrows /\ OthersKept(t)
    BY <1>5, Zenon DEF InitReturn, Goto, SharedGrows, OthersKept, shared, call,
       startup, collector
  <2>2. MeasureShape(t)' /\ ResultShape(t)' /\ ClockShape(t)'
    BY <1>5, <1>t, Zenon DEF InitReturn, Goto, shared, call, startup,
       collector, Ready, Excuse, ThreadInv, MeasureShape, ResultShape,
       ClockShape, Holds
  <2>3. selftest_run' = 1 => Ready'
    BY <1>5, <1>t, <2>1, ReadyGrows, Zenon DEF InitReturn, shared
  <2>. QED
    BY <2>1, <2>2, <2>3, StepSafe, Zenon DEF ThreadInv
<1>. QED
  BY <1>1, <1>2, <1>3, <1>4, <1>5, Zenon DEF Initialize

\* Every step of jent_time_entropy_init() is.
LEMMA MeasureSafe ==
  ASSUME InitializationInv, NEW t \in Thread, Measure(t)
  PROVE  InitializationInv'
<1>. USE DEF InitializationInv, TypeOK, Clock, Flags, Label
<1>t. ThreadInv(t) /\ (selftest_run = 1 => Ready)
  BY Zenon
<1>1. CASE MeasureBegin(t)
  <2>1. TypeOK' /\ SharedGrows /\ OthersKept(t)
    BY <1>1 DEF MeasureBegin, Returns, Goto, SharedGrows, OthersKept,
       shared, call, startup, collector
  <2>2. MeasureShape(t)' /\ ResultShape(t)' /\ ClockShape(t)'
    BY <1>1, <1>t DEF MeasureBegin, Returns, Goto, shared, call, startup,
       collector, Ready, Excuse, ThreadInv, MeasureShape, ResultShape,
       ClockShape, Holds, Disabled
  <2>3. selftest_run' = 1 => Ready'
    BY <1>1, <1>t, <2>1, ReadyGrows, Zenon DEF MeasureBegin, shared
  <2>. QED
    BY <2>1, <2>2, <2>3, StepSafe, Zenon DEF ThreadInv
<1>2. CASE MeasureAlloc(t)
  <2>1. TypeOK' /\ SharedGrows /\ OthersKept(t)
    BY <1>2 DEF MeasureAlloc, Returns, Goto, SharedGrows, OthersKept,
       shared, call, startup, collector
  <2>2. MeasureShape(t)' /\ ResultShape(t)' /\ ClockShape(t)'
    BY <1>2, <1>t DEF MeasureAlloc, Returns, Goto, shared, call, startup,
       collector, Ready, Excuse, ThreadInv, MeasureShape, ResultShape,
       ClockShape, Holds, Disabled
  <2>3. selftest_run' = 1 => Ready'
    BY <1>2, <1>t, <2>1, ReadyGrows, Zenon DEF MeasureAlloc, shared
  <2>. QED
    BY <2>1, <2>2, <2>3, StepSafe, Zenon DEF ThreadInv
<1>3. CASE MeasureFails(t)
  <2>1. TypeOK' /\ SharedGrows /\ OthersKept(t)
    BY <1>3, Zenon DEF MeasureFails, Returns, Goto, SharedGrows, OthersKept,
       shared, call, startup, collector
  <2>2. MeasureShape(t)' /\ ResultShape(t)' /\ ClockShape(t)'
    BY <1>3, <1>t, Zenon DEF MeasureFails, Returns, Goto, shared, call,
       startup, collector, Ready, Excuse, ThreadInv, MeasureShape, ResultShape,
       ClockShape, Holds, Disabled
  <2>3. selftest_run' = 1 => Ready'
    BY <1>3, <1>t, <2>1, ReadyGrows, Zenon DEF MeasureFails, shared
  <2>. QED
    BY <2>1, <2>2, <2>3, StepSafe, Zenon DEF ThreadInv
<1>4. ASSUME NEW d \in Divisor, MeasurePasses(t, d)
      PROVE  InitializationInv'
  <2>1. TypeOK' /\ SharedGrows /\ OthersKept(t)
    BY <1>4, InitializationAssumption, Zenon DEF MeasurePasses,
       CompareAndSwapped, Returns, Goto, SharedGrows, OthersKept, shared, call,
       startup, collector
  <2>2. MeasureShape(t)' /\ ResultShape(t)' /\ ClockShape(t)'
    BY <1>4, <1>t, InitializationAssumption, Zenon DEF MeasurePasses,
       CompareAndSwapped, Returns, Goto, shared, call, startup, collector,
       Ready, Excuse, ThreadInv, MeasureShape, ResultShape, ClockShape, Holds,
       Disabled
  <2>3. selftest_run' = 1 => Ready'
    BY <1>4, <1>t, <2>1, ReadyGrows, Zenon DEF MeasurePasses, shared
  <2>. QED
    BY <2>1, <2>2, <2>3, StepSafe, Zenon DEF ThreadInv
<1>. QED
  BY <1>1, <1>2, <1>3, <1>4, Zenon DEF Measure

\* Every step of jent_entropy_collector_alloc_internal() is.
LEMMA AllocateSafe ==
  ASSUME InitializationInv, NEW t \in Thread, Allocate(t)
  PROVE  InitializationInv'
<1>. USE DEF InitializationInv, TypeOK, Clock, Flags, Label
<1>t. ThreadInv(t) /\ (selftest_run = 1 => Ready)
  BY Zenon
<1>1. CASE Alloc(t)
  <2>1. TypeOK' /\ SharedGrows /\ OthersKept(t)
    BY <1>1, Zenon DEF Alloc, Goto, SharedGrows, OthersKept, shared, call,
       startup, collector
  <2>2. MeasureShape(t)' /\ ResultShape(t)' /\ ClockShape(t)'
    BY <1>1, <1>t, Zenon DEF Alloc, Goto, shared, call, startup, collector,
       Ready, Excuse, ThreadInv, MeasureShape, ResultShape, ClockShape, Holds,
       Disabled
  <2>3. selftest_run' = 1 => Ready'
    BY <1>1, <1>t, <2>1, ReadyGrows, Zenon DEF Alloc, shared
  <2>. QED
    BY <2>1, <2>2, <2>3, StepSafe, Zenon DEF ThreadInv
<1>2. CASE AllocTimer(t)
  <2>1. TypeOK' /\ SharedGrows /\ OthersKept(t)
    BY <1>2 DEF AllocTimer, Refused, Returns, Goto, SharedGrows, OthersKept,
       shared, call, startup, collector
  <2>2. MeasureShape(t)' /\ ResultShape(t)' /\ ClockShape(t)'
    BY <1>2, <1>t DEF AllocTimer, Refused, Returns, Goto, shared, call,
       startup, collector, Ready, Excuse, ThreadInv, MeasureShape, ResultShape,
       ClockShape, Holds, Disabled
  <2>3. selftest_run' = 1 => Ready'
    BY <1>2, <1>t, <2>1, ReadyGrows, Zenon DEF AllocTimer, shared
  <2>. QED
    BY <2>1, <2>2, <2>3, StepSafe, Zenon DEF ThreadInv
<1>3. CASE AllocEnable(t)
  <2>1. TypeOK' /\ SharedGrows /\ OthersKept(t)
    BY <1>3 DEF AllocEnable, MeasureClock, Goto, SharedGrows, OthersKept,
       shared, call, startup, collector
  <2>2. MeasureShape(t)' /\ ResultShape(t)' /\ ClockShape(t)'
    BY <1>3, <1>t DEF AllocEnable, MeasureClock, Goto, shared, call, startup,
       collector, Ready, Excuse, ThreadInv, MeasureShape, ResultShape,
       ClockShape, Holds, Disabled
  <2>3. selftest_run' = 1 => Ready'
    BY <1>3, <1>t, <2>1, ReadyGrows, Zenon DEF AllocEnable, shared
  <2>. QED
    BY <2>1, <2>2, <2>3, StepSafe, Zenon DEF ThreadInv
<1>4. CASE AllocEnabled(t)
  <2>1. TypeOK' /\ SharedGrows /\ OthersKept(t)
    BY <1>4, Zenon DEF AllocEnabled, Goto, SharedGrows, OthersKept, shared,
       call, startup, collector
  <2>2. MeasureShape(t)' /\ ResultShape(t)' /\ ClockShape(t)'
    BY <1>4, <1>t, Zenon DEF AllocEnabled, Goto, shared, call, startup,
       collector, Ready, Excuse, ThreadInv, MeasureShape, ResultShape,
       ClockShape, Holds, Disabled
  <2>3. selftest_run' = 1 => Ready'
    BY <1>4, <1>t, <2>1, ReadyGrows, Zenon DEF AllocEnabled, shared
  <2>. QED
    BY <2>1, <2>2, <2>3, StepSafe, Zenon DEF ThreadInv
<1>5. CASE AllocDivisor(t)
  <2>1. TypeOK' /\ SharedGrows /\ OthersKept(t)
    BY <1>5, Zenon DEF AllocDivisor, DivisorOf, Returns, Goto, SharedGrows,
       OthersKept, shared, call, startup, collector
  <2>2. MeasureShape(t)' /\ ResultShape(t)' /\ ClockShape(t)'
    BY <1>5, <1>t DEF AllocDivisor, DivisorOf, Returns, Goto, shared, call,
       startup, collector, Ready, Excuse, ThreadInv, MeasureShape, ResultShape,
       ClockShape, Holds, Disabled
  <2>3. selftest_run' = 1 => Ready'
    BY <1>5, <1>t, <2>1, ReadyGrows, Zenon DEF AllocDivisor, shared
  <2>. QED
    BY <2>1, <2>2, <2>3, StepSafe, Zenon DEF ThreadInv
<1>. QED
  BY <1>1, <1>2, <1>3, <1>4, <1>5, Zenon DEF Allocate

\* The start of a call is.
LEMMA BeginSafe ==
  ASSUME InitializationInv, NEW t \in Thread, NEW f \in Flags,
         NEW alloc \in {0, 1}, Begin(t, f, alloc)
  PROVE  InitializationInv'
<1>. USE DEF InitializationInv, TypeOK, Clock, Flags, Label
<1>t. ThreadInv(t) /\ (selftest_run = 1 => Ready)
  BY Zenon
<1>1. TypeOK' /\ SharedGrows /\ OthersKept(t)
  BY Zenon DEF Begin, Returns, Goto, SharedGrows, OthersKept, shared, startup
<1>2. MeasureShape(t)' /\ ResultShape(t)' /\ ClockShape(t)'
  BY <1>t DEF Begin, Returns, Goto, shared, startup,
     ThreadInv, MeasureShape, ResultShape, ClockShape, Holds, Disabled
<1>3. selftest_run' = 1 => Ready'
  BY <1>t, <1>1, ReadyGrows, Zenon DEF Begin, shared
<1>. QED
  BY <1>1, <1>2, <1>3, StepSafe, Zenon DEF ThreadInv

\* So every step is.
LEMMA Preserved == InitializationInv /\ [Next]_vars => InitializationInv'
<1>. SUFFICES ASSUME InitializationInv, [Next]_vars
              PROVE  InitializationInv'
  BY Zenon
<1>1. CASE Next
  BY <1>1, BeginSafe, InitializeSafe, MeasureSafe, AllocateSafe, Zenon DEF Next
<1>2. CASE UNCHANGED vars
  BY <1>2, ZenonT(40) DEF vars, shared, call, startup, collector,
     InitializationInv, TypeOK, ThreadInv, MeasureShape, ResultShape,
     ClockShape, Holds, Ready, Excuse
<1>. QED
  BY <1>1, <1>2, Zenon

\* The invariant holds in every state of a run.
LEMMA Invariant == Spec => []InitializationInv
  BY Initially, Preserved, PTL DEF Spec

-----------------------------------------------------------------------------
(* The theorems *)

\* With any number of threads in jent_entropy_init_ex() and
\* jent_entropy_collector_alloc(), a collector that is handed out divides by the
\* one divisor jent_gcd_get() has for its clock, and reads a clock its flags
\* allow.
THEOREM AllocatedOnMeasuredClock == Spec => []CollectorOnMeasuredClock
<1>1. InitializationInv => CollectorOnMeasuredClock
  BY Zenon DEF InitializationInv, ThreadInv, ClockShape,
     CollectorOnMeasuredClock
<1>. QED
  BY <1>1, Invariant, PTL

\* Without a failed test and without the internal timer forced no call fails,
\* however many race the one that sets jent_selftest_run.
THEOREM RefusedForCause == Spec => []NoSpuriousRefusal
<1>1. InitializationInv => NoSpuriousRefusal
  BY Zenon DEF InitializationInv, ThreadInv, ResultShape, Excuse,
     NoSpuriousRefusal
<1>. QED
  BY <1>1, Invariant, PTL

\* jent_force_internal_timer is set only in the jent_time_entropy_init() of a
\* call whose flags permit the internal timer.
THEOREM TimerForcedOnRequest == Spec => ForcedOnRequest
<1>1. ASSUME InitializationInv, [Next]_vars, forced' # forced
      PROVE  \E t \in Thread : pc[t] = "measure" /\ ~Disabled(flags[t])
  <2>1. PICK t \in Thread : MeasureBegin(t)
    BY <1>1, Zenon DEF Next, Initialize, Measure, Allocate, Begin, Pre, First,
       Second, Post, InitReturn, MeasureAlloc, MeasureFails, MeasurePasses,
       Alloc, AllocTimer, AllocEnable, AllocEnabled, AllocDivisor, vars, shared
  <2>2. pc[t] = "measure" /\ measures[t] = "notime"
    BY <1>1, <2>1, Zenon DEF MeasureBegin
  <2>. QED
    BY <1>1, <2>2, Zenon DEF InitializationInv, ThreadInv, MeasureShape
<1>2. InitializationInv /\ [Next]_vars
        => [forced' # forced =>
              \E t \in Thread : pc[t] = "measure" /\ ~Disabled(flags[t])]_forced
  BY <1>1, Zenon
<1>. QED
  BY <1>2, Invariant, PTL DEF Spec, ForcedOnRequest

-----------------------------------------------------------------------------
(* Loops *)

\* A set of natural numbers has a least element.
LEMMA LeastExists ==
  ASSUME NEW T, T \subseteq Nat, T # {}
  PROVE  \E x \in T : \A y \in T : x <= y
<1>1. PICK x \in T : \A y \in T : ~ (<<y, x>> \in OpToRel(<, Nat))
  BY NatLessThanWellFounded, WFMin, Zenon
<1>2. \A y \in T : ~ (y < x)
  BY <1>1, Zenon DEF OpToRel
<1> QED
  BY <1>2

\* What holds before the first round of a loop, and after every round if it did
\* before, holds after the last: no round is the first after which it does not.
LEMMA Rounds ==
  ASSUME NEW n \in Nat, NEW G, 0 \in G,
         \A k \in 0 .. n - 1 : k \in G => k + 1 \in G
  PROVE  \A k \in 0 .. n : k \in G
<1> DEFINE T == (0 .. n) \ G
<1>1. ASSUME T # {} PROVE FALSE
  <2>1. PICK k \in T : \A j \in T : k <= j
    <3>1. T \subseteq Nat
      OBVIOUS
    <3> QED
      BY <1>1, <3>1, LeastExists, Zenon
  <2>2. k - 1 \in 0 .. n - 1 /\ k - 1 \in G /\ (k - 1) + 1 = k
    BY <2>1
  <2> QED
    BY <2>1, <2>2, Zenon
<1> QED
  BY <1>1, Zenon

\* The values a loop of n rounds goes through, from its first value by its step.
LoopValues(f, n, S, base, step) ==
  /\ f \in [0 .. n -> S] /\ f[0] = base
  /\ \A k \in 1 .. n : f[k] = step[<<k, f[k - 1]>>]

\* Every loop has them.
LEMMA LoopExists ==
  ASSUME NEW n \in Nat, NEW S, NEW base \in S, NEW step \in [(1 .. n) \X S -> S]
  PROVE  \E f : LoopValues(f, n, S, base, step)
<1> DEFINE Upto(m, f) == /\ f \in [0 .. m -> S] /\ f[0] = base
                         /\ \A k \in 1 .. m : f[k] = step[<<k, f[k - 1]>>]
           G == {m \in 0 .. n : \E f : Upto(m, f)}
<1>1. 0 \in G
  <2> DEFINE f == [k \in 0 .. 0 |-> base]
  <2>1. Upto(0, f)
    OBVIOUS
  <2> HIDE DEF f, Upto
  <2> QED
    BY <2>1
<1>2. ASSUME NEW m \in 0 .. n - 1, m \in G PROVE m + 1 \in G
  <2>1. PICK f : Upto(m, f)
    BY <1>2, Zenon
  <2> DEFINE last == step[<<m + 1, f[m]>>]
             g == [k \in 0 .. m + 1 |-> IF k = m + 1 THEN last ELSE f[k]]
  <2>2. last \in S
    BY <2>1
  <2>3. g \in [0 .. m + 1 -> S] /\ g[0] = base
    BY <2>1, <2>2
  <2>4. ASSUME NEW k \in 1 .. m + 1 PROVE g[k] = step[<<k, g[k - 1]>>]
    <3>1. CASE k = m + 1
      <4>1. g[k] = last /\ g[k - 1] = f[m] 
        BY <3>1
      <4> QED
        BY <3>1, <4>1, Zenon
    <3>2. CASE k # m + 1
      <4>1. k \in 1 .. m /\ g[k] = f[k] /\ g[k - 1] = f[k - 1]
        BY <3>2
      <4> QED
        BY <2>1, <4>1, Zenon
    <3> QED
      BY <3>1, <3>2, Zenon
  <2>5. Upto(m + 1, g)
    BY <2>3, <2>4, Zenon
  <2> HIDE DEF Upto
  <2> QED
    BY <2>5
<1>3. n \in G
  <2> HIDE DEF G
  <2>1. \A k \in 0 .. n : k \in G
    BY <1>1, <1>2, Rounds, Zenon
  <2> QED
    BY <2>1
<1> QED
  BY <1>3, Zenon DEF LoopValues

-----------------------------------------------------------------------------
(* Divisors *)

\* Division with remainder.
LEMMA Divided ==
  ASSUME NEW x \in Nat, NEW d \in Nat \ {0}
  PROVE  /\ x \div d \in Nat /\ (x % d) \in 0 .. d - 1
         /\ x = d * (x \div d) + (x % d)
  OBVIOUS

\* A number below the divisor is its own remainder.
LEMMA SmallRemainder ==
  ASSUME NEW x \in Nat, NEW d \in Nat, x < d
  PROVE  x % d = x
  OBVIOUS

\* A multiple leaves no remainder.
LEMMA MultipleDivides ==
  ASSUME NEW x \in Nat, NEW q \in Int, NEW d \in Nat \ {0}, x = d * q
  PROVE  x % d = 0
  OBVIOUS

\* What divides two numbers divides the remainder of their division as well.
LEMMA RemainderDivides ==
  ASSUME NEW x \in Nat, NEW y \in Nat \ {0}, NEW d \in Nat \ {0},
         x % d = 0, y % d = 0
  PROVE  (x % y) % d = 0
<1> DEFINE u == x \div d
           v == y \div d
<1>1. u \in Nat /\ x = d * u
  BY Divided
<1>2. v \in Nat /\ y = d * v
  BY Divided
<1> HIDE DEF u, v
<1> DEFINE q == x \div y
<1>3. q \in Nat /\ x % y \in Nat /\ x = y * q + (x % y)
  BY Divided
<1> HIDE DEF q
<1>4. x % y = d * (u - v * q)
  BY <1>1, <1>2, <1>3
<1>5. u - v * q \in Int
  BY <1>1, <1>2, <1>3
<1> QED
  BY <1>3, <1>4, <1>5, MultipleDivides, Zenon

\* What divides a number and the remainder of a division by it divides the
\* number that was divided.
LEMMA DividendDivides ==
  ASSUME NEW x \in Nat, NEW y \in Nat \ {0}, NEW d \in Nat \ {0},
         y % d = 0, (x % y) % d = 0
  PROVE  x % d = 0
<1> DEFINE r == x % y
           q == x \div y
<1>1. q \in Nat /\ r \in Nat /\ x = y * q + r
  BY Divided
<1>2. r % d = 0
  BY Zenon
<1> HIDE DEF r, q
<1> DEFINE u == r \div d
           v == y \div d
<1>3. u \in Nat /\ r = d * u
  BY <1>1, <1>2, Divided
<1>4. v \in Nat /\ y = d * v
  BY Divided
<1> HIDE DEF u, v
<1>5. x = d * (v * q + u) /\ v * q + u \in Int
  BY <1>1, <1>3, <1>4
<1> QED
  BY <1>5, MultipleDivides, Zenon

-----------------------------------------------------------------------------
(* jent_gcd64() *)

\* A round keeps the common divisors, and makes the second number smaller.
LEMMA RoundKeeps ==
  ASSUME NEW p \in Nat \X Nat
  PROVE  /\ Round(p) \in Nat \X Nat
         /\ p[2] # 0 => Round(p)[2] < p[2]
         /\ p[2] = 0 => Round(p)[2] = 0
         /\ \A d \in Nat \ {0} : /\ Round(p)[1] % d = 0
                                 /\ Round(p)[2] % d = 0
                              <=> p[1] % d = 0 /\ p[2] % d = 0
<1>1. CASE p[2] = 0
  BY <1>1, Zenon DEF Round
<1>2. CASE p[2] # 0
  <2> DEFINE x == p[1]  y == p[2]  r == x % y
  <2>1. x \in Nat /\ y \in Nat \ {0}
    BY <1>2, Zenon
  <2>2. Round(p) = <<y, r>>
    BY <1>2, Zenon DEF Round
  <2>3. r \in 0 .. y - 1 /\ x = r + (x \div y) * y /\ x \div y \in Nat
    <3> DEFINE q == x \div y
    <3> HIDE DEF x, y
    <3>1. q \in Nat /\ r \in 0 .. y - 1 /\ x = y * q + r
      BY <2>1, Divided, Zenon
    <3> HIDE DEF q, r
    <3>2. x = r + q * y
      BY <2>1, <3>1
    <3> QED
      BY <3>1, <3>2, Zenon DEF q
  <2>4. ASSUME NEW d \in Nat \ {0}
        PROVE  y % d = 0 /\ r % d = 0 <=> x % d = 0 /\ y % d = 0
    <3>1. ASSUME y % d = 0, r % d = 0 PROVE x % d = 0
      <4> HIDE DEF x, y
      <4> QED
        BY <2>1, <3>1, DividendDivides, Zenon
    <3>2. ASSUME x % d = 0, y % d = 0 PROVE r % d = 0
      <4> HIDE DEF x, y
      <4> QED
        BY <2>1, <3>2, RemainderDivides, Zenon
    <3> QED
      BY <3>1, <3>2, Zenon
  <2>5. Round(p)[1] = y /\ Round(p)[2] = r
    BY <2>2
  <2>6. Round(p) \in Nat \X Nat /\ Round(p)[2] < p[2]
    <3>1. r \in Nat /\ r < y
      <4> HIDE DEF x, y, r
      <4> QED
        BY <2>1, <2>3
    <3> HIDE DEF r
    <3> QED
      BY <2>1, <2>2, <3>1
  <2> HIDE DEF r
  <2> QED
    BY <1>2, <2>4, <2>5, <2>6, Zenon
<1> QED
  BY <1>1, <1>2, Zenon

\* The loop of jent_gcd64() ends with the common divisors of its arguments as the
\* divisors of one number.
LEMMA Gcd64Common ==
  ASSUME NEW a \in Nat, NEW b \in Nat
  PROVE  /\ Gcd64(a, b) \in Nat
         /\ \A d \in Nat \ {0} :
              Gcd64(a, b) % d = 0 <=> a % d = 0 /\ b % d = 0
<1> DEFINE start == IF a < b THEN <<b, a>> ELSE <<a, b>>
           rounds == start[2]
           Body(f) == [k \in 0 .. rounds |-> IF k = 0 THEN start ELSE Round(f[k - 1])]
           loop == CHOOSE f : f = Body(f)
           Pair == Nat \X Nat
           Common(p, d) == p[1] % d = 0 /\ p[2] % d = 0
<1>1. start \in Pair /\ rounds \in Nat
  BY Zenon
<1>2. \A d \in Nat \ {0} : Common(start, d) <=> a % d = 0 /\ b % d = 0
  BY Zenon
<1>3. Gcd64(a, b) = loop[rounds][1]
  BY Zenon DEF Gcd64
<1> HIDE DEF start, rounds
<1>4. \E f : f = Body(f)
  <2> DEFINE turn == [q \in (1 .. rounds) \X Pair |-> Round(q[2])]
  <2>1. turn \in [(1 .. rounds) \X Pair -> Pair]
    BY RoundKeeps, Zenon
  <2>2. PICK f : LoopValues(f, rounds, Pair, start, turn)
    <3> HIDE DEF turn, Pair
    <3>1. rounds \in Nat /\ start \in Pair
      BY <1>1, Zenon
    <3> QED
      BY <2>1, <3>1, LoopExists, Zenon
  <2>3. ASSUME NEW k \in 1 .. rounds PROVE f[k] = Round(f[k - 1])
    <3>1. f[k - 1] \in Pair
      BY <1>1, <2>2 DEF LoopValues
    <3>2. turn[<<k, f[k - 1]>>] = Round(f[k - 1])
      <4> HIDE DEF Pair
      <4> QED
        BY <3>1, Zenon
    <3> QED
      BY <2>2, <3>2, Zenon DEF LoopValues
  <2>4. f = Body(f)
    BY <2>2, <2>3 DEF LoopValues
  <2> QED
    BY <2>4, Zenon
<1>5. loop = Body(loop)
  BY <1>4, Zenon
<1> HIDE DEF loop
<1>6. loop[0] = start /\ \A k \in 1 .. rounds : loop[k] = Round(loop[k - 1])
  BY <1>1, <1>5
<1> DEFINE Good(k) == /\ loop[k] \in Pair /\ loop[k][2] <= rounds - k
                      /\ \A d \in Nat \ {0} : Common(loop[k], d) <=> Common(start, d)
           G == {k \in 0 .. rounds : Good(k)}
<1>7. 0 \in G
  BY <1>1, <1>6 DEF rounds
<1>8. ASSUME NEW k \in 0 .. rounds - 1, k \in G PROVE k + 1 \in G
  <2> DEFINE p == loop[k]
  <2>1. loop[k + 1] = Round(p) /\ k + 1 \in 0 .. rounds
    BY <1>1, <1>6
  <2>2. p \in Pair /\ p[2] <= rounds - k
    BY <1>8, Zenon
  <2>3. /\ Round(p) \in Pair
        /\ p[2] # 0 => Round(p)[2] < p[2]
        /\ p[2] = 0 => Round(p)[2] = 0
        /\ \A d \in Nat \ {0} : Common(Round(p), d) <=> Common(p, d)
    BY <2>2, RoundKeeps, Zenon
  <2>4. Round(p)[2] <= rounds - (k + 1)
    <3>1. p[2] \in Nat /\ Round(p)[2] \in Nat
      BY <2>2, <2>3, Zenon
    <3> QED
      BY <1>1, <2>2, <2>3, <3>1
  <2>5. Good(k + 1)
    BY <1>8, <2>1, <2>3, <2>4, Zenon
  <2> QED
    BY <2>1, <2>5, Zenon
<1>9. Good(rounds)
  <2>1. rounds \in G
    <3> HIDE DEF G
    <3>1. \A k \in 0 .. rounds : k \in G
      BY <1>1, <1>7, <1>8, Rounds, Zenon
    <3> QED
      BY <1>1, <3>1
  <2> QED
    BY <2>1, Zenon
<1>10. loop[rounds] \in Pair /\ loop[rounds][2] = 0
  <2>1. loop[rounds][2] \in Nat
    BY <1>9, Zenon
  <2> QED
    BY <1>1, <1>9, <2>1
<1> QED
  BY <1>2, <1>3, <1>9, <1>10

-----------------------------------------------------------------------------
(* jent_gcd_analyze_internal() *)

\* The divisors of the running divisor are the ones all deltas have in common.
LEMMA RunningGcdCommon ==
  ASSUME NEW h \in Seq(Nat \ {0}), h # <<>>
  PROVE  /\ RunningGcd(h) \in Nat \ {0}
         /\ \A d \in Nat \ {0} :
              RunningGcd(h) % d = 0 <=> \A m \in 1 .. Len(h) : h[m] % d = 0
<1> DEFINE rounds == Len(h) - 1
           Body(f) == [k \in 0 .. rounds |->
                         IF k = 0 THEN h[1] ELSE Gcd64(h[k + 1], f[k - 1])]
           loop == CHOOSE f : f = Body(f)
<1>1. rounds \in Nat /\ Len(h) = rounds + 1
  OBVIOUS
<1>2. \A k \in 0 .. rounds : h[k + 1] \in Nat \ {0}
  OBVIOUS
<1>3. RunningGcd(h) = loop[rounds]
  BY Zenon DEF RunningGcd
<1> HIDE DEF rounds
<1>4. \E f : f = Body(f)
  <2> DEFINE turn == [q \in (1 .. rounds) \X Nat |-> Gcd64(h[q[1] + 1], q[2])]
  <2>1. turn \in [(1 .. rounds) \X Nat -> Nat]
    <3>1. ASSUME NEW q \in (1 .. rounds) \X Nat
          PROVE  Gcd64(h[q[1] + 1], q[2]) \in Nat
      <4>1. h[q[1] + 1] \in Nat /\ q[2] \in Nat
        BY <1>1, <1>2
      <4> QED
        BY <4>1, Gcd64Common, Zenon
    <3> QED
      BY <3>1, Zenon
  <2>2. PICK f : LoopValues(f, rounds, Nat, h[1], turn)
    <3> HIDE DEF turn
    <3>1. rounds \in Nat /\ h[1] \in Nat
      BY <1>1, <1>2
    <3> QED
      BY <2>1, <3>1, LoopExists, Zenon
  <2>3. ASSUME NEW k \in 1 .. rounds PROVE f[k] = Gcd64(h[k + 1], f[k - 1])
    <3>1. f[k - 1] \in Nat
      BY <1>1, <2>2 DEF LoopValues
    <3>2. turn[<<k, f[k - 1]>>] = Gcd64(h[k + 1], f[k - 1])
      BY <3>1, Zenon
    <3> QED
      BY <2>2, <3>2, Zenon DEF LoopValues
  <2>4. f = Body(f)
    BY <2>2, <2>3 DEF LoopValues
  <2> QED
    BY <2>4, Zenon
<1>5. loop = Body(loop)
  BY <1>4, Zenon
<1> HIDE DEF loop
<1>6. /\ loop[0] = h[1]
      /\ \A k \in 1 .. rounds : loop[k] = Gcd64(h[k + 1], loop[k - 1])
  BY <1>1, <1>5
<1> DEFINE Good(k) == /\ loop[k] \in Nat
                      /\ \A d \in Nat \ {0} :
                           loop[k] % d = 0 <=> \A m \in 1 .. k + 1 : h[m] % d = 0
           G == {k \in 0 .. rounds : Good(k)}
<1>7. 0 \in G
  BY <1>1, <1>2, <1>6
<1>8. ASSUME NEW k \in 0 .. rounds - 1, k \in G PROVE k + 1 \in G
  <2>1. /\ k + 1 \in 0 .. rounds /\ loop[k] \in Nat /\ h[k + 2] \in Nat
        /\ loop[k + 1] = Gcd64(h[k + 2], loop[k])
    <3>1. k + 1 \in 1 .. rounds /\ (k + 1) - 1 = k /\ (k + 1) + 1 = k + 2
      BY <1>1
    <3> QED
      BY <1>1, <1>2, <1>6, <1>8, <3>1
  <2>2. /\ loop[k + 1] \in Nat
        /\ \A d \in Nat \ {0} :
             loop[k + 1] % d = 0 <=> h[k + 2] % d = 0 /\ loop[k] % d = 0
    <3> DEFINE x == h[k + 2]
               y == loop[k]
    <3>1. x \in Nat /\ y \in Nat /\ loop[k + 1] = Gcd64(x, y)
      BY <2>1, Zenon
    <3> HIDE DEF x, y
    <3>2. /\ Gcd64(x, y) \in Nat
          /\ \A d \in Nat \ {0} : Gcd64(x, y) % d = 0 <=> x % d = 0 /\ y % d = 0
      BY <3>1, Gcd64Common, Zenon
    <3> QED
      BY <3>1, <3>2, Zenon DEF x, y
  <2>3. ASSUME NEW d \in Nat \ {0}
        PROVE  loop[k + 1] % d = 0 <=> \A m \in 1 .. k + 2 : h[m] % d = 0
    <3>1. loop[k] % d = 0 <=> \A m \in 1 .. k + 1 : h[m] % d = 0
      BY <1>8, Zenon
    <3>2. 1 .. k + 2 = (1 .. k + 1) \cup {k + 2}
      BY <1>1
    <3> QED
      BY <2>2, <3>1, <3>2, Zenon
  <2>4. (k + 1) + 1 = k + 2
    BY <1>1
  <2> QED
    BY <2>1, <2>2, <2>3, <2>4, Zenon
<1>9. Good(rounds)
  <2>1. rounds \in G
    <3> HIDE DEF G
    <3>1. \A k \in 0 .. rounds : k \in G
      BY <1>1, <1>7, <1>8, Rounds, Zenon
    <3> QED
      BY <1>1, <3>1
  <2> QED
    BY <2>1, Zenon
<1>10. loop[rounds] # 0
  <2> DEFINE d == h[1] + 1
  <2>1. d \in Nat \ {0} /\ h[1] % d # 0 /\ 1 \in 1 .. rounds + 1
    BY <1>1, <1>2
  <2>2. 0 % d = 0
    BY <2>1
  <2> HIDE DEF d
  <2> QED
    BY <1>9, <2>1, <2>2, Zenon
<1> QED
  BY <1>1, <1>3, <1>9, <1>10, Zenon

\* The sum of the distances between successive deltas is a number.
LEMMA DeltaSumNat ==
  ASSUME NEW h \in Seq(Nat \ {0}), h # <<>>
  PROVE  DeltaSum(h) \in Nat
<1> Word \in Nat \ {0}
  BY StartupAssumption, Zenon
<1> DEFINE rounds == Len(h) - 1
           Sum(k, x) == (x + Distance(h[k + 1], h[k])) % Word
           Body(f) == [k \in 0 .. rounds |->
                         IF k = 0 THEN 0 ELSE Sum(k, f[k - 1])]
           loop == CHOOSE f : f = Body(f)
<1>1. rounds \in Nat /\ Len(h) = rounds + 1
  OBVIOUS
<1>2. DeltaSum(h) = loop[rounds]
  BY Zenon DEF DeltaSum
<1>3. ASSUME NEW k \in 1 .. rounds, NEW x \in Nat PROVE Sum(k, x) \in Nat
  <2>1. h[k] \in Nat /\ h[k + 1] \in Nat
    OBVIOUS
  <2> DEFINE distance == Distance(h[k + 1], h[k])
  <2>2. distance \in Nat
    BY <2>1 DEF Distance
  <2> HIDE DEF distance
  <2>3. (x + distance) % Word \in Nat
    BY <2>2
  <2> QED
    BY <2>3, Zenon DEF distance
<1> HIDE DEF rounds, Sum
<1>4. PICK f : f \in [0 .. rounds -> Nat] /\ f = Body(f)
  <2> DEFINE turn == [q \in (1 .. rounds) \X Nat |-> Sum(q[1], q[2])]
  <2>1. turn \in [(1 .. rounds) \X Nat -> Nat]
    BY <1>3, Zenon
  <2>2. PICK f : LoopValues(f, rounds, Nat, 0, turn)
    <3> HIDE DEF turn
    <3> QED
      BY <1>1, <2>1, LoopExists, Zenon
  <2>3. ASSUME NEW k \in 1 .. rounds PROVE f[k] = Sum(k, f[k - 1])
    <3>1. f[k - 1] \in Nat
      BY <1>1, <2>2 DEF LoopValues
    <3>2. turn[<<k, f[k - 1]>>] = Sum(k, f[k - 1])
      BY <3>1, Zenon
    <3> QED
      BY <2>2, <3>2, Zenon DEF LoopValues
  <2>4. f = Body(f)
    BY <2>2, <2>3 DEF LoopValues
  <2> QED
    BY <2>2, <2>4, Zenon DEF LoopValues
<1>5. loop = Body(loop)
  BY <1>4, Zenon
<1> HIDE DEF loop
<1>6. loop[0] = 0 /\ \A k \in 1 .. rounds : loop[k] = Sum(k, loop[k - 1])
  BY <1>1, <1>5
<1> DEFINE G == {k \in 0 .. rounds : loop[k] \in Nat}
<1>7. 0 \in G
  BY <1>1, <1>6
<1>8. ASSUME NEW k \in 0 .. rounds - 1, k \in G PROVE k + 1 \in G
  <2>1. k + 1 \in 1 .. rounds /\ (k + 1) - 1 = k /\ k + 1 \in 0 .. rounds
    BY <1>1
  <2>2. loop[k + 1] = Sum(k + 1, loop[k]) /\ loop[k] \in Nat
    BY <1>6, <1>8, <2>1, Zenon
  <2>3. loop[k + 1] \in Nat
    BY <1>3, <2>1, <2>2, Zenon
  <2> QED
    BY <2>1, <2>3, Zenon
<1>9. rounds \in G
  <2> HIDE DEF G
  <2>1. \A k \in 0 .. rounds : k \in G
    BY <1>1, <1>7, <1>8, Rounds, Zenon
  <2> QED
    BY <1>1, <2>1
<1> QED
  BY <1>2, <1>9, Zenon

\* A product grows with its factor.
LEMMA TimesLarger ==
  ASSUME NEW a \in Nat, NEW b \in Nat, NEW c \in Nat, b >= c
  PROVE  a * b >= a * c
<1> DEFINE e == b - c
<1>1. e \in Nat /\ b = c + e
  OBVIOUS
<1> HIDE DEF e
<1>2. a * b = a * c + a * e /\ a * e \in Nat /\ a * c \in Nat
  BY <1>1
<1> QED
  BY <1>2

\* A passed jent_gcd_verdict() has seen the deltas vary by their divisor, per
\* osr of them.
LEMMA VariationSeen ==
  ASSUME NEW h \in Seq(Nat \ {0}), h # <<>>, NEW o \in Nat, Variation(h, o)
  PROVE  o * DeltaSum(h) >= RunningGcd(h) * Len(h)
<1> USE StartupAssumption
<1> DEFINE sum == DeltaSum(h)
           g == RunningGcd(h)
           q == sum \div g
           n == Len(h)
<1>1. sum \in Nat /\ g \in Nat \ {0} /\ n \in Nat
  BY DeltaSumNat, RunningGcdCommon
<1>2. (q * o) % Word >= n
  BY Zenon DEF Variation
<1> HIDE DEF sum, g, n
<1>3. q \in Nat /\ sum >= g * q
  <2>1. q \in Nat /\ (sum % g) \in 0 .. g - 1 /\ sum = g * q + (sum % g)
    BY <1>1, Divided, Zenon
  <2> DEFINE rest == sum % g
  <2> HIDE DEF q, rest
  <2> QED
    BY <1>1, <2>1 DEF rest
<1> HIDE DEF q
<1>4. q * o \in Nat
  BY <1>3
<1>5. q * o >= n
  <2> DEFINE x == q * o
  <2> HIDE DEF x
  <2>1. x \in Nat /\ x % Word >= n
    BY <1>2, <1>4, Zenon DEF x
  <2>2. x >= n
    BY <1>1, <2>1
  <2> QED
    BY <2>2, Zenon DEF x
<1>6. o * sum >= o * (g * q)
  BY <1>1, <1>3, TimesLarger
<1>7. o * (g * q) = g * (q * o)
  BY <1>1, <1>3
<1>8. g * (q * o) >= g * n
  <2> DEFINE x == q * o
  <2>1. x \in Nat /\ x >= n
    BY <1>4, <1>5, Zenon
  <2> HIDE DEF x
  <2>2. g * x >= g * n
    BY <1>1, <2>1, TimesLarger, Zenon
  <2> QED
    BY <2>2, Zenon DEF x
<1>9. o * sum >= g * n
  <2> DEFINE a == o * sum
             b == g * (q * o)
             c == g * n
  <2>1. a \in Nat /\ b \in Nat /\ c \in Nat
    BY <1>1, <1>3
  <2>2. a >= b /\ b >= c
    BY <1>6, <1>7, <1>8, Zenon
  <2> HIDE DEF a, b, c
  <2>3. a >= c
    BY <2>1, <2>2
  <2> QED
    BY <2>3, Zenon DEF a, c
<1> QED
  BY <1>9, Zenon DEF sum, g, n

-----------------------------------------------------------------------------
(* The startup test: what holds as it measures *)

\* The measurements in which the clock went on, and those in which it went back.
Onward(r) == {k \in ClearCache + 2 .. Len(r) : r[k] > r[k - 1]}
Backward(r) == {k \in ClearCache + 2 .. Len(r) : r[k] < r[k - 1]}
Advance(r, k, d) == (r[k] - r[k - 1]) \div d

StartupTypeOK ==
  /\ i \in -ClearCache .. TestLoops
  /\ prev_time \in Time
  /\ delta_history \in Seq(Nat \ {0})
  /\ time_backwards \in Nat
  /\ count_stuck \in Nat
  /\ osr \in Nat \ {0}
  /\ common_timer_gcd \in Nat \ {0}
  /\ delta_gcd \in Nat
  /\ readings \in Seq(Time)

\* Until an error, the counters of the loop are those of the readings so far.
LoopCounts ==
  outcome \in {"running", "ok"} =>
    /\ Len(readings) = i + ClearCache + 1
    /\ prev_time = readings[Len(readings)]
    /\ Len(readings) > 1 => \A k \in 1 .. Len(readings) : readings[k] # 0
    /\ \A k \in 2 .. Len(readings) : readings[k] # readings[k - 1]
    /\ {delta_history[k] : k \in 1 .. Len(delta_history)}
         = {Advance(readings, k, common_timer_gcd) : k \in Onward(readings)}
    /\ time_backwards = Cardinality(Backward(readings))

\* What a startup that has passed went through.
Passed ==
  outcome = "ok" =>
    /\ i = TestLoops
    /\ time_backwards <= MaxBackwards
    /\ delta_history # <<>>
    /\ delta_gcd = RunningGcd(delta_history)
    /\ Variation(delta_history, osr)
    /\ count_stuck <= StuckThreshold

StartupInv == StartupTypeOK /\ LoopCounts /\ Passed

\* The measuring loop starts with the invariant.
LEMMA StartupInvInit == StartupInit => StartupInv
<1> SUFFICES ASSUME StartupInit PROVE StartupInv
  BY Zenon
<1> /\ {ClearCache, MaxBackwards} \subseteq Nat /\ TestLoops \in Nat \ {0}
    /\ Rates \subseteq Nat \ {0} /\ TimerGcd \subseteq Nat \ {0}
  BY StartupAssumption, Zenon
<1>1. StartupTypeOK
  BY DEF StartupInit, StartupTypeOK
<1>2. LoopCounts
  <2>1. readings = <<prev_time>> /\ Len(readings) = 1 /\ readings[1] = prev_time
    BY Zenon DEF StartupInit
  <2>2. delta_history = <<>> /\ Len(delta_history) = 0
    BY Zenon DEF StartupInit
  <2>3. ClearCache + 2 .. Len(readings) = {}
    BY <2>1
  <2>4. Onward(readings) = {} /\ Backward(readings) = {}
    BY <2>3, Zenon DEF Onward, Backward
  <2>5. /\ {delta_history[k] : k \in 1 .. Len(delta_history)} = {}
        /\ {Advance(readings, k, common_timer_gcd) : k \in Onward(readings)} = {}
    BY <2>2, <2>4
  <2>6. Cardinality(Backward(readings)) = 0
    BY <2>4, FS_EmptySet, Zenon
  <2>7. \A k \in 2 .. Len(readings) : FALSE
    BY <2>1
  <2>8. i = - ClearCache /\ time_backwards = 0
    BY Zenon DEF StartupInit
  <2>9. Len(readings) = i + ClearCache + 1 /\ ~ (Len(readings) > 1)
    BY <2>1, <2>8
  <2> QED
    BY <2>1, <2>5, <2>6, <2>7, <2>8, <2>9, Zenon DEF LoopCounts
<1>3. Passed
  BY Zenon DEF StartupInit, Passed
<1> QED
  BY <1>1, <1>2, <1>3, Zenon DEF StartupInv

\* What one more reading adds to the measurements.
LEMMA AppendReading ==
  ASSUME NEW r \in Seq(Time), r # <<>>, NEW now \in Time
  PROVE  LET n == Len(r)
             s == Append(r, now)
         IN  /\ s \in Seq(Time) /\ Len(s) = n + 1 /\ s[n + 1] = now
             /\ \A k \in 1 .. n : s[k] = r[k]
             /\ Onward(s) = Onward(r) \cup
                  {k \in {n + 1} : n > ClearCache /\ now > r[n]}
             /\ Backward(s) = Backward(r) \cup
                  {k \in {n + 1} : n > ClearCache /\ now < r[n]}
             /\ \A k \in Onward(r) :
                   Advance(s, k, common_timer_gcd) = Advance(r, k, common_timer_gcd)
             /\ Advance(s, n + 1, common_timer_gcd) = (now - r[n]) \div common_timer_gcd
             /\ IsFiniteSet(Backward(r)) /\ n + 1 \notin Backward(r)
<1> DEFINE n == Len(r)
           s == Append(r, now)
<1> ClearCache \in Nat
  BY StartupAssumption, Zenon
<1>1. n \in Nat \ {0}
  OBVIOUS
<1>2. s \in Seq(Time) /\ Len(s) = n + 1 /\ s[n + 1] = now
  OBVIOUS
<1>3. \A k \in 1 .. n : s[k] = r[k]
  OBVIOUS
<1> HIDE DEF n, s
<1>4. \A k \in ClearCache + 2 .. n : s[k] = r[k] /\ s[k - 1] = r[k - 1]
  BY <1>1, <1>3
<1>5. s[n] = r[n] /\ (n + 1) - 1 = n
  BY <1>1, <1>3
<1>6. Onward(s) = Onward(r) \cup {k \in {n + 1} : n > ClearCache /\ now > r[n]}
  BY <1>1, <1>2, <1>4, <1>5 DEF Onward, n
<1>7. Backward(s) = Backward(r) \cup {k \in {n + 1} : n > ClearCache /\ now < r[n]}
  BY <1>1, <1>2, <1>4, <1>5 DEF Backward, n
<1>8. \A k \in Onward(r) :
         Advance(s, k, common_timer_gcd) = Advance(r, k, common_timer_gcd)
  BY <1>4, Zenon DEF Advance, Onward, n
<1>9. Advance(s, n + 1, common_timer_gcd) = (now - r[n]) \div common_timer_gcd
  BY <1>2, <1>5, Zenon DEF Advance
<1>10. IsFiniteSet(Backward(r)) /\ n + 1 \notin Backward(r)
  <2>1. Backward(r) \subseteq ClearCache + 2 .. n
    BY Zenon DEF Backward, n
  <2>2. IsFiniteSet(ClearCache + 2 .. n) /\ n + 1 \notin ClearCache + 2 .. n
    BY <1>1, FS_Interval
  <2> QED
    BY <2>1, <2>2, FS_Subset, Zenon
<1> QED
  BY <1>2, <1>3, <1>6, <1>7, <1>8, <1>9, <1>10, Zenon DEF n, s

\* A delta that is recorded is a step of the clock, and not zero; without a delta
\* the clock stands still.
LEMMA DeltaOf ==
  ASSUME NEW prev \in Time, NEW now \in Time, common_timer_gcd \in Nat \ {0},
         Delta(prev, now) # 0
  PROVE  /\ now # prev
         /\ now > prev => /\ Delta(prev, now) = (now - prev) \div common_timer_gcd
                          /\ Delta(prev, now) \in Nat \ {0}
<1> Word \in Nat \ {0}
  BY StartupAssumption, Zenon
<1>1. prev \in Nat /\ now \in Nat /\ prev < Word /\ now < Word
  BY DEF Time
<1>2. ASSUME now = prev PROVE FALSE
  <2>1. (now - prev) % Word = 0
    BY <1>1, <1>2
  <2>2. 0 \div common_timer_gcd = 0
    OBVIOUS
  <2> QED
    BY <2>1, <2>2, Zenon DEF Delta
<1>3. ASSUME now > prev
      PROVE  /\ Delta(prev, now) = (now - prev) \div common_timer_gcd
             /\ Delta(prev, now) \in Nat
  <2>1. (now - prev) % Word = now - prev /\ now - prev \in Nat
    BY <1>1, <1>3
  <2>2. Delta(prev, now) = (now - prev) \div common_timer_gcd
    BY <2>1, Zenon DEF Delta
  <2> QED
    BY <2>1, <2>2
<1> QED
  BY <1>2, <1>3, Zenon

\* A measurement, whatever it comes to.
LEMMA MeasureKeeps ==
  ASSUME StartupInv, NEW now \in Time, NEW stuck \in {0, 1},
         MeasureDelta(now, stuck)
  PROVE  StartupInv'
<1> ClearCache \in Nat /\ TestLoops \in Nat
  BY StartupAssumption, Zenon
<1> DEFINE n == Len(readings)
<1>1. StartupTypeOK /\ outcome = "running" /\ i < TestLoops
  BY Zenon DEF StartupInv, MeasureDelta
<1>2. /\ readings \in Seq(Time) /\ n = i + ClearCache + 1 /\ prev_time = readings[n]
      /\ i \in Int /\ i >= - ClearCache /\ prev_time \in Time
      /\ common_timer_gcd \in Nat \ {0}
  BY <1>1 DEF StartupInv, LoopCounts, StartupTypeOK
<1>3. n \in Nat \ {0} /\ readings # <<>>
  BY <1>2
<1>4. /\ i' = i + 1 /\ prev_time' = now /\ readings' = Append(readings, now)
      /\ osr' = osr /\ common_timer_gcd' = common_timer_gcd
      /\ outcome' = outcome /\ delta_gcd' = delta_gcd
      /\ prev_time # 0 /\ now # 0 /\ Delta(prev_time, now) # 0
  BY Zenon DEF MeasureDelta, config
<1>5. /\ readings' \in Seq(Time) /\ Len(readings') = n + 1 /\ readings'[n + 1] = now
      /\ \A k \in 1 .. n : readings'[k] = readings[k]
      /\ Onward(readings)' = Onward(readings) \cup
           {k \in {n + 1} : n > ClearCache /\ now > prev_time}
      /\ Backward(readings)' = Backward(readings) \cup
           {k \in {n + 1} : n > ClearCache /\ now < prev_time}
      /\ \A k \in Onward(readings) :
            Advance(readings', k, common_timer_gcd') = Advance(readings, k, common_timer_gcd)
      /\ Advance(readings', n + 1, common_timer_gcd') = (now - prev_time) \div common_timer_gcd
      /\ IsFiniteSet(Backward(readings)) /\ n + 1 \notin Backward(readings)
  <2> DEFINE s == Append(readings, now)
  <2>1. /\ s \in Seq(Time) /\ Len(s) = n + 1 /\ s[n + 1] = now
        /\ \A k \in 1 .. n : s[k] = readings[k]
        /\ Onward(s) = Onward(readings) \cup
             {k \in {n + 1} : n > ClearCache /\ now > readings[n]}
        /\ Backward(s) = Backward(readings) \cup
             {k \in {n + 1} : n > ClearCache /\ now < readings[n]}
        /\ \A k \in Onward(readings) :
              Advance(s, k, common_timer_gcd) = Advance(readings, k, common_timer_gcd)
        /\ Advance(s, n + 1, common_timer_gcd) = (now - readings[n]) \div common_timer_gcd
        /\ IsFiniteSet(Backward(readings)) /\ n + 1 \notin Backward(readings)
    BY <1>2, <1>3, AppendReading, Zenon
  <2>2. /\ Onward(readings)' = Onward(s) /\ Backward(readings)' = Backward(s)
        /\ \A k : Advance(readings', k, common_timer_gcd') = Advance(s, k, common_timer_gcd)
    BY <1>4, Zenon DEF Onward, Backward, Advance
  <2>3. readings' = s /\ readings[n] = prev_time
    BY <1>2, <1>4, Zenon
  <2> HIDE DEF s, n
  <2> QED
    BY <2>1, <2>2, <2>3, Zenon
<1>6. /\ now # prev_time
      /\ now > prev_time => /\ Delta(prev_time, now) = (now - prev_time) \div common_timer_gcd
                            /\ Delta(prev_time, now) \in Nat \ {0}
  BY <1>2, <1>4, DeltaOf, Zenon
<1>7. n > ClearCache <=> i >= 0
  BY <1>2
<1> DEFINE Steps == {Advance(readings, k, common_timer_gcd) : k \in Onward(readings)}
           Deltas == {delta_history[k] : k \in 1 .. Len(delta_history)}
<1>8. /\ Steps = Deltas /\ time_backwards = Cardinality(Backward(readings))
      /\ delta_history \in Seq(Nat \ {0}) /\ time_backwards \in Nat
      /\ count_stuck \in Nat
  BY <1>1, Zenon DEF StartupInv, LoopCounts, StartupTypeOK
<1>9. /\ delta_history' \in Seq(Nat \ {0}) /\ time_backwards' \in Nat
      /\ count_stuck' \in Nat
      /\ Deltas' = Steps'
      /\ time_backwards' = Cardinality(Backward(readings)')
  <2>1. CASE i < 0
    <3>1. UNCHANGED counts
      BY <1>2, <2>1 DEF MeasureDelta
    <3>2. /\ delta_history' = delta_history /\ time_backwards' = time_backwards
          /\ count_stuck' = count_stuck
      BY <3>1, Zenon DEF counts
    <3>3. Onward(readings)' = Onward(readings) /\ Backward(readings)' = Backward(readings)
      BY <1>2, <1>5, <1>7, <2>1
    <3>4. Steps' = Steps
      BY <1>5, <3>3, Zenon
    <3> QED
      BY <1>8, <3>2, <3>3, <3>4, Zenon
  <2>2. CASE i >= 0 /\ Forward(prev_time, now)
    <3>1. /\ delta_history' = Append(delta_history, Delta(prev_time, now))
          /\ time_backwards' = time_backwards /\ count_stuck' = count_stuck + stuck
      BY <1>2, <2>2 DEF MeasureDelta
    <3>2. now > prev_time
      BY <2>2, Zenon DEF Forward
    <3>3. /\ Onward(readings)' = Onward(readings) \cup {n + 1}
          /\ Backward(readings)' = Backward(readings)
      <4>1. n > ClearCache /\ ~ (now < prev_time)
        BY <1>2, <1>7, <2>2, <3>2 DEF Time
      <4> QED
        BY <1>5, <3>2, <4>1, Zenon
    <3>4. Steps' = Steps \cup {Delta(prev_time, now)}
      <4>1. Advance(readings', n + 1, common_timer_gcd') = Delta(prev_time, now)
        BY <1>5, <1>6, <3>2, Zenon
      <4> HIDE DEF n
      <4>2. (\A k \in Onward(readings)' : k \in Onward(readings) \/ k = n + 1)
        BY <3>3, Zenon
      <4>3. ASSUME NEW x \in Steps' PROVE x \in Steps \cup {Delta(prev_time, now)}
        <5>1. PICK k \in Onward(readings)' : x = Advance(readings', k, common_timer_gcd')
          BY <4>3, Zenon
        <5>2. CASE k = n + 1
          BY <4>1, <5>1, <5>2, Zenon
        <5>3. CASE k \in Onward(readings)
          <6>1. x = Advance(readings, k, common_timer_gcd)
            BY <1>5, <5>1, <5>3, Zenon
          <6> QED
            BY <5>3, <6>1, Zenon
        <5> QED
          BY <4>2, <5>1, <5>2, <5>3, Zenon
      <4>4. ASSUME NEW x \in Steps PROVE x \in Steps'
        <5>1. PICK k \in Onward(readings) : x = Advance(readings, k, common_timer_gcd)
          BY <4>4, Zenon
        <5>2. k \in Onward(readings)' /\ x = Advance(readings', k, common_timer_gcd')
          BY <1>5, <3>3, <5>1, Zenon
        <5> QED
          BY <5>2, Zenon
      <4>5. Delta(prev_time, now) \in Steps'
        <5>1. n + 1 \in Onward(readings)'
          BY <3>3, Zenon
        <5> QED
          BY <4>1, <5>1, Zenon
      <4> HIDE DEF Steps
      <4> QED
        BY <4>3, <4>4, <4>5, Zenon
    <3>5. /\ delta_history' \in Seq(Nat \ {0})
          /\ Deltas' = Deltas \cup {Delta(prev_time, now)}
      <4> DEFINE delta == Delta(prev_time, now)
                 h == delta_history
      <4>1. delta \in Nat \ {0} /\ h \in Seq(Nat \ {0}) /\ h' = Append(h, delta)
        BY <1>6, <1>8, <3>1, <3>2, Zenon
      <4> HIDE DEF delta
      <4>2. /\ h' \in Seq(Nat \ {0}) /\ Len(h') = Len(h) + 1 /\ h'[Len(h) + 1] = delta
            /\ \A k \in 1 .. Len(h) : h'[k] = h[k]
        BY <4>1
      <4>3. 1 .. Len(h') = (1 .. Len(h)) \cup {Len(h) + 1}
        BY <4>1, <4>2
      <4>4. ASSUME NEW x \in Deltas' PROVE x \in Deltas \cup {delta}
        <5>1. PICK k \in 1 .. Len(h') : x = h'[k]
          BY <4>4, Zenon
        <5>2. CASE k = Len(h) + 1
          BY <4>2, <5>1, <5>2, Zenon
        <5>3. CASE k \in 1 .. Len(h)
          BY <4>2, <5>1, <5>3, Zenon
        <5> QED
          BY <4>3, <5>1, <5>2, <5>3, Zenon
      <4>5. ASSUME NEW x \in Deltas PROVE x \in Deltas'
        <5>1. PICK k \in 1 .. Len(h) : x = h[k]
          BY <4>5, Zenon
        <5>2. k \in 1 .. Len(h') /\ x = h'[k]
          BY <4>2, <4>3, <5>1, Zenon
        <5> QED
          BY <5>2, Zenon
      <4>6. delta \in Deltas'
        <5>1. Len(h) + 1 \in 1 .. Len(h')
          BY <4>3, Zenon
        <5> QED
          BY <4>2, <5>1, Zenon
      <4>7. Deltas' = Deltas \cup {delta}
        <5> HIDE DEF Deltas
        <5> QED
          BY <4>4, <4>5, <4>6, Zenon
      <4> QED
        BY <4>2, <4>7, Zenon DEF delta
    <3>6. count_stuck' \in Nat
      BY <1>8, <3>1
    <3> QED
      BY <1>8, <3>1, <3>3, <3>4, <3>5, <3>6, Zenon
  <2>3. CASE i >= 0 /\ ~Forward(prev_time, now)
    <3>1. /\ delta_history' = delta_history
          /\ time_backwards' = time_backwards + 1 /\ count_stuck' = count_stuck + stuck
      BY <1>2, <2>3 DEF MeasureDelta
    <3>2. now < prev_time /\ ~ (now > prev_time)
      <4>1. now \in Int /\ prev_time \in Int
        BY <1>2, StartupAssumption DEF Time
      <4> QED
        BY <1>6, <2>3, <4>1 DEF Forward
    <3>3. /\ Onward(readings)' = Onward(readings)
          /\ Backward(readings)' = Backward(readings) \cup {n + 1}
      BY <1>5, <1>7, <2>3, <3>2, Zenon
    <3>4. Steps' = Steps
      BY <1>5, <3>3, Zenon
    <3>5. Cardinality(Backward(readings)') = Cardinality(Backward(readings)) + 1
      <4> DEFINE B == Backward(readings)
      <4>1. IsFiniteSet(B) /\ n + 1 \notin B
        BY <1>5, Zenon
      <4> HIDE DEF B
      <4>2. Cardinality(B \cup {n + 1}) = Cardinality(B) + 1
        BY <4>1, FS_AddElement, Zenon
      <4> QED
        BY <3>3, <4>2, Zenon DEF B
    <3>6. count_stuck' \in Nat /\ time_backwards' \in Nat
      BY <1>8, <3>1
    <3>7. Deltas' = Deltas
      BY <3>1, Zenon
    <3> HIDE DEF Steps, Deltas
    <3> QED
      BY <1>8, <3>1, <3>4, <3>5, <3>6, <3>7, Zenon
  <2>4. i < 0 \/ i >= 0
    BY <1>2
  <2> QED
    BY <2>1, <2>2, <2>3, <2>4, Zenon
<1>10. StartupTypeOK'
  <2>1. i' \in -ClearCache .. TestLoops
    BY <1>1, <1>2, <1>4
  <2> HIDE DEF Steps, Deltas, n
  <2> QED
    BY <1>1, <1>4, <1>5, <1>9, <2>1, Zenon DEF StartupTypeOK
<1>11. LoopCounts'
  <2>1. Len(readings)' = i' + ClearCache + 1
    BY <1>2, <1>4, <1>5
  <2>2. \A k \in 1 .. n : readings[k] # 0
    BY <1>1, <1>2, <1>3, <1>4 DEF StartupInv, LoopCounts
  <2>3. \A k \in 1 .. n + 1 : readings'[k] # 0
    BY <1>3, <1>4, <1>5, <2>2
  <2>4. \A k \in 2 .. n : readings[k] # readings[k - 1]
    BY <1>1, Zenon DEF StartupInv, LoopCounts
  <2>5. \A k \in 2 .. n + 1 : readings'[k] # readings'[k - 1]
    <3>1. ASSUME NEW k \in 2 .. n + 1 PROVE readings'[k] # readings'[k - 1]
      <4>1. CASE k = n + 1
        BY <1>2, <1>3, <1>5, <1>6, <4>1
      <4>2. CASE k # n + 1
        <5>1. k \in 2 .. n /\ k \in 1 .. n /\ k - 1 \in 1 .. n
          BY <1>3, <4>2
        <5> QED
          BY <1>5, <2>4, <5>1, Zenon
      <4> QED
        BY <4>1, <4>2, Zenon
    <3> QED
      BY <3>1, Zenon
  <2>6. Len(readings)' = n + 1 /\ prev_time' = readings'[n + 1]
    BY <1>4, <1>5, Zenon
  <2> QED
    BY <1>9, <2>1, <2>3, <2>5, <2>6, Zenon DEF LoopCounts
<1>12. Passed'
  BY <1>1, <1>4, Zenon DEF Passed
<1> QED
  BY <1>10, <1>11, <1>12, Zenon DEF StartupInv

\* A reading that ends the startup.
LEMMA AbortKeeps ==
  ASSUME StartupInv, NEW now \in Time, Abort(now)
  PROVE  StartupInv'
<1>1. /\ StartupTypeOK /\ readings' = Append(readings, now) /\ prev_time' = now
      /\ UNCHANGED <<i, counts, config, delta_gcd>>
      /\ outcome' \in {"ENOTIME", "ECOARSETIME"}
  BY Zenon DEF StartupInv, Abort
<1>2. StartupTypeOK'
  BY <1>1 DEF StartupTypeOK, counts, config
<1>3. LoopCounts' /\ Passed'
  BY <1>1, Zenon DEF LoopCounts, Passed
<1> QED
  BY <1>2, <1>3, Zenon DEF StartupInv

\* The analysis of the deltas at the end of the loop.
LEMMA FinishKeeps ==
  ASSUME StartupInv, NEW healthy \in BOOLEAN, Finish(healthy)
  PROVE  StartupInv'
<1>1. /\ StartupTypeOK /\ LoopCounts /\ outcome = "running" /\ i = TestLoops
      /\ UNCHANGED <<i, prev_time, counts, config, readings>>
      /\ outcome' = Result(healthy)
      /\ delta_gcd' = IF outcome' = "ok" THEN RunningGcd(delta_history) ELSE 0
  BY Zenon DEF StartupInv, Finish
<1>2. /\ i' = i /\ prev_time' = prev_time /\ delta_history' = delta_history
      /\ time_backwards' = time_backwards /\ count_stuck' = count_stuck
      /\ osr' = osr /\ common_timer_gcd' = common_timer_gcd /\ readings' = readings
  BY <1>1, Zenon DEF counts, config
<1>3. LoopCounts'
  <2>1. /\ Onward(readings)' = Onward(readings)
        /\ Backward(readings)' = Backward(readings)
    BY <1>2, Zenon DEF Onward, Backward
  <2> QED
    BY <1>1, <1>2, <2>1, Zenon DEF LoopCounts
<1>4. ASSUME outcome' = "ok"
      PROVE  /\ time_backwards <= MaxBackwards
             /\ GcdVerdict(delta_history, osr) = "ok"
             /\ ~ (StuckThreshold < count_stuck)
  <2> time_backwards \in Nat /\ MaxBackwards \in Nat
    BY <1>1, StartupAssumption, Zenon DEF StartupTypeOK
  <2>1. Result(healthy) = "ok"
    BY <1>1, <1>4, Zenon
  <2>2. ~ (time_backwards > MaxBackwards)
    BY <2>1, Zenon DEF Result
  <2>3. time_backwards <= MaxBackwards
    BY <2>2
  <2> DEFINE verdict == GcdVerdict(delta_history, osr)
             much == StuckThreshold < count_stuck
  <2>4. healthy /\ ~ (verdict = "ok" /\ much)
    <3> HIDE DEF verdict, much
    <3> QED
      BY <2>1, <2>2, <2>3, Zenon DEF Result, verdict, much
  <2>5. verdict = "ok"
    <3> HIDE DEF verdict, much
    <3>1. Result(healthy) = verdict
      BY <2>2, <2>3, <2>4, Zenon DEF Result, verdict, much
    <3> QED
      BY <2>1, <3>1, Zenon
  <2> QED
    BY <2>3, <2>4, <2>5, Zenon
<1>5. ASSUME GcdVerdict(delta_history, osr) = "ok"
      PROVE  delta_history # <<>> /\ Variation(delta_history, osr)
  BY <1>5, Zenon DEF GcdVerdict
<1>6. Passed'
  <2>1. SUFFICES ASSUME outcome' = "ok"
                 PROVE  /\ time_backwards <= MaxBackwards
                        /\ delta_history # <<>>
                        /\ Variation(delta_history, osr)
                        /\ count_stuck <= StuckThreshold
    BY <1>1, <1>2, Zenon DEF Passed, Variation, StuckThreshold
  <2>2. count_stuck \in Nat /\ StuckThreshold \in Nat
    BY <1>1, StartupAssumption DEF StartupTypeOK, StuckThreshold
  <2>3. count_stuck <= StuckThreshold
    BY <1>4, <2>1, <2>2
  <2> QED
    BY <1>4, <1>5, <2>1, <2>3, Zenon
<1>7. delta_gcd' \in Nat
  <2>1. CASE outcome' = "ok"
    BY <1>1, <1>4, <1>5, <2>1, RunningGcdCommon, Zenon DEF StartupTypeOK
  <2>2. CASE outcome' # "ok"
    BY <1>1, <2>2, Zenon
  <2> QED
    BY <2>1, <2>2, Zenon
<1>8. StartupTypeOK'
  BY <1>1, <1>2, <1>7, Zenon DEF StartupTypeOK
<1> QED
  BY <1>3, <1>6, <1>8, Zenon DEF StartupInv

\* Every step of the self-test keeps it.
LEMMA StartupInvStep == StartupInv /\ [StartupNext]_startup_vars => StartupInv'
<1> SUFFICES ASSUME StartupInv, [StartupNext]_startup_vars PROVE StartupInv'
  BY Zenon
<1>1. CASE \E now \in Time : Abort(now)
  BY <1>1, AbortKeeps, Zenon
<1>2. CASE \E now \in Time, stuck \in {0, 1} : MeasureDelta(now, stuck)
  BY <1>2, MeasureKeeps, Zenon
<1>3. CASE \E healthy \in BOOLEAN : Finish(healthy)
  BY <1>3, FinishKeeps, Zenon
<1>4. CASE UNCHANGED startup_vars
  <2>1. /\ i' = i /\ prev_time' = prev_time /\ delta_history' = delta_history
        /\ time_backwards' = time_backwards /\ count_stuck' = count_stuck
        /\ osr' = osr /\ common_timer_gcd' = common_timer_gcd
        /\ outcome' = outcome /\ delta_gcd' = delta_gcd
        /\ readings' = readings
    BY <1>4, Zenon DEF startup_vars, counts, config
  <2>2. StartupTypeOK'
    BY <2>1, Zenon DEF StartupInv, StartupTypeOK
  <2>3. LoopCounts'
    <3>1. /\ Onward(readings)' = Onward(readings)
          /\ Backward(readings)' = Backward(readings)
      BY <2>1, Zenon DEF Onward, Backward
    <3> QED
      BY <2>1, <3>1, Zenon DEF StartupInv, LoopCounts
  <2>4. Passed'
    BY <2>1, Zenon DEF StartupInv, Passed, Variation
  <2> QED
    BY <2>2, <2>3, <2>4, Zenon DEF StartupInv
<1> QED
  BY <1>1, <1>2, <1>3, <1>4, Zenon DEF StartupNext

\* The invariant holds in every state of a run.
LEMMA StartupInvAlways == StartupSpec => []StartupInv
<1>1. StartupInv /\ UNCHANGED startup_vars => StartupInv'
  BY StartupInvStep, Zenon
<1> QED
  BY StartupInvInit, StartupInvStep, PTL DEF StartupSpec

-----------------------------------------------------------------------------
(* The startup test: what a clock that passes is *)

\* The steps of the clock are the deltas the loop has recorded.
LEMMA StepsRecorded ==
  ASSUME StartupInv, outcome = "ok"
  PROVE  ForwardSteps = {delta_history[k] : k \in 1 .. Len(delta_history)}
<1>1. Measured(LAMBDA a, b : b > a) = Onward(readings)
  BY Zenon DEF Measured, Onward
<1>2. ForwardSteps = {Advance(readings, k, common_timer_gcd) : k \in Onward(readings)}
  BY <1>1, Zenon DEF ForwardSteps, Advance
<1> QED
  BY <1>2, Zenon DEF StartupInv, LoopCounts

\* jent_gcd_store() gets the greatest common divisor of the steps the clock made
\* forward: Euclid's algorithm over the deltas of the loop, for every length of
\* the loop, width of the clock and divisor of the collector that measures.
THEOREM DivisorGreatest == StartupSpec => []DivisorIsGreatest
<1>1. ASSUME StartupInv PROVE DivisorIsGreatest
  <2> SUFFICES ASSUME outcome = "ok"
               PROVE  /\ delta_gcd # 0
                      /\ \A s \in ForwardSteps : s % delta_gcd = 0
                      /\ \A d \in delta_gcd + 1 .. Word : ~ \A s \in ForwardSteps : s % d = 0
    BY Zenon DEF DivisorIsGreatest
  <2>1. /\ delta_history \in Seq(Nat \ {0}) /\ delta_history # <<>>
        /\ delta_gcd = RunningGcd(delta_history)
    BY <1>1, Zenon DEF StartupInv, StartupTypeOK, Passed
  <2>2. /\ delta_gcd \in Nat \ {0}
        /\ \A d \in Nat \ {0} :
             delta_gcd % d = 0 <=> \A k \in 1 .. Len(delta_history) : delta_history[k] % d = 0
    BY <2>1, RunningGcdCommon, Zenon
  <2>3. \A d \in Nat \ {0} : delta_gcd % d = 0 <=> \A s \in ForwardSteps : s % d = 0
    BY <1>1, <2>2, StepsRecorded, Zenon
  <2>4. delta_gcd % delta_gcd = 0
    BY <2>2
  <2>5. ASSUME NEW d \in delta_gcd + 1 .. Word PROVE d \in Nat \ {0} /\ delta_gcd % d # 0
    <3>1. delta_gcd \in Nat /\ d \in Nat \ {0} /\ delta_gcd < d
      BY <2>2, StartupAssumption
    <3>2. delta_gcd % d = delta_gcd
      BY <3>1, SmallRemainder, Zenon
    <3> QED
      BY <2>2, <3>1, <3>2, Zenon
  <2> QED
    BY <2>2, <2>3, <2>4, <2>5, Zenon
<1> QED
  BY <1>1, StartupInvAlways, PTL

\* A passed startup has seen a clock that works, whatever the clock, the loop's
\* length and the tolerance are.
THEOREM ClockWorks == StartupSpec => []PassedClockWorks
<1>1. ASSUME StartupInv PROVE PassedClockWorks
  <2> SUFFICES ASSUME outcome = "ok"
               PROVE  /\ \A k \in DOMAIN readings : readings[k] # 0
                      /\ \A k \in 2 .. Len(readings) : readings[k] # readings[k - 1]
                      /\ Cardinality(Measured(LAMBDA a, b : b < a)) <= MaxBackwards
                      /\ osr * DeltaSum(delta_history) >= delta_gcd * Len(delta_history)
                      /\ 10 * count_stuck <= 9 * TestLoops
    BY Zenon DEF PassedClockWorks
  <2>1. StartupTypeOK /\ LoopCounts /\ Passed
    BY <1>1, Zenon DEF StartupInv
  <2> ClearCache \in Nat /\ TestLoops \in Nat \ {0}
    BY StartupAssumption, Zenon
  <2>2. Len(readings) = TestLoops + ClearCache + 1 /\ DOMAIN readings = 1 .. Len(readings)
    BY <2>1 DEF StartupTypeOK, LoopCounts, Passed
  <2>3. \A k \in DOMAIN readings : readings[k] # 0
    <3>1. Len(readings) > 1
      BY <2>2
    <3> QED
      BY <2>1, <2>2, <3>1, Zenon DEF LoopCounts
  <2>4. \A k \in 2 .. Len(readings) : readings[k] # readings[k - 1]
    BY <2>1, Zenon DEF LoopCounts
  <2>5. Measured(LAMBDA a, b : b < a) = Backward(readings)
    BY Zenon DEF Measured, Backward
  <2>6. Cardinality(Measured(LAMBDA a, b : b < a)) <= MaxBackwards
    BY <2>1, <2>5, Zenon DEF LoopCounts, Passed
  <2>7. osr * DeltaSum(delta_history) >= delta_gcd * Len(delta_history)
    <3>1. /\ delta_history \in Seq(Nat \ {0}) /\ delta_history # <<>> /\ osr \in Nat
          /\ Variation(delta_history, osr) /\ delta_gcd = RunningGcd(delta_history)
      BY <2>1, Zenon DEF StartupTypeOK, Passed
    <3> QED
      BY <3>1, VariationSeen, Zenon
  <2>8. 10 * count_stuck <= 9 * TestLoops
    BY <2>1 DEF StartupTypeOK, Passed, StuckThreshold
  <2> QED
    BY <2>3, <2>4, <2>6, <2>7, <2>8, Zenon
<1> QED
  BY <1>1, StartupInvAlways, PTL
=============================================================================
