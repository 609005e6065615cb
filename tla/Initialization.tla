--------------------------- MODULE Initialization ---------------------------
(***************************************************************************)
(* The process-wide state several threads establish at once: whether an    *)
(* initialization has passed, whether the internal timer is forced, and    *)
(* the common divisor (GCD) of the deltas of each clock.                   *)
(*                                                                         *)
(* A thread runs jent_entropy_init_ex() or allocates a collector.  Every   *)
(* atomic load and store is a step of its own.  What the self tests and a  *)
(* measurement of a clock find is an input.                                *)
(***************************************************************************)
EXTENDS Integers

CONSTANTS Thread, Divisor

ASSUME InitializationAssumption == Divisor \subseteq Nat \ {0}

Clock == {"platform", "notime"}

\* The flags that matter here: none, JENT_DISABLE_INTERNAL_TIMER,
\* JENT_FORCE_INTERNAL_TIMER, JENT_NTG1.  What contradicts itself is refused
\* before anything else.
Flags == {"plain", "disable", "force", "ntg1"}

VARIABLES selftest_run,   \* jent_selftest_run
          forced,         \* jent_force_internal_timer
          gcd,            \* jent_common_timer_gcd[], 0 is not established
          pc,             \* where each thread is
          flags,          \* the flags of its call
          allocating,     \* 1 in jent_entropy_collector_alloc()
          measures,       \* the clock its startup measures
          caller,         \* where jent_time_entropy_init() returns to
          ret,            \* the result so far, 0 or an error
          clock,          \* the clock of the collector it allocates
          divisor,        \* the collector's divisor, 0 if there is none
          failures        \* history: 1 once a test or a measurement failed

shared == <<selftest_run, forced, gcd>>
call == <<flags, allocating>>
startup == <<measures, caller>>
collector == <<clock, divisor>>
vars == <<shared, pc, call, startup, ret, collector, failures>>

Goto(t, label) == pc' = [pc EXCEPT ![t] = label]

Returns(t, error) == ret' = [ret EXCEPT ![t] = error]

\* jent_time_entropy_init() on a clock.
MeasureClock(t, c, from) ==
  /\ measures' = [measures EXCEPT ![t] = c]
  /\ caller' = [caller EXCEPT ![t] = from]
  /\ Goto(t, "measure")

\* JENT_NTG1 implies JENT_DISABLE_INTERNAL_TIMER.
Disabled(f) == f \in {"disable", "ntg1"}

-----------------------------------------------------------------------------

Init ==
  /\ selftest_run = 0
  /\ forced = 0
  /\ gcd = [c \in Clock |-> 0]
  /\ pc = [t \in Thread |-> "idle"]
  /\ flags = [t \in Thread |-> "plain"]
  /\ allocating = [t \in Thread |-> 0]
  /\ measures = [t \in Thread |-> "platform"]
  /\ caller = [t \in Thread |-> "first"]
  /\ ret = [t \in Thread |-> 0]
  /\ clock = [t \in Thread |-> "platform"]
  /\ divisor = [t \in Thread |-> 0]
  /\ failures = 0

\* A thread calls jent_entropy_init_ex() or jent_entropy_collector_alloc().
\* The collector it had is freed.
Begin(t, f, alloc) ==
  /\ pc[t] = "idle"
  /\ flags' = [flags EXCEPT ![t] = f]
  /\ allocating' = [allocating EXCEPT ![t] = alloc]
  /\ clock' = [clock EXCEPT ![t] = "platform"]
  /\ divisor' = [divisor EXCEPT ![t] = 0]
  /\ Returns(t, 0)
  /\ Goto(t, IF alloc = 1 THEN "alloc" ELSE "pre")
  /\ UNCHANGED <<shared, startup, failures>>

-----------------------------------------------------------------------------
(* jent_entropy_init_ex() *)

\* What jent_entropy_init_common_pre() does with the mark.  First, one that
\* marks the process once the self tests have passed.
MarkedByTests(passed) == IF passed THEN 1 ELSE 0

MarkAfterTests(passed) == IF passed THEN selftest_run ELSE 0

\* jent_entropy_init_common_pre()
Pre(t, passed) ==
  /\ pc[t] = "pre"
  /\ selftest_run' = MarkAfterTests(passed)
  /\ failures' = IF passed THEN failures ELSE 1
  /\ Returns(t, IF passed THEN 0 ELSE 1)
  /\ Goto(t, IF passed THEN "first" ELSE "return")
  /\ UNCHANGED <<forced, gcd, call, startup, collector>>

\* Test without the internal timer unless the caller does not want it.
First(t) ==
  /\ pc[t] = "first"
  /\ \/ /\ flags[t] = "force"
        /\ Returns(t, 1)
        /\ Goto(t, "second")
        /\ UNCHANGED startup
     \/ /\ flags[t] # "force"
        /\ MeasureClock(t, "platform", "second")
        /\ UNCHANGED ret
  /\ UNCHANGED <<shared, call, collector, failures>>

\* Whether the internal timer is tried at all.  First, without the exception of
\* NTG.1.
FallsBackUnlessDisabled(f) == f # "disable"

FallsBack(f) == ~Disabled(f)

\* Test with the internal timer unless the caller does not want it.
Second(t) ==
  /\ pc[t] = "second"
  /\ \/ /\ ret[t] = 1 /\ FallsBack(flags[t])
        /\ MeasureClock(t, "notime", "post")
     \/ /\ ret[t] = 0 \/ ~FallsBack(flags[t])
        /\ Goto(t, "post")
        /\ UNCHANGED startup
  /\ UNCHANGED <<shared, call, ret, collector, failures>>

\* The mark an initialization ends with, !ret.
MarkNegated(error) == 1 - error

\* jent_entropy_init_common_post()
Post(t) ==
  /\ pc[t] = "post"
  /\ selftest_run' = MarkNegated(ret[t])
  /\ Goto(t, "return")
  /\ UNCHANGED <<forced, gcd, call, startup, ret, collector, failures>>

\* The end of jent_entropy_init_ex(): an allocation that ran it goes on.
InitReturn(t) ==
  /\ pc[t] = "return"
  /\ Goto(t, IF allocating[t] = 1 /\ ret[t] = 0 THEN "timer" ELSE "idle")
  /\ UNCHANGED <<shared, call, startup, ret, collector, failures>>

-----------------------------------------------------------------------------
(* jent_time_entropy_init() *)

\* The internal timer is forced before it is measured; a platform clock is not
\* measured once it is.
MeasureBegin(t) ==
  /\ pc[t] = "measure"
  /\ \/ /\ measures[t] = "notime"
        /\ forced' = 1
        /\ Goto(t, "verdict")
        /\ UNCHANGED ret
     \/ /\ measures[t] = "platform" /\ forced = 0
        /\ Goto(t, "measure_alloc")
        /\ UNCHANGED <<forced, ret>>
     \/ /\ measures[t] = "platform" /\ forced = 1
        /\ Returns(t, 1)
        /\ Goto(t, caller[t])
        /\ UNCHANGED forced
  /\ UNCHANGED <<selftest_run, gcd, call, startup, collector, failures>>

\* jent_entropy_collector_alloc_internal() of the collector that measures the
\* platform clock looks at the forced timer again.
MeasureAlloc(t) ==
  /\ pc[t] = "measure_alloc"
  /\ \/ /\ forced = 1
        /\ Returns(t, 1)
        /\ Goto(t, caller[t])
     \/ /\ forced = 0
        /\ Goto(t, "verdict")
        /\ UNCHANGED ret
  /\ UNCHANGED <<shared, call, startup, collector, failures>>

\* The measurements and their analysis fail.
MeasureFails(t) ==
  /\ pc[t] = "verdict"
  /\ Returns(t, 1)
  /\ failures' = 1
  /\ Goto(t, caller[t])
  /\ UNCHANGED <<shared, call, startup, collector>>

\* What jent_gcd_store() makes of a clock's divisor.  First, a store.
Stored(old, new) == new

CompareAndSwapped(old, new) == IF old = 0 THEN new ELSE old

\* They pass, and establish the divisor of the clock.
MeasurePasses(t, d) ==
  /\ pc[t] = "verdict"
  /\ gcd' = [gcd EXCEPT ![measures[t]] = CompareAndSwapped(@, d)]
  /\ Returns(t, 0)
  /\ Goto(t, caller[t])
  /\ UNCHANGED <<selftest_run, forced, call, startup, collector, failures>>

-----------------------------------------------------------------------------
(* jent_entropy_collector_alloc_internal() *)

\* Run the initialization unless one has passed.
Alloc(t) ==
  /\ pc[t] = "alloc"
  /\ Goto(t, IF selftest_run = 1 THEN "timer" ELSE "pre")
  /\ UNCHANGED <<shared, call, startup, ret, collector, failures>>

\* A collector that must not use the internal timer is refused once it is
\* forced.
Refused(f) == forced = 1 /\ Disabled(f)

AllocTimer(t) ==
  /\ pc[t] = "timer"
  /\ \/ /\ Refused(flags[t])
        /\ Returns(t, 1)
        /\ Goto(t, "idle")
     \/ /\ ~Refused(flags[t])
        /\ Goto(t, IF Disabled(flags[t]) THEN "divisor" ELSE "enable")
        /\ UNCHANGED ret
  /\ UNCHANGED <<shared, call, startup, collector, failures>>

\* jent_notime_enable() reads the forced timer once.
AllocEnable(t) ==
  /\ pc[t] = "enable"
  /\ \/ /\ forced = 1
        /\ clock' = [clock EXCEPT ![t] = "notime"]
        /\ Goto(t, "divisor")
        /\ UNCHANGED startup
     \/ /\ forced = 0 /\ flags[t] = "force"
        /\ MeasureClock(t, "notime", "enabled")
        /\ UNCHANGED clock
     \/ /\ forced = 0 /\ flags[t] # "force"
        /\ Goto(t, "divisor")
        /\ UNCHANGED <<startup, clock>>
  /\ UNCHANGED <<shared, call, ret, divisor, failures>>

\* Its startup of the internal timer is over.
AllocEnabled(t) ==
  /\ pc[t] = "enabled"
  /\ clock' = [clock EXCEPT ![t] = IF ret[t] = 0 THEN "notime" ELSE @]
  /\ Goto(t, IF ret[t] = 0 THEN "divisor" ELSE "idle")
  /\ UNCHANGED <<shared, call, startup, ret, divisor, failures>>

\* The divisor of the clock the collector reads.
DivisorOf(t) == gcd[clock[t]]

\* jent_gcd_get(): no divisor means no startup has measured this clock.
AllocDivisor(t) ==
  /\ pc[t] = "divisor"
  /\ divisor' = [divisor EXCEPT ![t] = DivisorOf(t)]
  /\ Returns(t, IF DivisorOf(t) = 0 THEN 1 ELSE 0)
  /\ Goto(t, "idle")
  /\ UNCHANGED <<shared, call, startup, clock, failures>>

-----------------------------------------------------------------------------

Initialize(t) ==
  \/ \E passed \in BOOLEAN : Pre(t, passed)
  \/ First(t) \/ Second(t) \/ Post(t) \/ InitReturn(t)

Measure(t) ==
  \/ MeasureBegin(t) \/ MeasureAlloc(t) \/ MeasureFails(t)
  \/ \E d \in Divisor : MeasurePasses(t, d)

Allocate(t) ==
  Alloc(t) \/ AllocTimer(t) \/ AllocEnable(t) \/ AllocEnabled(t) \/ AllocDivisor(t)

Next ==
  \E t \in Thread :
    \/ \E f \in Flags, alloc \in {0, 1} : Begin(t, f, alloc)
    \/ Initialize(t) \/ Measure(t) \/ Allocate(t)

Spec == Init /\ [][Next]_vars

-----------------------------------------------------------------------------
(* Properties *)

\* A thread holds a collector that generates.
Holds(t) == pc[t] = "idle" /\ allocating[t] = 1 /\ ret[t] = 0

\* A collector divides by the divisor its own clock has for everyone, whatever
\* other threads measured, forced or failed meanwhile, and it reads the clock
\* its flags allow: a compliance mode that excludes the internal timer never
\* gets it.
CollectorOnMeasuredClock ==
  \A t \in Thread :
    Holds(t) => /\ divisor[t] = gcd[clock[t]]
                /\ divisor[t] # 0
                /\ Disabled(flags[t]) => clock[t] = "platform"
                /\ flags[t] = "force" => clock[t] = "notime"

\* "set earlier, an allocation racing a first initialization skipped its own
\* and found no GCD yet": with every test passed and the internal timer not
\* forced no allocation is refused, however it races.
NoSpuriousRefusal ==
  \A t \in Thread :
    pc[t] = "idle" /\ ret[t] = 1 => failures = 1 \/ forced = 1

\* No failure of an NTG.1 startup forces the internal timer, "after which no
\* collector in this process can be allocated with the internal timer disabled".
ForcedOnRequest ==
  [][forced' # forced =>
       \E t \in Thread : pc[t] = "measure" /\ ~Disabled(flags[t])]_forced
=============================================================================
