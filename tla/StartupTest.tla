---------------------------- MODULE StartupTest ----------------------------
(***************************************************************************)
(* jent_time_entropy_init(): the measurements of a startup, what it makes  *)
(* of the clock's readings, and the analysis of the recorded deltas with   *)
(* their common divisor.                                                   *)
(*                                                                         *)
(* The readings of the clock, the verdict of the stuck test and the one of *)
(* the health tests are inputs.                                            *)
(***************************************************************************)
EXTENDS Integers, Sequences, FiniteSets

CONSTANTS ClearCache,     \* CLEARCACHE, measurements that are not evaluated
          TestLoops,      \* JENT_POWERUP_TESTLOOPCOUNT
          MaxBackwards,   \* the three times the clock may run backwards
          Word,           \* 2^64, the readings are below it
          GcdLimit,       \* UINT32_MAX / 2
          Rates,          \* the oversampling rates of a startup
          TimerGcd        \* the divisors its collector may find

ASSUME StartupAssumption ==
  /\ {ClearCache, MaxBackwards} \subseteq Nat
  /\ {TestLoops, Word, GcdLimit} \subseteq Nat \ {0}
  /\ MaxBackwards < TestLoops
  /\ Rates \subseteq Nat \ {0}
  /\ TimerGcd \subseteq Nat \ {0}

Time == 0 .. Word - 1

VARIABLES i,               \* the loop counter
          prev_time,       \* ec->prev_time
          delta_history,   \* delta_history[0 .. nelem - 1]
          time_backwards, count_stuck,
          osr,             \* ec->osr
          common_timer_gcd,   \* ec->jent_common_timer_gcd
          outcome,         \* ret: "running", "ok" or the error
          delta_gcd,       \* the divisor it establishes, 0 is none
          readings         \* history: the readings of the clock

config == <<osr, common_timer_gcd>>
counts == <<delta_history, time_backwards, count_stuck>>
startup_vars == <<i, prev_time, counts, config, outcome, delta_gcd, readings>>

-----------------------------------------------------------------------------
(* The divisor *)

\* One round of the loop of jent_gcd64().
Round(p) == IF p[2] = 0 THEN p ELSE <<p[2], p[1] % p[2]>>

\* jent_gcd64(), the larger argument first.  A round makes the remainder smaller,
\* so that its first value bounds their number.
Gcd64(a, b) ==
  LET start == IF a < b THEN <<b, a>> ELSE <<a, b>>
      loop[k \in 0 .. start[2]] == IF k = 0 THEN start ELSE Round(loop[k - 1])
  IN  loop[start[2]][1]

\* jent_gcd_analyze_internal()
RunningGcd(h) ==
  LET running_gcd[k \in 0 .. Len(h) - 1] ==
        IF k = 0 THEN h[1] ELSE Gcd64(h[k + 1], running_gcd[k - 1])
  IN  running_gcd[Len(h) - 1]

Distance(x, y) == IF x >= y THEN x - y ELSE y - x

DeltaSum(h) ==
  LET delta_sum[k \in 0 .. Len(h) - 1] ==
        IF k = 0 THEN 0 ELSE (delta_sum[k - 1] + Distance(h[k + 1], h[k])) % Word
  IN  delta_sum[Len(h) - 1]

\* The variation a rate asks for.  First, a variation of less than one unit
\* taken for enough.
VariationRounded(h, o) == DeltaSum(h) * o + o > Len(h)

Variation(h, o) == ((DeltaSum(h) \div RunningGcd(h)) * o) % Word >= Len(h)

\* jent_gcd_verdict()
GcdVerdict(h, o) ==
  CASE h = <<>> -> "ENOMONOTONIC"
    [] h # <<>> /\ ~Variation(h, o) -> "EMINVARVAR"
    [] h # <<>> /\ Variation(h, o) /\ RunningGcd(h) >= GcdLimit -> "ECOARSETIME"
    [] OTHER -> "ok"

-----------------------------------------------------------------------------
(* The measurements *)

\* jent_delta() and the division of jent_measure_jitter().
Delta(prev, now) == ((now - prev) % Word) \div common_timer_gcd

\* Whether the clock went on from one reading to the next.  First, the check
\* that took the delta for it.
ForwardByDelta(start, end) == Delta(start, end) > 0

Forward(start, end) == end > start

\* JENT_STUCK_INIT_THRES()
StuckThreshold == (TestLoops * 9) \div 10

\* The collector and its first reading.
StartupInit ==
  /\ i = -ClearCache
  /\ prev_time \in Time
  /\ delta_history = <<>>
  /\ time_backwards = 0
  /\ count_stuck = 0
  /\ osr \in Rates
  /\ common_timer_gcd \in TimerGcd
  /\ outcome = "running"
  /\ delta_gcd = 0
  /\ readings = <<prev_time>>

\* A reading is zero, or no later than the last one.
Abort(now) ==
  /\ outcome = "running" /\ i < TestLoops
  /\ \/ prev_time = 0 \/ now = 0
     \/ Delta(prev_time, now) = 0
  /\ outcome' = IF prev_time = 0 \/ now = 0 THEN "ENOTIME" ELSE "ECOARSETIME"
  /\ prev_time' = now
  /\ readings' = Append(readings, now)
  /\ UNCHANGED <<i, counts, config, delta_gcd>>

\* One measurement.
MeasureDelta(now, stuck) ==
  /\ outcome = "running" /\ i < TestLoops
  /\ prev_time # 0 /\ now # 0
  /\ Delta(prev_time, now) # 0
  /\ i' = i + 1
  /\ prev_time' = now
  /\ readings' = Append(readings, now)
  /\ \/ /\ i < 0
        /\ UNCHANGED counts
     \/ /\ i >= 0
        /\ count_stuck' = count_stuck + stuck
        /\ \/ /\ Forward(prev_time, now)
              /\ delta_history' = Append(delta_history, Delta(prev_time, now))
              /\ UNCHANGED time_backwards
           \/ /\ ~Forward(prev_time, now)
              /\ time_backwards' = time_backwards + 1
              /\ UNCHANGED delta_history
  /\ UNCHANGED <<config, outcome, delta_gcd>>

\* What the loop's results mean, in the order they are looked at.
Result(healthy) ==
  CASE time_backwards > MaxBackwards -> "ENOMONOTONIC"
    [] time_backwards <= MaxBackwards /\ ~healthy -> "EHEALTH"
    [] /\ time_backwards <= MaxBackwards /\ healthy
       /\ GcdVerdict(delta_history, osr) = "ok"
       /\ StuckThreshold < count_stuck -> "ESTUCK"
    [] OTHER -> GcdVerdict(delta_history, osr)

\* "Only a passed startup establishes the divisor of its clock."
Finish(healthy) ==
  /\ outcome = "running" /\ i = TestLoops
  /\ outcome' = Result(healthy)
  /\ delta_gcd' = IF outcome' = "ok" THEN RunningGcd(delta_history) ELSE 0
  /\ UNCHANGED <<i, prev_time, counts, config, readings>>

StartupNext ==
  \/ \E now \in Time : Abort(now)
  \/ \E now \in Time, stuck \in {0, 1} : MeasureDelta(now, stuck)
  \/ \E healthy \in BOOLEAN : Finish(healthy)

StartupSpec == StartupInit /\ [][StartupNext]_startup_vars

-----------------------------------------------------------------------------
(* Properties *)

\* The measurements of the loop in which the clock did what R says.
Measured(R(_, _)) ==
  {k \in ClearCache + 2 .. Len(readings) : R(readings[k - 1], readings[k])}

\* The steps of the clock from a reading to a later one, as the collector that
\* measures them divides them.
ForwardSteps ==
  {(readings[k] - readings[k - 1]) \div common_timer_gcd :
     k \in Measured(LAMBDA a, b : b > a)}

\* The divisor jent_gcd_store() gets is the greatest one of all the steps the
\* clock made forward - no step back that wrapped around is among them and none
\* is missing - and never zero: "the guard states the invariant rather than
\* covering a reachable case".
DivisorIsGreatest ==
  LET divides(d) == \A s \in ForwardSteps : s % d = 0
  IN  outcome = "ok" => /\ delta_gcd # 0
                        /\ divides(delta_gcd)
                        /\ \A d \in delta_gcd + 1 .. Word : ~divides(d)

\* A passed startup has seen a clock that works: it never read zero or the same
\* value twice, went back at most the tolerated number of times, its steps vary,
\* in units of their divisor, by at least one unit per osr of them - as far as
\* 64 bits sum it up - and no more than nine in ten measurements were stuck.
PassedClockWorks ==
  outcome = "ok" =>
    /\ \A k \in DOMAIN readings : readings[k] # 0
    /\ \A k \in 2 .. Len(readings) : readings[k] # readings[k - 1]
    /\ Cardinality(Measured(LAMBDA a, b : b < a)) <= MaxBackwards
    /\ osr * DeltaSum(delta_history) >= delta_gcd * Len(delta_history)
    /\ 10 * count_stuck <= 9 * TestLoops
=============================================================================
