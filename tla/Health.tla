------------------------------- MODULE Health -------------------------------
(***************************************************************************)
(* The health tests of one instance in a compliance mode, put together:    *)
(* the stuck test, the adaptive proportion test, the lag predictor and the *)
(* repetition count test see the same time deltas, are restarted together  *)
(* by every startup stage and are carried over together to a replacement.  *)
(*                                                                         *)
(* The repetition count test with memory is the subject of module          *)
(* RandomData.  To the tests of this module its recovery is further        *)
(* measurements - of the combined noise source, also where it interrupts a *)
(* startup stage.                                                          *)
(***************************************************************************)
EXTENDS Rct, Apt, Lag

CONSTANTS Word,         \* a time delta is a number modulo Word
          StuckPrime    \* JENT_STUCK_PRIME

ASSUME HealthAssumption ==
  /\ Word \in Nat \ {0}
  /\ Delta = 0 .. Word - 1
  /\ StuckPrime \in Nat /\ StuckPrime >= 2   \* the second and third derivative

VARIABLES stuck_prime,     \* ec->stuck_prime
          startup_state,   \* ec->startup_state, the noise source measured
          saved_state,     \* saved_state of a recovery, or "none"
          in_startup,      \* 1 in jent_entropy_collector_startup(), else 0
          measured,        \* history: the last deltas the tests have seen of
                           \* this noise source, at most two, the later first
          interrupted      \* history: 1 if a recovery interrupted the stage

health_vars == <<osr, rct_vars, apt_vars, lag_vars,
                 stuck_prime, startup_state, saved_state, in_startup,
                 measured, interrupted>>

Stage == {"memory", "sha3", "completed"}

\* jent_health_failure_query() in a compliance mode.
HealthFailure == rct_failure \cup apt_failure \cup lag_failure

-----------------------------------------------------------------------------
(* The stuck test *)

\* jent_delta()
Minus(prev, next) == (next - prev) % Word

\* A measurement is stuck if its delta or the second or third derivative is
\* zero.
IsStuck(delta, prev, prevprev) ==
  LET delta2 == Minus(prev, delta)
      delta3 == Minus(Minus(prevprev, prev), delta2)
  IN  delta = 0 \/ delta2 = 0 \/ delta3 = 0

\* The verdict of jent_stuck(), on the references of jent_delta2() and
\* jent_delta3().
Stuck(delta) == IsStuck(delta, History(0), History(1))

\* A noise source's first deltas, which are not judged.
Unjudged == stuck_prime > 0

\* jent_stuck() with its call of jent_rct_mem_insert() left to RandomData.
JentStuck(delta) ==
  \/ /\ Unjudged
     /\ stuck_prime' = stuck_prime - 1
     /\ LagInsert(delta)
     /\ UNCHANGED <<rct_vars, apt_vars>>
  \/ /\ ~Unjudged
     /\ AptInsert(delta)
     /\ LagInsert(delta)
     /\ RctInsert(Stuck(delta))
     /\ UNCHANGED stuck_prime

-----------------------------------------------------------------------------
(* The steps of a collector *)

\* The state jent_entropy_collector_alloc_internal() gives a collector.
HealthInit ==
  /\ RctInit
  /\ AptInit
  /\ LagInit
  /\ stuck_prime = StuckPrime
  /\ startup_state = "memory"
  /\ saved_state = "none"
  /\ in_startup = 1
  /\ measured = <<>>
  /\ interrupted = 0

\* One measurement of jent_random_data_one(), of the stage's own source: the
\* time the memory accesses took, or the hash loop, or both.
Measure(delta) ==
  /\ HealthFailure = {}
  /\ JentStuck(delta)
  /\ measured' = IF measured = <<>> THEN <<delta>> ELSE <<delta, measured[1]>>
  /\ UNCHANGED <<osr, startup_state, saved_state, in_startup, interrupted>>

\* The RCT with memory starts a recovery with a stuck measurement - how many it
\* takes is the subject of RandomData.  It parks the startup state, and the
\* recovery's calls of jent_random_data() measure the combined source, without
\* a jent_health_init().
RecoveryStart ==
  /\ saved_state = "none"
  /\ stuck_prime = 0
  /\ rct_count > 0
  /\ saved_state' = startup_state
  /\ startup_state' = "completed"
  /\ measured' = IF startup_state = "completed" THEN measured ELSE <<>>
  /\ interrupted' = IF startup_state = "completed" THEN interrupted ELSE 1
  /\ UNCHANGED <<osr, rct_vars, apt_vars, lag_vars, stuck_prime, in_startup>>

\* The recovery is over, and the interrupted stage measures on.
RecoveryEnd ==
  /\ saved_state # "none"
  /\ saved_state' = "none"
  /\ startup_state' = saved_state
  /\ measured' = IF saved_state = "completed" THEN measured ELSE <<>>
  /\ UNCHANGED <<osr, rct_vars, apt_vars, lag_vars, stuck_prime, in_startup,
                 interrupted>>

\* What a restart makes of the unjudged deltas still to come.  First, one that
\* does not ask for any.
PrimeKept == UNCHANGED stuck_prime

PrimeAgain == stuck_prime' = StuckPrime

\* A stage of jent_random_data() has its block, or a health test failed: the
\* next stage starts either way, with the health tests restarted by
\* jent_health_init().
StageEnd ==
  /\ startup_state # "completed"
  /\ saved_state = "none"
  /\ startup_state' = IF startup_state = "memory" THEN "sha3" ELSE "completed"
  /\ RctRestart
  /\ AptReset
  /\ LagCleared
  /\ UNCHANGED lag_failure
  /\ PrimeAgain
  /\ measured' = <<>>
  /\ interrupted' = 0
  /\ UNCHANGED <<osr, saved_state, in_startup>>

\* The loop of jent_entropy_collector_startup() ends.
StartupDone ==
  /\ in_startup = 1
  /\ startup_state = "completed"
  /\ saved_state = "none"
  /\ HealthFailure = {}
  /\ in_startup' = 0
  /\ UNCHANGED <<osr, rct_vars, apt_vars, lag_vars, stuck_prime,
                 startup_state, saved_state, measured, interrupted>>

\* A replacement at rate o, as jent_health_init() leaves it.
Allocated(o) ==
  /\ osr' = o
  /\ PrimeAgain
  /\ measured' = <<>>
  /\ interrupted' = 0

\* What jent_health_duplicate() makes of a replacement at rate o.  First, one
\* that forgets a test.
DuplicateNoRct(o) ==
  /\ Allocated(o) /\ AptDuplicate(o) /\ LagDuplicate
  /\ rct_count' = 0 /\ rct_failure' = {} /\ rct_run' = 0 /\ rct_base' = 0

Duplicate(o) ==
  /\ Allocated(o)
  /\ RctDuplicate(o)
  /\ AptDuplicate(o)
  /\ LagDuplicate

\* jent_health_failure_reset() in the startup: the startup carries on with a
\* replacement at its first stage, whatever the failure was.
StartupReset(o) ==
  /\ in_startup = 1
  /\ startup_state = "completed"
  /\ saved_state = "none"
  /\ HealthFailure # {}
  /\ startup_state' = "memory"
  /\ Duplicate(o)
  /\ UNCHANGED <<in_startup, saved_state>>

\* jent_health_failure_reset() in jent_read_entropy_safe(): an intermittent
\* failure, and a replacement that has been through its startup.
ReadReset(o) ==
  /\ in_startup = 0
  /\ saved_state = "none"
  /\ "intermittent" \in HealthFailure
  /\ "permanent" \notin HealthFailure
  /\ Duplicate(o)
  /\ UNCHANGED <<startup_state, saved_state, in_startup>>

HealthNext ==
  \/ \E delta \in Delta : Measure(delta)
  \/ RecoveryStart
  \/ RecoveryEnd
  \/ StageEnd
  \/ StartupDone
  \/ \E o \in Raised : StartupReset(o)
  \/ \E o \in Raised : ReadReset(o)

HealthSpec == HealthInit /\ [][HealthNext]_health_vars

-----------------------------------------------------------------------------
(* Properties *)

\* jent_stuck() and jent_random_data() put the tests together without changing
\* them: what each of them does, although another one's failure ends its
\* measurements, a recovery interrupts its stages and a replacement comes in
\* the middle of its windows, is what it does on its own.
EachTestOnItsOwn == RctSpec /\ AptSpec /\ LagSpec

\* The measurements jent_stuck() judges.
Judged(delta) == Measure(delta) /\ stuck_prime = 0

\* A verdict on the noise source's own deltas: this one and the two before it.
StuckByDefinition(delta) ==
  /\ Len(measured) = 2
  /\ Stuck(delta) = IsStuck(delta, measured[1], measured[2])

\* No startup stage and no replacement makes jent_stuck() judge a delta before
\* its noise source has delivered two for reference, and with two deltas in the
\* lag predictor's window these are the references it takes.  That leaves out
\* the stages a recovery interrupted, which changes the source without asking
\* for unjudged deltas, and the first two deltas of each later window, whose
\* references jent_lag_reset() has zeroed.
StuckAgainstOwnSource ==
  [][\A delta \in Delta :
       Judged(delta) /\ interrupted = 0 =>
         /\ Len(measured) = 2
         /\ lag_observations >= 2 => StuckByDefinition(delta)]_health_vars
=============================================================================
