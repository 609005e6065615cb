----------------------------- MODULE RandomData -----------------------------
(***************************************************************************)
(* jent_random_data(): the generation of one block, the startup state      *)
(* machine it drives, and the repetition count test with memory, whose     *)
(* recovery loop calls jent_random_data() again from inside a measurement. *)
(*                                                                         *)
(* The calls are a stack of frames: frames[1] is the call of the reader or *)
(* of the startup, frames[2] the one of the recovery loop.  A frame is the *)
(* loop counter of its jent_random_data_one(), the number of measurements  *)
(* that were not stuck.  The measurement that started a recovery is        *)
(* completed when the recovery is over.                                    *)
(***************************************************************************)
EXTENDS Integers, Sequences

CONSTANTS BlockBits,          \* DATA_SIZE_BITS
          SafetyFactor,       \* ENTROPY_SAFETY_FACTOR
          Rate,               \* ec->osr
          Fips,               \* ec->is_fips_enabled
          RctMemCutoff,       \* ec->rct_mem_cutoff
          RctMemPermanent,    \* ec->rct_mem_cutoff_permanent
          RecoveryLoops,      \* JENT_RCT_MEM_RECOVERY_LOOP_CNT
          WindowMax,          \* USHRT_MAX
          RctCutoff,          \* ec->rct_cutoff
          StuckPrime          \* JENT_STUCK_PRIME

\* The number of measurements of a block and the RCT with memory's window,
\* rounded up to a multiple of three.
RoundUpToThree(x) == ((x + 2) \div 3) * 3

Nosr == RoundUpToThree((BlockBits + IF Fips = 1 THEN SafetyFactor ELSE 0) * Rate)

\* "Safety measure against wrapping": jent_random_data_one() makes a count that the
\* window counters do not hold, or below one block, a permanent failure.  "With
\* the default JENT_MAX_OSR of 20 this cannot trigger".
ASSUME NosrAssumption == BlockBits <= Nosr /\ Nosr <= WindowMax

ASSUME RandomDataAssumption ==
  /\ Fips \in {0, 1}
  /\ Nosr \in Nat \ {0}
  /\ RctMemCutoff \in Nat \ {0}
  /\ RctMemPermanent \in Nat
  /\ RctMemCutoff < RctMemPermanent
  /\ RecoveryLoops \in Nat \ {0}
  /\ RctCutoff \in Nat \ {0}
  /\ StuckPrime \in Nat

\* Outside of the compliance modes, where a failed test ends no loop, the cutoff
\* of jent_rct_mem_init() is out of reach of a window: "the cap, so no failure".
ASSUME RctMemAssumption == Fips = 0 => 3 * RctMemCutoff > Nosr + 2

VARIABLES startup_state,      \* ec->startup_state
          saved_state,        \* saved_state of the recovery
          in_recovery,        \* ec->in_recovery
          rct_mem_ctr,        \* ec->rct_mem_ctr
          rct_mem_count,      \* ec->rct_mem_count
          rct_mem_failure,    \* the test's bits of ec->health_failure
          other_failure,      \* 1 if another test's bit is set
          rct_count,          \* ec->rct_count, up to its cutoff
          stuck_prime,        \* ec->stuck_prime
          parity,             \* history: of the number of measurements
          frames,             \* the loop counters of the active calls
          source,             \* the case of the outer call's switch
          loops,              \* the recovery's calls that have returned
          pending,            \* 1 if the measurement in recovery was stuck
          recoveries          \* history: recoveries of the outer call's block

rd_vars == <<startup_state, saved_state, in_recovery, rct_mem_ctr, rct_mem_count,
          rct_mem_failure, other_failure, rct_count, stuck_prime,
          parity, frames, source, loops, pending, recoveries>>

Stage == {"memory", "sha3", "completed"}

NextStage(s) == IF s = "memory" THEN "sha3" ELSE "completed"

Failed == rct_mem_failure # {} \/ other_failure = 1

\* jent_health_failure_query(): the tests report in a compliance mode only.
QueryFailed == Fips = 1 /\ Failed

\* The loop of the innermost jent_random_data_one() is over.  First, one that
\* ends a measurement early.
LoopOverEarly == QueryFailed \/ frames[Len(frames)] + 1 >= Nosr

LoopOver == QueryFailed \/ frames[Len(frames)] >= Nosr

-----------------------------------------------------------------------------
(* The repetition count test with memory *)

InWindow(ctr) == ctr < Nosr

\* rct_mem_ctr after a measurement: "this prevents also a wrap-around".
CountUp(ctr) == IF InWindow(ctr) THEN ctr + 1 ELSE ctr

\* rct_mem_count with a measurement: cleared at the start of a window, and
\* raised by a stuck one if it is one of the window's third ones.
Counted(stuck) ==
  (IF rct_mem_ctr = 0 THEN 0 ELSE rct_mem_count)
    + (IF stuck = 1 /\ InWindow(rct_mem_ctr) /\ rct_mem_ctr % 3 = 0
         THEN 1 ELSE 0)

\* Whether the cutoff starts a recovery.
MayRecover == in_recovery = 0

\* jent_rct_mem_insert() when it starts no recovery.
RctMemCompare(stuck) ==
  /\ ~(Counted(stuck) = RctMemCutoff /\ MayRecover)
  /\ rct_mem_count' = Counted(stuck)
  /\ rct_mem_failure' = rct_mem_failure \cup
       (IF ~InWindow(rct_mem_ctr) THEN {}
        ELSE IF Counted(stuck) >= RctMemPermanent THEN {"permanent"}
        ELSE IF Counted(stuck) = RctMemCutoff THEN {"intermittent"}
        ELSE {})
  /\ rct_mem_ctr' = CountUp(rct_mem_ctr)

\* A call of jent_random_data_one() starts: the start of a window.
StartLoop == rct_mem_ctr' = 0

-----------------------------------------------------------------------------
(* The steps *)

RdInit ==
  /\ startup_state = IF Fips = 1 THEN "memory" ELSE "completed"
  /\ saved_state = "completed"
  /\ in_recovery = 0
  /\ rct_mem_ctr = 0
  /\ rct_mem_count = 0
  /\ rct_mem_failure = {}
  /\ other_failure = 0
  /\ rct_count = 0
  /\ stuck_prime = StuckPrime
  /\ parity = 0
  /\ frames = <<>>
  /\ source = "completed"
  /\ loops = 0
  /\ pending = 0
  /\ recoveries = 0

\* The reader or the startup calls jent_random_data().
Call ==
  /\ frames = <<>>
  /\ frames' = <<0>>
  /\ source' = startup_state
  /\ StartLoop
  /\ recoveries' = 0
  /\ UNCHANGED <<startup_state, saved_state, in_recovery, rct_mem_count,
                 rct_mem_failure, other_failure, rct_count, stuck_prime,
                 parity, loops, pending>>

\* A measurement that only gives the stuck test its reference.
MeasurePrime ==
  /\ frames # <<>> /\ ~LoopOver
  /\ stuck_prime > 0
  /\ stuck_prime' = stuck_prime - 1
  /\ parity' = 1 - parity
  /\ UNCHANGED <<startup_state, saved_state, in_recovery, rct_mem_ctr,
                 rct_mem_count, rct_mem_failure, other_failure, rct_count,
                 frames, source, loops, pending, recoveries>>

\* The count at which the RCT fails.  First, one it does not get to.
RctAbove(count) == count > RctCutoff

RctReached(count) == count = RctCutoff

\* What the tests before the RCT with memory make of a measurement: the RCT
\* counts, the APT or the lag predictor may fail.
OtherTests(stuck, fails) ==
  /\ rct_count' = IF stuck = 0 THEN 0
                  ELSE IF rct_count < RctCutoff THEN rct_count + 1
                  ELSE rct_count
  /\ other_failure' = IF fails = 1 \/ RctReached(rct_count')
                        THEN 1 ELSE other_failure

\* A judged measurement, by the jent_measure_jitter() of the stage.
Measure(stuck, fails) ==
  /\ frames # <<>> /\ ~LoopOver
  /\ stuck_prime = 0
  /\ parity' = 1 - parity
  /\ OtherTests(stuck, fails)
  /\ RctMemCompare(stuck)
  /\ frames' = [frames EXCEPT ![Len(frames)] = @ + 1 - stuck]
  /\ UNCHANGED <<startup_state, saved_state, in_recovery, stuck_prime, source,
                 loops, pending, recoveries>>

\* What a recovery does with the startup state before its calls, and after
\* them.
Parked == startup_state' = "completed"

HandedBack == startup_state' = saved_state

\* A judged measurement whose jent_rct_mem_insert() starts a recovery: the
\* startup state is parked and jent_random_data() called.
MeasureRecover(stuck, fails) ==
  /\ frames # <<>> /\ ~LoopOver
  /\ stuck_prime = 0
  /\ parity' = 1 - parity
  /\ OtherTests(stuck, fails)
  /\ Counted(stuck) = RctMemCutoff
  /\ MayRecover
  /\ saved_state' = startup_state
  /\ rct_mem_count' = 0
  /\ in_recovery' = 1
  /\ Parked
  /\ frames' = Append(frames, 0)
  /\ StartLoop
  /\ loops' = 0
  /\ pending' = stuck
  /\ recoveries' = recoveries + 1
  /\ UNCHANGED <<rct_mem_failure, stuck_prime, source>>

\* A jent_random_data() of the recovery loop returns and the next is called.
RecoverAgain ==
  /\ Len(frames) = 2 /\ LoopOver
  /\ loops + 1 < RecoveryLoops
  /\ loops' = loops + 1
  /\ frames' = [frames EXCEPT ![2] = 0]
  /\ StartLoop
  /\ UNCHANGED <<startup_state, saved_state, in_recovery, rct_mem_count,
                 rct_mem_failure, other_failure, rct_count, stuck_prime,
                 parity, source, pending, recoveries>>

\* rct_mem_ctr after a recovery, which the interrupted measurement counts up.
\* First, a window that starts over.
WindowRestarted(ctr) == 0

WindowResumed(ctr) == CountUp(ctr)

\* The last one returns: the startup state is handed back and the measurement
\* that started the recovery is completed.
RecoveryDone ==
  /\ Len(frames) = 2 /\ LoopOver
  /\ loops + 1 = RecoveryLoops
  /\ loops' = 0
  /\ HandedBack
  /\ in_recovery' = 0
  /\ rct_mem_ctr' = WindowResumed(rct_mem_ctr)
  /\ frames' = <<frames[1] + 1 - pending>>
  /\ pending' = 0
  /\ UNCHANGED <<saved_state, rct_mem_count, rct_mem_failure, other_failure,
                 rct_count, stuck_prime, parity, source, recoveries>>

\* jent_random_data_one() of the outer call returns.  A startup stage hands
\* over to the next one and restarts the health tests; the memory stage falls
\* through to the SHA-3 stage.
LoopDone ==
  /\ Len(frames) = 1 /\ LoopOver
  /\ \/ /\ source = "completed"
        /\ frames' = <<>>
        /\ UNCHANGED <<startup_state, rct_count, stuck_prime, source,
                       rct_mem_ctr, recoveries>>
     \/ /\ source # "completed"
        /\ startup_state' = NextStage(source)
        /\ rct_count' = 0
        /\ stuck_prime' = StuckPrime
        /\ \/ /\ source = "memory"
              /\ source' = "sha3"
              /\ frames' = <<0>>
              /\ StartLoop
              /\ recoveries' = 0
           \/ /\ source = "sha3"
              /\ frames' = <<>>
              /\ UNCHANGED <<source, rct_mem_ctr, recoveries>>
  /\ UNCHANGED <<saved_state, in_recovery, rct_mem_count, rct_mem_failure,
                 other_failure, parity, loops, pending>>

Return == RecoverAgain \/ RecoveryDone \/ LoopDone

Step ==
  \/ MeasurePrime
  \/ \E stuck, fails \in {0, 1} :
       Measure(stuck, fails) \/ MeasureRecover(stuck, fails)
  \/ Return

RdNext == Call \/ Step

RdSpec == RdInit /\ [][RdNext]_rd_vars

\* A thread in jent_random_data() keeps running: nothing in it blocks.
RdFairSpec == RdSpec /\ WF_rd_vars(Step)

-----------------------------------------------------------------------------
(* Properties *)

\* Every variable has its type.  Of the code it says that the window counter
\* never passes the window and no loop its number of measurements.
RdTypeOK ==
  /\ startup_state \in Stage
  /\ saved_state \in Stage
  /\ in_recovery \in {0, 1}
  /\ rct_mem_ctr \in 0 .. Nosr
  /\ rct_mem_count \in Nat
  /\ rct_mem_failure \subseteq {"intermittent", "permanent"}
  /\ other_failure \in {0, 1}
  /\ rct_count \in 0 .. RctCutoff
  /\ stuck_prime \in 0 .. StuckPrime
  /\ parity \in {0, 1}
  /\ frames \in Seq(0 .. Nosr)
  /\ source \in Stage
  /\ loops \in 0 .. RecoveryLoops - 1
  /\ pending \in {0, 1}
  /\ recoveries \in Nat

\* The recursion of the recovery loop is bounded: a recovery starts no other,
\* and ec->in_recovery is set exactly while one is active.
RecoveryNotNested ==
  /\ Len(frames) <= 2
  /\ in_recovery = 1 <=> Len(frames) = 2

\* "they would otherwise re-run the startup stages and advance startup_state
\* underneath the outer invocation": outside a recovery an active call finds
\* the stage its switch selected, and a recovery measures in the completed
\* state and hands that stage back.
StageUndisturbed ==
  frames # <<>> =>
    /\ in_recovery = 0 => startup_state = source
    /\ in_recovery = 1 => startup_state = "completed" /\ saved_state = source

\* The recovery loop, which runs whole blocks underneath the one that started
\* it, is contained: it starts no other, leaves the startup stage of that block
\* alone, and a block recovers at most once - the recovery leaves a completed
\* window behind, so the rest of the block cannot reach the cutoff again.
RecoveryContained == RecoveryNotNested /\ StageUndisturbed /\ recoveries <= 1

\* A block that ends without a failure ends on a complete window of the RCT
\* with memory with fewer stuck measurements than the cutoff - its own or the
\* last one of its recovery.
BlockCovered ==
  [][LoopDone /\ ~Failed =>
       rct_mem_ctr = Nosr /\ rct_mem_count < RctMemCutoff]_rd_vars

\* Every health failure is one jent_random_data() leaves behind: the RCT with
\* memory has no way to its permanent failure, as a count that reaches the
\* intermittent cutoff either starts over in the recovery or ends the loop.
RctMemNeverPermanent == "permanent" \notin rct_mem_failure

\* Every call of jent_random_data() returns, also on a source that is stuck for
\* good: the RCT ends the loop, in the recovery as well.
RandomDataReturns == (frames # <<>>) ~> (frames = <<>>)
=============================================================================
