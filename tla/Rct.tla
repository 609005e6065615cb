-------------------------------- MODULE Rct --------------------------------
(***************************************************************************)
(* The repetition count test of one instance, across the collectors that   *)
(* replace each other under it.                                            *)
(*                                                                         *)
(* The test counts back-to-back stuck measurements.  A collector whose     *)
(* health tests failed is replaced by one at a higher oversampling rate,   *)
(* whose count is primed at the intermittent cutoff.                       *)
(***************************************************************************)
EXTENDS Oversampling

CONSTANTS RctIntermittent,  \* JENT_HEALTH_RCT_INTERMITTENT_CUTOFF(1)
          RctPermanent,     \* JENT_HEALTH_RCT_PERMANENT_CUTOFF(1)
          RctSafety         \* the divisor of jent_rct_init(): 0, or 8 for NTG.1

VARIABLES rct_count,        \* ec->rct_count
          rct_failure,      \* the RCT's bits of ec->health_failure
          rct_run,          \* history: stuck measurements in a row, judged by
                            \* this collector
          rct_base          \* history: the priming the count still contains,
                            \* 0 once a measurement was not stuck

rct_vars == <<rct_count, rct_failure, rct_run, rct_base>>

-----------------------------------------------------------------------------
(* The cutoffs, jent_rct_init() *)

RctDivide(n) == IF RctSafety = 0 THEN n
                                 ELSE (n + RctSafety - 1) \div RctSafety

rct_cutoff(o) == RctDivide(RctIntermittent * o)

rct_cutoff_permanent(o) == RctDivide(RctPermanent * o)

ASSUME RctCutoffAssumption ==
  \A o \in Osr : /\ rct_cutoff(o) \in Nat \ {0}
                 /\ rct_cutoff_permanent(o) \in Nat
                 /\ rct_cutoff(o) + 1 < rct_cutoff_permanent(o)

-----------------------------------------------------------------------------
(* The operations *)

\* What jent_rct_duplicate() primes the count of a replacement at rate o with.
\* First, the cutoff before jent_rct_init() divides it.
RctPrimingUndivided(o) == RctIntermittent * o

RctPriming(o) == rct_cutoff(o)

\* jent_health_init(), the part of the RCT.  The failure bits are sticky: a
\* startup stage that failed still restarts the test.
RctRestart ==
  /\ rct_count' = 0
  /\ rct_run' = 0
  /\ rct_base' = 0
  /\ UNCHANGED rct_failure

\* jent_rct_insert(): one judged measurement.
RctInsert(stuck) ==
  LET count == rct_count + 1
      bits  == FailureBits(count >= rct_cutoff_permanent(osr),
                           count = rct_cutoff(osr))
  IN  \/ /\ stuck
         /\ rct_count' = count
         /\ rct_failure' = rct_failure \cup bits
         /\ rct_run' = rct_run + 1
         /\ UNCHANGED rct_base
      \/ /\ ~stuck
         /\ rct_count' = 0
         /\ rct_run' = 0
         /\ rct_base' = 0
         /\ UNCHANGED rct_failure

\* jent_rct_duplicate() on a freshly initialized replacement running at rate o:
\* no failure bit, the count primed at the replacement's own cutoff.
RctDuplicate(o) ==
  /\ rct_count' = RctPriming(o)
  /\ rct_failure' = {}
  /\ rct_run' = 0
  /\ rct_base' = rct_cutoff(o)

-----------------------------------------------------------------------------
(* The test alone: any sequence of verdicts, restarts and replacements. *)

RctInit ==
  /\ osr \in Osr
  /\ rct_count = 0
  /\ rct_failure = {}
  /\ rct_run = 0
  /\ rct_base = 0

\* jent_random_data_one() measures only while no health test has failed.
RctMeasure(stuck) ==
  /\ rct_failure = {}
  /\ RctInsert(stuck)
  /\ UNCHANGED osr

RctStage ==
  /\ RctRestart
  /\ UNCHANGED osr

\* Another health test may be the one that failed, so any state is replaced.
RctReplace(o) ==
  /\ osr' = o
  /\ RctDuplicate(o)

RctNext ==
  \/ \E stuck \in BOOLEAN : RctMeasure(stuck)
  \/ RctStage
  \/ \E o \in Raised : RctReplace(o)

RctSpec == RctInit /\ [][RctNext]_<<osr, rct_vars>>

-----------------------------------------------------------------------------
(* Properties *)

\* Every variable has its type: no verdict takes the count of jent_rct_insert()
\* below zero.
RctTypeOK ==
  /\ osr \in Osr
  /\ rct_count \in Nat
  /\ rct_failure \subseteq Severity
  /\ rct_run \in Nat
  /\ rct_base \in {0, rct_cutoff(osr)}

\* jent_rct_insert() reports a failure no later than it should: a collector
\* without a failure bit has seen fewer stuck measurements in a row than its
\* cutoff, and a primed one - whose streak goes on over the replacement - fewer
\* than what separates the two cutoffs.
RctNoMissedStreak ==
  rct_failure = {} =>
    IF rct_base = 0
      THEN rct_run < rct_cutoff(osr)
      ELSE rct_run < rct_cutoff_permanent(osr) - rct_cutoff(osr)

\* The permanent bit takes a streak of the replacement's own measurements, more
\* than one: jent_rct_duplicate() primes with the divided cutoff so that the
\* first stuck measurement after a reallocation is no permanent failure.
RctNoSpuriousPermanent ==
  "permanent" \in rct_failure /\ rct_run > 0 =>
    /\ rct_base # 0
    /\ rct_run > 1
    /\ rct_run = rct_cutoff_permanent(osr) - rct_cutoff(osr)

\* The escalation of jent_rct_duplicate(): a streak that goes on over the
\* replacement never reports the intermittent failure a second time - it would
\* only be replaced again - it ends or becomes permanent.
RctEscalates ==
  rct_base # 0 => "intermittent" \notin rct_failure

\* What jent_rct_insert() reports is exactly what it should: the three above.
RctVerdict == RctNoMissedStreak /\ RctNoSpuriousPermanent /\ RctEscalates
=============================================================================
