-------------------------------- MODULE Lag --------------------------------
(***************************************************************************)
(* The lag predictor test of one instance, and the references the stuck    *)
(* test takes from its history.                                            *)
(*                                                                         *)
(* Predictor i guesses that the next time delta is the one i + 1 inputs    *)
(* ago.  A scoreboard counts every predictor's correct guesses and the     *)
(* test follows the best of them; too many correct guesses, in a row or in *)
(* one window, are a failure.                                              *)
(***************************************************************************)
EXTENDS TimeDelta, Sequences, FiniteSets

CONSTANTS LagHistorySize,       \* JENT_LAG_HISTORY_SIZE
          LagWindow,            \* JENT_LAG_WINDOW_SIZE
          LagLocal, LagLocalPermanent,    \* jent_lag_local_cutoff*_lookup[]
          LagGlobal, LagGlobalPermanent   \* jent_lag_global_cutoff*_lookup[]

Predictor == 0 .. LagHistorySize - 1

ASSUME LagAssumption ==
  /\ LagHistorySize \in Nat \ {0, 1}
  /\ LagWindow \in Nat /\ LagWindow > LagHistorySize
  /\ {LagLocal, LagLocalPermanent, LagGlobal, LagGlobalPermanent}
       \subseteq [Osr -> Nat \ {0}]
  /\ \A o \in Osr : /\ LagLocal[o] < LagLocalPermanent[o]
                    /\ LagGlobal[o] < LagGlobalPermanent[o]
  /\ \A o, q \in Osr : o < q => /\ LagLocal[o] < LagLocal[q]
                                /\ LagGlobal[o] < LagGlobal[q]

VARIABLES lag_prediction_success_count,
          lag_prediction_success_run,
          lag_best_predictor,
          lag_observations,
          lag_delta_history,    \* the ring of the last deltas
          lag_scoreboard,
          lag_failure,          \* the test's bits of ec->health_failure
          lag_seen              \* history: the deltas since the last reset

lag_vars == <<lag_prediction_success_count, lag_prediction_success_run,
              lag_best_predictor, lag_observations, lag_delta_history,
              lag_scoreboard, lag_failure, lag_seen>>

-----------------------------------------------------------------------------
(* The operations *)

\* JENT_LAG_HISTORY(): index 0 is the last delta, index 1 the one before.
History(loc) ==
  lag_delta_history[(lag_observations - loc - 1) % LagHistorySize]

Zeroes == [i \in Predictor |-> 0]

\* A reset that forgets the scoreboard.
LagClearedButScores ==
  /\ lag_prediction_success_count' = 0
  /\ lag_prediction_success_run' = 0
  /\ lag_best_predictor' = 0
  /\ lag_observations' = 0
  /\ lag_delta_history' = Zeroes
  /\ lag_seen' = <<>>
  /\ UNCHANGED lag_scoreboard

\* jent_lag_reset() as far as the next state of the test goes.
LagCleared ==
  /\ lag_prediction_success_count' = 0
  /\ lag_prediction_success_run' = 0
  /\ lag_best_predictor' = 0
  /\ lag_observations' = 0
  /\ lag_scoreboard' = Zeroes
  /\ lag_delta_history' = Zeroes
  /\ lag_seen' = <<>>

\* The window of n observations is over.
LagWindowOver(n) == n >= LagWindow

\* The loop over the predictors: best[k] is the best predictor after the first
\* k of them were updated with the guesses that hit.  A score counts as raised
\* once the loop has passed its predictor.
BestAfter(hits) ==
  LET score(i, k) == lag_scoreboard[i] + IF i \in hits /\ i < k THEN 1 ELSE 0
      best[k \in 0 .. LagHistorySize] ==
        IF k = 0 THEN lag_best_predictor
        ELSE IF /\ k - 1 \in hits
                /\ score(k - 1, k) > score(best[k - 1], k)
             THEN k - 1
             ELSE best[k - 1]
  IN  best[LagHistorySize]

\* jent_lag_insert(), the first deltas of a window: no guess is made.
LagFill(delta) ==
  /\ lag_observations < LagHistorySize
  /\ lag_delta_history' =
       [lag_delta_history EXCEPT ![lag_observations] = delta]
  /\ lag_observations' = lag_observations + 1
  /\ lag_seen' = Append(lag_seen, delta)
  /\ UNCHANGED <<lag_prediction_success_count, lag_prediction_success_run,
                 lag_best_predictor, lag_scoreboard, lag_failure>>

\* jent_lag_insert() of a delta with the history filled.
LagGuess(delta) ==
  LET correct == History(lag_best_predictor) = delta
      count == lag_prediction_success_count + IF correct THEN 1 ELSE 0
      run   == IF correct THEN lag_prediction_success_run + 1 ELSE 0
      hits  == {i \in Predictor : History(i) = delta}
  IN  /\ lag_observations >= LagHistorySize
      /\ lag_failure' = lag_failure \cup
           (IF correct
              THEN FailureBits(\/ run >= LagLocalPermanent[osr]
                               \/ count >= LagGlobalPermanent[osr],
                               \/ run >= LagLocal[osr]
                               \/ count >= LagGlobal[osr])
              ELSE {})
      /\ \/ /\ LagWindowOver(lag_observations + 1)   \* a new window
            /\ LagCleared
         \/ /\ ~LagWindowOver(lag_observations + 1)
            /\ lag_prediction_success_count' = count
            /\ lag_prediction_success_run' = run
            /\ lag_best_predictor' = BestAfter(hits)
            /\ lag_scoreboard' =
                 [i \in Predictor |->
                    lag_scoreboard[i] + IF i \in hits THEN 1 ELSE 0]
            /\ lag_delta_history' =
                 [lag_delta_history EXCEPT
                    ![lag_observations % LagHistorySize] = delta]
            /\ lag_observations' = lag_observations + 1
            /\ lag_seen' = Append(lag_seen, delta)

LagInsert(delta) == LagFill(delta) \/ LagGuess(delta)

\* jent_lag_duplicate(): the replacement goes on with everything but the
\* failure bits.
LagDuplicate ==
  /\ lag_failure' = {}
  /\ UNCHANGED <<lag_prediction_success_count, lag_prediction_success_run,
                 lag_best_predictor, lag_observations, lag_delta_history,
                 lag_scoreboard, lag_seen>>

-----------------------------------------------------------------------------
(* The test alone *)

LagInit ==
  /\ osr \in Osr
  /\ lag_prediction_success_count = 0
  /\ lag_prediction_success_run = 0
  /\ lag_best_predictor = 0
  /\ lag_observations = 0
  /\ lag_scoreboard = Zeroes
  /\ lag_delta_history = Zeroes
  /\ lag_failure = {}
  /\ lag_seen = <<>>

LagMeasure(delta) ==
  /\ lag_failure = {}
  /\ LagInsert(delta)
  /\ UNCHANGED osr

\* jent_health_init() between two startup stages.
LagStage ==
  /\ LagCleared
  /\ UNCHANGED <<lag_failure, osr>>

LagReplace(o) ==
  /\ osr' = o
  /\ LagDuplicate

LagNext ==
  \/ \E delta \in Delta : LagMeasure(delta)
  \/ LagStage
  \/ \E o \in Raised : LagReplace(o)

LagSpec == LagInit /\ [][LagNext]_<<osr, lag_vars>>

-----------------------------------------------------------------------------
(* Properties *)

\* Every variable has its type.  Of the code it says that the predictor index
\* stays within the tables and a window within its size.
LagTypeOK ==
  /\ osr \in Osr
  /\ lag_prediction_success_count \in Nat
  /\ lag_prediction_success_run \in Nat
  /\ lag_best_predictor \in Predictor
  /\ lag_observations \in 0 .. LagWindow - 1
  /\ lag_delta_history \in [Predictor -> Delta]
  /\ lag_scoreboard \in [Predictor -> Nat]
  /\ lag_failure \subseteq Severity
  /\ lag_seen \in Seq(Delta)

\* The ring of jent_lag_insert() read through JENT_LAG_HISTORY() is the deltas
\* in the order they came: "Index 0 is the last observed symbol index 1 is the
\* symbol observed two inputs ago, etc.".
LagHistoryInOrder ==
  /\ lag_observations = Len(lag_seen)
  /\ \A i \in Predictor :
       i < Len(lag_seen) => History(i) = lag_seen[Len(lag_seen) - i]

\* The scoreboard holds what it says: for every lag, how many deltas of this
\* window after the first LagHistorySize repeat the delta that lag before them.
LagScoreboardExact ==
  \A i \in Predictor :
    lag_scoreboard[i] =
      Cardinality({k \in LagHistorySize + 1 .. Len(lag_seen) :
                     lag_seen[k] = lag_seen[k - i - 1]})

\* "lag_best_predictor now is the index of the predictor with the largest
\* number of correct guesses", although the scores change while the loop of
\* jent_lag_insert() compares them.
LagBestIsBest ==
  \A i \in Predictor :
    lag_scoreboard[i] <= lag_scoreboard[lag_best_predictor]

\* Following the best predictor claims no success a fixed lag would not have
\* had: the count the global cutoff is compared with never exceeds the score
\* of the best lag, so a global failure is a lag that really recurs that often.
LagNoFalseAlarm ==
  /\ lag_prediction_success_run <= lag_prediction_success_count
  /\ lag_prediction_success_count <= lag_scoreboard[lag_best_predictor]

\* No failure is left unreported by jent_lag_insert(), also when the counters
\* were carried over to the cutoffs of a replacement's higher rate.
LagNoMissedPattern ==
  lag_failure = {} => /\ lag_prediction_success_run < LagLocal[osr]
                      /\ lag_prediction_success_count < LagGlobal[osr]

\* jent_lag_insert() ends the measurements with the intermittent failure, and a
\* replacement's cutoffs are above the counters it takes over: the permanent
\* failure is out of reach.
LagNeverPermanent == "permanent" \notin lag_failure

\* What jent_lag_insert() guesses from and reports is exactly what its window
\* holds: the six above.
LagVerdict ==
  /\ LagHistoryInOrder
  /\ LagScoreboardExact
  /\ LagBestIsBest
  /\ LagNoFalseAlarm
  /\ LagNoMissedPattern
  /\ LagNeverPermanent
=============================================================================
