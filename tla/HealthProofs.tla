---------------------------- MODULE HealthProofs ----------------------------
(***************************************************************************)
(* The health tests: what each of them reports, for every range of         *)
(* oversampling rates, every window and every table of cutoffs, and that   *)
(* their composition implements each of them, so that what is proved of a  *)
(* test on its own holds of it in jent_stuck().                            *)
(***************************************************************************)
EXTENDS Health, FiniteSetTheorems, NaturalsInduction, WellFoundedInduction,
        TLAPS


-----------------------------------------------------------------------------
(* The repetition count test *)

\* What the counter holds: the streak this collector judged, on top of the
\* priming while no measurement has ended the streak.
RctCountInv == rct_count = rct_base + rct_run

\* The three properties are inductive together with the meaning of the counter.
RctInductive ==
  /\ RctTypeOK
  /\ RctCountInv
  /\ RctNoMissedStreak
  /\ RctNoSpuriousPermanent
  /\ RctEscalates

\* A rate's cutoffs are numbers with more than one step between them.
LEMMA RctCutoffs ==
  ASSUME NEW o \in Osr
  PROVE  /\ rct_cutoff(o) \in Nat \ {0}
         /\ rct_cutoff_permanent(o) \in Nat
         /\ rct_cutoff(o) + 1 < rct_cutoff_permanent(o)
BY RctCutoffAssumption, Zenon

\* A fresh collector, as jent_health_init() leaves it, satisfies the invariant.
LEMMA RctInitInductive == RctInit => RctInductive
<1> SUFFICES ASSUME RctInit PROVE RctInductive
  BY Zenon
<1>1. osr \in Osr
  BY Zenon DEF RctInit
<1>2. rct_cutoff(osr) \in Nat \ {0}
  BY <1>1, RctCutoffs, Zenon
<1> QED
  BY <1>1, <1>2 DEF RctInit, RctInductive, RctTypeOK, RctCountInv,
     RctNoMissedStreak, RctNoSpuriousPermanent, RctEscalates, Severity

\* jent_rct_insert(), jent_health_init() and jent_rct_duplicate() keep it.
LEMMA RctNextInductive ==
  RctInductive /\ [RctNext]_<<osr, rct_vars>> => RctInductive'
<1> SUFFICES ASSUME RctInductive, [RctNext]_<<osr, rct_vars>>
             PROVE  RctInductive'
  BY Zenon
<1> DEFINE c == rct_cutoff(osr)
           p == rct_cutoff_permanent(osr)
<1>0. osr \in Osr
  BY Zenon DEF RctInductive, RctTypeOK
<1>1. /\ c \in Nat \ {0}
      /\ p \in Nat
      /\ c + 1 < p
  BY <1>0, RctCutoffs, Zenon
<1>2. ASSUME NEW stuck \in BOOLEAN, RctMeasure(stuck)
      PROVE  RctInductive'
  <2>1. /\ osr' = osr
        /\ rct_failure = {}
        /\ rct_cutoff(osr)' = c
        /\ rct_cutoff_permanent(osr)' = p
    BY <1>2, Zenon DEF RctMeasure, rct_cutoff, rct_cutoff_permanent
  <2> HIDE DEF c, p
  <2>2. CASE stuck
    <3>1. /\ rct_count' = rct_count + 1
          /\ rct_run' = rct_run + 1
          /\ rct_base' = rct_base
          /\ rct_failure' = IF rct_count + 1 >= p THEN {"permanent"}
                            ELSE IF rct_count + 1 = c THEN {"intermittent"}
                            ELSE {}
      BY <1>2, <2>1, <2>2, Zenon DEF RctMeasure, RctInsert, FailureBits, c, p
    <3>2. /\ rct_count = rct_base + rct_run
          /\ IF rct_base = 0 THEN rct_run < c ELSE rct_run < p - c
          /\ rct_run \in Nat
          /\ rct_count \in Nat
          /\ rct_base \in {0, c}
      BY <2>1, Zenon DEF RctInductive, RctCountInv, RctNoMissedStreak,
         RctTypeOK, c, p
    <3>3. CASE rct_base = c
      BY <3>1, <3>2, <3>3, <2>1, <1>0, <1>1 DEF RctInductive, RctTypeOK,
         RctCountInv, RctNoMissedStreak, RctNoSpuriousPermanent, RctEscalates,
         Severity
    <3>4. CASE rct_base = 0
      BY <3>1, <3>2, <3>4, <2>1, <1>0, <1>1 DEF RctInductive, RctTypeOK,
         RctCountInv, RctNoMissedStreak, RctNoSpuriousPermanent, RctEscalates,
         Severity
    <3> QED
      BY <3>2, <3>3, <3>4, Zenon
  <2>3. CASE ~stuck
    <3>1. /\ rct_count' = 0
          /\ rct_run' = 0
          /\ rct_base' = 0
          /\ rct_failure' = {}
      BY <1>2, <2>1, <2>3, Zenon DEF RctMeasure, RctInsert
    <3> QED
      BY <3>1, <2>1, <1>0, <1>1 DEF RctInductive, RctTypeOK, RctCountInv,
         RctNoMissedStreak, RctNoSpuriousPermanent, RctEscalates
  <2> QED
    BY <2>2, <2>3, Zenon
<1>3. ASSUME RctStage
      PROVE  RctInductive'
  <2>1. /\ osr' = osr
        /\ rct_cutoff(osr)' = c
        /\ rct_cutoff_permanent(osr)' = p
    BY <1>3, Zenon DEF RctStage, rct_cutoff, rct_cutoff_permanent
  <2> HIDE DEF c, p
  <2> QED
    BY <1>3, <2>1, <1>0, <1>1 DEF RctStage, RctRestart, RctInductive,
       RctTypeOK, RctCountInv, RctNoMissedStreak, RctNoSpuriousPermanent,
       RctEscalates
<1>4. ASSUME NEW o \in Raised, RctReplace(o)
      PROVE  RctInductive'
  <2>1. /\ o \in Osr
        /\ osr' = o
    BY <1>4, Zenon DEF RctReplace, Raised
  <2>2. /\ rct_cutoff(o) \in Nat \ {0}
        /\ rct_cutoff_permanent(o) \in Nat
        /\ rct_cutoff(o) + 1 < rct_cutoff_permanent(o)
        /\ rct_cutoff(osr)' = rct_cutoff(o)
        /\ rct_cutoff_permanent(osr)' = rct_cutoff_permanent(o)
    BY <2>1, RctCutoffs, Zenon DEF rct_cutoff, rct_cutoff_permanent
  <2> QED
    BY <1>4, <2>1, <2>2 DEF RctReplace, RctDuplicate, RctPriming,
       RctInductive, RctTypeOK,
       RctCountInv, RctNoMissedStreak, RctNoSpuriousPermanent, RctEscalates
<1>5. ASSUME UNCHANGED <<osr, rct_vars>>
      PROVE  RctInductive'
  <2>1. /\ osr' = osr
        /\ rct_count' = rct_count
        /\ rct_failure' = rct_failure
        /\ rct_run' = rct_run
        /\ rct_base' = rct_base
        /\ rct_cutoff(osr)' = c
        /\ rct_cutoff_permanent(osr)' = p
    BY <1>5, Zenon DEF rct_vars, rct_cutoff, rct_cutoff_permanent
  <2> QED
    BY <2>1, Zenon DEF RctInductive, RctTypeOK, RctCountInv, RctNoMissedStreak,
       RctNoSpuriousPermanent, RctEscalates
<1> QED
  BY <1>2, <1>3, <1>4, <1>5, Zenon DEF RctNext

\* The repetition count test of every instance, at every rate and with either
\* kind of cutoffs: no streak is missed, a permanent failure takes a streak of
\* the collector's own, and a streak over a replacement escalates.
THEOREM RctCorrect == RctSpec => []RctVerdict
<1>1. RctInductive => RctVerdict
  BY Zenon DEF RctInductive, RctVerdict
<1> QED
  BY RctInitInductive, RctNextInductive, <1>1, PTL DEF RctSpec

\* The variables of the repetition count test keep their types.
THEOREM RctTypeCorrect == RctSpec => []RctTypeOK
<1>1. RctInductive => RctTypeOK
  BY Zenon DEF RctInductive
<1> QED
  BY RctInitInductive, RctNextInductive, <1>1, PTL DEF RctSpec

-----------------------------------------------------------------------------
(* The adaptive proportion test *)

\* The properties are inductive together.
AptInductive ==
  /\ AptTypeOK
  /\ AptCountsWindow
  /\ AptNoMissedRepetition
  /\ AptNoFalseAlarm
  /\ AptWindowEnds

\* The number of occurrences in a sequence is a number.
LEMMA OccurrencesType ==
  ASSUME NEW S, NEW s \in Seq(S), NEW d
  PROVE  /\ IsFiniteSet({i \in DOMAIN s : s[i] = d})
         /\ Occurrences(d, s) \in Nat
<1>1. /\ DOMAIN s = 1 .. Len(s)
      /\ Len(s) \in Nat
  OBVIOUS
<1>2. IsFiniteSet(1 .. Len(s))
  BY <1>1, FS_Interval
<1>3. {i \in DOMAIN s : s[i] = d} \in SUBSET (1 .. Len(s))
  BY <1>1, Zenon
<1>4. IsFiniteSet({i \in DOMAIN s : s[i] = d})
  BY <1>2, <1>3, FS_Subset, Zenon
<1> QED
  BY <1>4, FS_CardinalityType, Zenon DEF Occurrences

\* No symbol occurs in the empty sequence.
LEMMA OccurrencesEmpty ==
  ASSUME NEW d
  PROVE  Occurrences(d, <<>>) = 0
<1>1. {i \in DOMAIN <<>> : <<>>[i] = d} = {}
  OBVIOUS
<1> QED
  BY <1>1, FS_EmptySet, Zenon DEF Occurrences

\* A symbol occurs once in the sequence that consists of it.
LEMMA OccurrencesSingleton ==
  ASSUME NEW d
  PROVE  Occurrences(d, <<d>>) = 1
<1>1. {i \in DOMAIN <<d>> : <<d>>[i] = d} = {1}
  OBVIOUS
<1> QED
  BY <1>1, FS_Singleton, Zenon DEF Occurrences

\* Appending a symbol adds an occurrence of it and of no other.
LEMMA OccurrencesAppend ==
  ASSUME NEW S, NEW s \in Seq(S), NEW e \in S, NEW d
  PROVE  Occurrences(d, Append(s, e)) =
           IF e = d THEN Occurrences(d, s) + 1 ELSE Occurrences(d, s)
<1> DEFINE A == {i \in DOMAIN s : s[i] = d}
           B == {i \in DOMAIN Append(s, e) : Append(s, e)[i] = d}
           n == Len(s) + 1
<1>1. /\ Append(s, e) \in Seq(S)
      /\ DOMAIN s = 1 .. Len(s)
      /\ DOMAIN Append(s, e) = 1 .. n
      /\ Append(s, e)[n] = e
      /\ \A i \in 1 .. Len(s) : Append(s, e)[i] = s[i]
      /\ Len(s) \in Nat
  OBVIOUS
<1>2. n \notin A
  BY <1>1
<1>3. IsFiniteSet(A)
  BY OccurrencesType, Zenon
<1>4. CASE e = d
  <2>1. B = A \cup {n}
    BY <1>1, <1>4
  <2>2. Cardinality(A \cup {n}) = Cardinality(A) + 1
    BY <1>2, <1>3, FS_AddElement, Zenon
  <2> QED
    BY <1>4, <2>1, <2>2, Zenon DEF Occurrences
<1>5. CASE e # d
  <2>1. B = A
    BY <1>1, <1>5
  <2> QED
    BY <1>5, <2>1, Zenon DEF Occurrences
<1> QED
  BY <1>4, <1>5, Zenon

\* A rate's cutoffs are numbers within the window.
LEMMA AptCutoffs ==
  ASSUME NEW o \in Osr
  PROVE  /\ AptCutoff[o] \in Nat
         /\ AptCutoffPermanent[o] \in Nat
         /\ AptWindow \in Nat
         /\ 1 < AptCutoff[o]
         /\ AptCutoff[o] <= AptCutoffPermanent[o]
         /\ AptCutoffPermanent[o] <= AptWindow
BY AptAssumption, Zenon

\* A fresh collector, as jent_health_init() leaves it, satisfies the invariant.
LEMMA AptInitInductive == AptInit => AptInductive
<1> SUFFICES ASSUME AptInit PROVE AptInductive
  BY Zenon
<1>1. /\ AptCutoff[osr] \in Nat
      /\ AptWindow \in Nat
  BY AptCutoffs, Zenon DEF AptInit
<1>2. 0 \in Delta
  BY DeltaAssumption, Zenon
<1> QED
  BY <1>1, <1>2 DEF AptInit, AptInductive, AptTypeOK, AptCountsWindow,
     AptNoMissedRepetition, AptNoFalseAlarm, AptWindowEnds, Severity

\* jent_apt_insert() with no window open keeps it: it opens one.
LEMMA AptOpensWindow ==
  ASSUME AptInductive, NEW delta \in Delta, AptMeasure(delta), apt_base_set = 0
  PROVE  AptInductive'
<1>1. /\ apt_base' = delta
      /\ apt_base_set' = 1
      /\ apt_count' = 1
      /\ apt_observations' = 1
      /\ apt_symbols' = <<delta>>
      /\ apt_prime' = 0
      /\ apt_position' = 0
      /\ apt_failure' = {}
      /\ osr' = osr
  BY DEF AptMeasure, AptInsert, AptFirst, AptComplete
<1>2. /\ osr \in Osr
      /\ <<delta>> \in Seq(Delta)
      /\ Len(<<delta>>) = 1
      /\ <<delta>>[1] = delta
      /\ <<delta>> # <<>>
  BY DEF AptInductive, AptTypeOK
<1>3. Occurrences(apt_base, apt_symbols)' = 1
  BY <1>1, OccurrencesSingleton, Zenon
<1>4. /\ AptCutoff[osr] \in Nat
      /\ 1 < AptCutoff[osr]
      /\ AptWindow \in Nat
      /\ 1 < AptWindow
  BY <1>2, AptCutoffs
<1> QED
  BY <1>1, <1>2, <1>3, <1>4 DEF AptInductive, AptTypeOK, AptCountsWindow,
     AptNoMissedRepetition, AptNoFalseAlarm, AptWindowEnds

\* jent_apt_insert() into an open window keeps it.
LEMMA AptCountsSymbol ==
  ASSUME AptInductive, NEW delta \in Delta, AptMeasure(delta), apt_base_set = 1
  PROVE  AptInductive'
<1> DEFINE n == Occurrences(apt_base, apt_symbols)
           c == AptCutoff[osr]
           p == AptCutoffPermanent[osr]
           m == IF delta = apt_base THEN n + 1 ELSE n
<1>1. /\ apt_count' = IF delta = apt_base THEN apt_count + 1 ELSE apt_count
      /\ apt_failure' = IF delta = apt_base
                          THEN FailureBits(apt_count + 1 >= p, apt_count + 1 = c)
                          ELSE {}
      /\ apt_observations' = apt_observations + 1
      /\ apt_base_set' = IF apt_observations + 1 >= AptWindow THEN 0 ELSE 1
      /\ apt_symbols' = Append(apt_symbols, delta)
      /\ apt_base' = apt_base
      /\ apt_prime' = apt_prime
      /\ apt_position' = apt_position
      /\ apt_failure = {}
      /\ osr' = osr
  BY DEF AptMeasure, AptInsert, AptFirst, AptComplete
<1>2. /\ osr \in Osr
      /\ apt_base \in Delta
      /\ apt_symbols \in Seq(Delta)
      /\ apt_count \in Nat
      /\ apt_observations \in Nat
      /\ apt_prime \in {0, c}
      /\ apt_position \in Nat
  BY Zenon DEF AptInductive, AptTypeOK
<1>3. /\ c \in Nat
      /\ p \in Nat
      /\ AptWindow \in Nat
      /\ 1 < c
      /\ c <= p
      /\ p <= AptWindow
  BY <1>2, AptCutoffs, Zenon
<1>4. /\ n \in Nat
      /\ Occurrences(apt_base, apt_symbols)' = m
  BY <1>1, <1>2, OccurrencesType, OccurrencesAppend, Zenon
<1>5. /\ apt_symbols' \in Seq(Delta)
      /\ apt_symbols' # <<>>
      /\ Len(apt_symbols') = Len(apt_symbols) + 1
      /\ Len(apt_symbols) \in Nat
      /\ Len(apt_symbols) = 0 <=> apt_symbols = <<>>
      /\ apt_symbols # <<>> => apt_symbols'[1] = apt_symbols[1]
  BY <1>1, <1>2
<1>6. /\ apt_count = apt_prime + n
      /\ apt_observations = apt_position + Len(apt_symbols)
      /\ apt_prime = 0 => apt_symbols # <<>> /\ apt_symbols[1] = apt_base
      /\ IF apt_prime = 0 THEN n < c ELSE n = 0 \/ c + n < p
      /\ apt_symbols # <<>> => apt_observations < AptWindow
  BY <1>1, Zenon DEF AptInductive, AptCountsWindow, AptNoMissedRepetition,
     AptWindowEnds
<1> HIDE DEF n, c, p
<1>7. AptTypeOK'
  BY <1>1, <1>2, <1>3, <1>5 DEF AptTypeOK, FailureBits, Severity, c
<1>8. AptCountsWindow'
  BY <1>1, <1>2, <1>3, <1>4, <1>5, <1>6 DEF AptCountsWindow
<1>9. AptWindowEnds'
  BY <1>1, <1>2, <1>3, <1>5, <1>6 DEF AptWindowEnds
<1>10. AptNoMissedRepetition'
  <2>1. /\ AptCutoff[osr]' = c
        /\ AptCutoffPermanent[osr]' = p
    BY <1>1, Zenon DEF c, p
  <2>2. CASE delta = apt_base
    <3>1. m = n + 1
      BY <2>2, Zenon
    <3>2. CASE apt_prime = 0
      <4>1. apt_count + 1 = m /\ m <= c
        BY <3>1, <3>2, <1>2, <1>3, <1>4, <1>6
      <4>2. m = c => apt_failure' # {}
        BY <4>1, <2>2, <1>1, Zenon DEF FailureBits
      <4>3. apt_failure' = {} => m < c
        BY <3>1, <4>1, <4>2, <1>3, <1>4
      <4>. QED
        BY <2>1, <3>2, <4>3, <1>1, <1>4, Zenon DEF AptNoMissedRepetition
    <3>3. CASE apt_prime # 0
      <4>1. apt_count + 1 = c + m
        BY <3>1, <3>3, <1>2, <1>3, <1>4, <1>6
      <4>2. c + m >= p => apt_failure' # {}
        BY <4>1, <2>2, <1>1, Zenon DEF FailureBits
      <4>3. m \in Nat
        BY <3>1, <1>4
      <4> HIDE DEF m
      <4> QED
        BY <4>2, <4>3, <2>1, <3>3, <1>1, <1>3, <1>4 DEF AptNoMissedRepetition
    <3> QED
      BY <3>2, <3>3, Zenon
  <2>3. CASE delta # apt_base
    BY <2>1, <2>3, <1>1, <1>2, <1>3, <1>4, <1>6, Zenon DEF
       AptNoMissedRepetition
  <2> QED
    BY <2>2, <2>3, Zenon
<1>11. AptNoFalseAlarm'
  <2>1. /\ AptCutoff[osr]' = c
        /\ AptCutoffPermanent[osr]' = p
    BY <1>1, Zenon DEF c, p
  <2>2. CASE delta = apt_base
    BY <2>1, <2>2, <1>1, <1>2, <1>3, <1>4, <1>6
       DEF AptNoFalseAlarm, FailureBits
  <2>3. CASE delta # apt_base
    BY <2>1, <2>3, <1>1, <1>2, <1>3, <1>4, <1>6, Zenon DEF AptNoFalseAlarm
  <2> QED
    BY <2>2, <2>3, Zenon
<1> QED
  BY <1>7, <1>8, <1>9, <1>10, <1>11, Zenon DEF AptInductive

\* jent_apt_duplicate() keeps it: the primed window is one no symbol of the
\* replacement has been counted into.
LEMMA AptReplaces ==
  ASSUME AptInductive, NEW o \in Raised, AptReplace(o)
  PROVE  AptInductive'
<1>1. /\ o \in Osr
      /\ osr' = o
      /\ apt_failure' = {}
      /\ apt_symbols' = <<>>
  BY Zenon DEF Raised, AptReplace, AptDuplicate
<1>2. /\ AptCutoff[o] \in Nat
      /\ 1 < AptCutoff[o]
      /\ AptWindow \in Nat
      /\ 0 \in Delta
  BY <1>1, AptCutoffs, DeltaAssumption, Zenon
<1>3. Occurrences(apt_base, apt_symbols)' = 0
  BY <1>1, OccurrencesEmpty, Zenon
<1>4. /\ <<>> \in Seq(Delta)
      /\ Len(<<>>) = 0
  OBVIOUS
<1>5. /\ apt_base \in Delta
      /\ apt_observations \in Nat
  BY Zenon DEF AptInductive, AptTypeOK
<1>6. CASE apt_observations # 0
  <2>1. /\ apt_base_set' = 1
        /\ apt_count' = AptCutoff[o]
        /\ apt_prime' = AptCutoff[o]
        /\ apt_position' = apt_observations
        /\ apt_base' = apt_base
        /\ apt_observations' = apt_observations
    BY <1>6, Zenon DEF AptReplace, AptDuplicate, AptPriming
  <2> QED
    BY <2>1, <1>1, <1>2, <1>3, <1>4, <1>5 DEF AptInductive, AptTypeOK,
       AptCountsWindow, AptNoMissedRepetition, AptNoFalseAlarm, AptWindowEnds
<1>7. CASE apt_observations = 0
  <2>1. /\ apt_base_set' = 0
        /\ apt_count' = 0
        /\ apt_prime' = 0
        /\ apt_position' = 0
        /\ apt_base' = 0
        /\ apt_observations' = 0
    BY <1>7, Zenon DEF AptReplace, AptDuplicate, AptPriming
  <2> QED
    BY <2>1, <1>1, <1>2, <1>3, <1>4, <1>5 DEF AptInductive, AptTypeOK,
       AptCountsWindow, AptNoMissedRepetition, AptNoFalseAlarm, AptWindowEnds
<1> QED
  BY <1>6, <1>7, Zenon

\* Every step of the adaptive proportion test keeps the invariant.
LEMMA AptNextInductive ==
  AptInductive /\ [AptNext]_<<osr, apt_vars>> => AptInductive'
<1> SUFFICES ASSUME AptInductive, [AptNext]_<<osr, apt_vars>>
             PROVE  AptInductive'
  BY Zenon
<1>1. ASSUME NEW delta \in Delta, AptMeasure(delta)
      PROVE  AptInductive'
  <2>1. apt_base_set = 0 \/ apt_base_set = 1
    BY Zenon DEF AptInductive, AptTypeOK
  <2> QED
    BY <1>1, <2>1, AptOpensWindow, AptCountsSymbol, Zenon
<1>2. ASSUME AptStage
      PROVE  AptInductive'
  BY <1>2, Zenon DEF AptStage, AptReset, AptInductive, AptTypeOK,
     AptCountsWindow, AptNoMissedRepetition, AptNoFalseAlarm, AptWindowEnds
<1>3. ASSUME NEW o \in Raised, AptReplace(o)
      PROVE  AptInductive'
  BY <1>3, AptReplaces, Zenon
<1>4. ASSUME UNCHANGED <<osr, apt_vars>>
      PROVE  AptInductive'
  BY <1>4, Zenon DEF apt_vars, AptInductive, AptTypeOK, AptCountsWindow,
     AptNoMissedRepetition, AptNoFalseAlarm, AptWindowEnds
<1> QED
  BY <1>1, <1>2, <1>3, <1>4, Zenon DEF AptNext

\* jent_apt_insert() and jent_apt_duplicate() at every window size and with
\* every table: the counter is the number of occurrences, no repetition beyond
\* a cutoff goes unreported, nothing else is reported, and a window ends, one
\* taken over after it was complete with the next symbol.
THEOREM AptCorrect == AptSpec => []AptVerdict
<1>1. AptInductive => AptVerdict
  BY Zenon DEF AptInductive, AptVerdict
<1> QED
  BY AptInitInductive, AptNextInductive, <1>1, PTL DEF AptSpec

-----------------------------------------------------------------------------
(* The lag predictor *)

\* The inductive invariant: the counters reach the intermittent cutoffs of the
\* current rate, with a failure, and never pass them.
LagInductive ==
  /\ osr \in Osr
  /\ lag_prediction_success_count \in Nat
  /\ lag_prediction_success_run \in Nat
  /\ lag_prediction_success_count <= LagGlobal[osr]
  /\ lag_prediction_success_run <= LagLocal[osr]
  /\ LagNoMissedPattern
  /\ LagNeverPermanent

\* The cutoffs of a rate, and of a higher one.
LEMMA LagCutoffs ==
  ASSUME NEW o \in Osr
  PROVE  /\ LagLocal[o] \in Nat \ {0} /\ LagGlobal[o] \in Nat \ {0}
         /\ LagLocalPermanent[o] \in Nat /\ LagGlobalPermanent[o] \in Nat
         /\ LagLocal[o] < LagLocalPermanent[o]
         /\ LagGlobal[o] < LagGlobalPermanent[o]
         /\ \A q \in Osr : o < q => /\ LagLocal[o] < LagLocal[q]
                                    /\ LagGlobal[o] < LagGlobal[q]
BY LagAssumption, Zenon

\* A cleared test is below every cutoff.
LEMMA LagClearedInductive ==
  ASSUME osr' \in Osr, LagCleared, LagNeverPermanent'
  PROVE  LagInductive'
BY LagCutoffs DEF LagCleared, LagInductive, LagNoMissedPattern

\* jent_lag_insert() counts by one, and reports what reaches a cutoff.
LEMMA LagMeasureInductive ==
  ASSUME LagInductive, NEW delta \in Delta, LagMeasure(delta)
  PROVE  LagInductive'
<1>1. osr \in Osr /\ osr' = osr /\ lag_failure = {}
  BY Zenon DEF LagInductive, LagMeasure
<1>2. CASE LagFill(delta)
  BY <1>1, <1>2, Zenon DEF LagFill, LagInductive, LagNoMissedPattern,
     LagNeverPermanent
<1>3. CASE LagGuess(delta)
  <2> DEFINE correct == History(lag_best_predictor) = delta
             count == lag_prediction_success_count + IF correct THEN 1 ELSE 0
             run   == IF correct THEN lag_prediction_success_run + 1 ELSE 0
             bits  == IF correct
                        THEN FailureBits(\/ run >= LagLocalPermanent[osr]
                                         \/ count >= LagGlobalPermanent[osr],
                                         \/ run >= LagLocal[osr]
                                         \/ count >= LagGlobal[osr])
                        ELSE {}
  <2>1. /\ lag_failure' = bits
        /\ \/ LagCleared
           \/ /\ lag_prediction_success_count' = count
              /\ lag_prediction_success_run' = run
    BY <1>1, <1>3, Zenon DEF LagGuess
  <2>2. /\ lag_prediction_success_run \in Nat
        /\ lag_prediction_success_count \in Nat
        /\ lag_prediction_success_run < LagLocal[osr]
        /\ lag_prediction_success_count < LagGlobal[osr]
    BY <1>1, Zenon DEF LagInductive, LagNoMissedPattern
  <2>3. /\ count \in Nat /\ run \in Nat
        /\ count <= LagGlobal[osr] /\ run <= LagLocal[osr]
    BY <1>1, <2>2, LagCutoffs
  <2>4. ~(run >= LagLocalPermanent[osr] \/ count >= LagGlobalPermanent[osr])
    BY <1>1, <2>3, LagCutoffs
  <2>5. "permanent" \notin bits
    BY <2>4, Zenon DEF FailureBits
  <2>6. bits = {} => run < LagLocal[osr] /\ count < LagGlobal[osr]
    <3>1. CASE correct
      BY <1>1, <2>3, <2>4, <3>1, LagCutoffs DEF FailureBits
    <3>2. CASE ~correct
      BY <1>1, <2>2, <3>2, LagCutoffs
    <3> QED
      BY <3>1, <3>2, Zenon
  <2>7. LagNeverPermanent'
    BY <2>1, <2>5, Zenon DEF LagNeverPermanent
  <2>8. CASE LagCleared
    BY <1>1, <2>7, <2>8, LagClearedInductive, Zenon
  <2>9. CASE /\ lag_prediction_success_count' = count
             /\ lag_prediction_success_run' = run
    <3> HIDE DEF count, run, bits
    <3> QED
      BY <1>1, <2>1, <2>3, <2>6, <2>7, <2>9, Zenon DEF LagInductive,
         LagNoMissedPattern
  <2> QED
    BY <2>1, <2>8, <2>9, Zenon
<1> QED
  BY <1>2, <1>3, Zenon DEF LagMeasure, LagInsert

\* A replacement takes the counters over and runs at a higher rate.
LEMMA LagReplaceInductive ==
  ASSUME LagInductive, NEW o \in Raised, LagReplace(o)
  PROVE  LagInductive'
<1>1. osr \in Osr /\ o \in Osr /\ osr < o /\ osr' = o
  BY Zenon DEF LagInductive, LagReplace, Raised
<1>2. LagLocal[osr] < LagLocal[o] /\ LagGlobal[osr] < LagGlobal[o]
  BY <1>1, LagCutoffs, Zenon
<1> QED
  BY <1>1, <1>2, LagCutoffs DEF LagReplace, LagDuplicate, LagInductive,
     LagNoMissedPattern, LagNeverPermanent

-----------------------------------------------------------------------------
(* The lag predictor: what its tables hold *)

\* Of the last LagHistorySize deltas each is in the ring where it was stored.
LagRingHolds ==
  \A k \in 1 .. Len(lag_seen) :
    k > Len(lag_seen) - LagHistorySize =>
      lag_delta_history[(k - 1) % LagHistorySize] = lag_seen[k]

\* The inductive invariant of the tables.
LagTables ==
  /\ LagTypeOK
  /\ lag_observations = Len(lag_seen)
  /\ LagRingHolds
  /\ LagScoreboardExact
  /\ LagBestIsBest
  /\ LagNoFalseAlarm

\* Division with remainder.
LEMMA DivMod ==
  ASSUME NEW n \in Nat \ {0}, NEW x \in Int
  PROVE  x = n * (x \div n) + (x % n) /\ x \div n \in Int /\ x % n \in 0 .. n - 1
OBVIOUS

\* A multiple of n is not strictly between 0 and n.
LEMMA NoMultipleBetween ==
  ASSUME NEW n \in Nat \ {0}, NEW d \in Int
  PROVE  ~(0 < n * d /\ n * d < n)
<1>1. d >= 1 => n * d >= n
  OBVIOUS
<1>2. d <= 0 => n * d <= 0
  OBVIOUS
<1> QED
  BY <1>1, <1>2

\* Indexes less than a ring's size apart have different places in it.
LEMMA RingApart ==
  ASSUME NEW n \in Nat \ {0}, NEW x \in Int, NEW y \in Int, x < y, y < x + n
  PROVE  x % n # y % n
<1>1. SUFFICES ASSUME x % n = y % n PROVE FALSE
  BY Zenon
<1>2. PICK q \in Int : x = n * q + (x % n)
  BY DivMod, Zenon
<1>3. PICK p \in Int : y = n * p + (y % n)
  BY DivMod, Zenon
<1>4. y - x = n * (p - q)
  <2>1. n * p - n * q = n * (p - q)
    OBVIOUS
  <2>2. y - x = n * p - n * q
    BY <1>1, <1>2, <1>3
  <2> QED
    BY <2>1, <2>2, Zenon
<1> QED
  BY <1>4, NoMultipleBetween

\* The sizes are numbers.
LEMMA LagSizes ==
  /\ LagHistorySize \in Nat \ {0, 1}
  /\ LagWindow \in Nat /\ LagHistorySize < LagWindow
  /\ Predictor = 0 .. LagHistorySize - 1
BY LagAssumption, Zenon DEF Predictor

\* Every index has a place in the ring.
LEMMA RingPlace ==
  ASSUME NEW x \in Int
  PROVE  x % LagHistorySize \in Predictor
BY LagSizes

\* JENT_LAG_HISTORY() reads the deltas in the order they came.
LEMMA RingInOrder ==
  ASSUME LagTables
  PROVE  LagHistoryInOrder
<1>1. lag_observations = Len(lag_seen) /\ Len(lag_seen) \in Nat
  BY DEF LagTables, LagTypeOK
<1>2. ASSUME NEW i \in Predictor, i < Len(lag_seen)
      PROVE  History(i) = lag_seen[Len(lag_seen) - i]
  <2> DEFINE k == Len(lag_seen) - i
  <2>1. k \in 1 .. Len(lag_seen) /\ k > Len(lag_seen) - LagHistorySize
    BY <1>1, <1>2, LagSizes
  <2>2. lag_observations - i - 1 = k - 1
    BY <1>1, <1>2, LagSizes, Zenon
  <2>3. lag_delta_history[(k - 1) % LagHistorySize] = lag_seen[k]
    BY <2>1, Zenon DEF LagTables, LagRingHolds
  <2> QED
    BY <2>2, <2>3, Zenon DEF History
<1> QED
  BY <1>1, <1>2, Zenon DEF LagHistoryInOrder

\* A delta is stored over the one LagHistorySize before it.
LEMMA RingStored ==
  ASSUME LagTables, NEW delta \in Delta,
         lag_delta_history' =
           [lag_delta_history EXCEPT ![lag_observations % LagHistorySize] = delta],
         lag_seen' = Append(lag_seen, delta)
  PROVE  /\ lag_delta_history' \in [Predictor -> Delta]
         /\ lag_seen' \in Seq(Delta) /\ Len(lag_seen') = Len(lag_seen) + 1
         /\ LagRingHolds'
<1> DEFINE n == Len(lag_seen)
           at == n % LagHistorySize
<1>1. /\ lag_seen \in Seq(Delta) /\ lag_observations = n
      /\ lag_delta_history \in [Predictor -> Delta]
  BY Zenon DEF LagTables, LagTypeOK
<1>2. n \in Nat
  BY <1>1
<1>3. /\ lag_seen' \in Seq(Delta) /\ Len(lag_seen') = n + 1
      /\ lag_seen'[n + 1] = delta
      /\ \A k \in 1 .. n : lag_seen'[k] = lag_seen[k]
  BY <1>1
<1>4. at \in Predictor
  BY <1>2, RingPlace
<1>5. /\ lag_delta_history' \in [Predictor -> Delta]
      /\ lag_delta_history'[at] = delta
      /\ \A p \in Predictor : p # at => lag_delta_history'[p] = lag_delta_history[p]
  BY <1>1, <1>4, Zenon
<1>6. ASSUME NEW k \in 1 .. n + 1, k > n + 1 - LagHistorySize
      PROVE  lag_delta_history'[(k - 1) % LagHistorySize] = lag_seen'[k]
  <2>1. CASE k = n + 1
    BY <1>2, <1>3, <1>5, <2>1
  <2>2. CASE k <= n
    <3>1. k \in 1 .. n /\ k > n - LagHistorySize
      BY <1>2, <1>6, <2>2, LagSizes
    <3>2. lag_delta_history[(k - 1) % LagHistorySize] = lag_seen[k]
      BY <3>1, Zenon DEF LagTables, LagRingHolds
    <3>3. (k - 1) % LagHistorySize # at
      <4>1. k - 1 < n /\ n < k - 1 + LagHistorySize
        BY <1>2, <1>6, <2>2, LagSizes
      <4>2. LagHistorySize \in Nat \ {0} /\ k - 1 \in Int /\ n \in Int
        BY <1>2, LagSizes
      <4> HIDE DEF n
      <4> QED
        BY <4>1, <4>2, RingApart, Zenon
    <3>4. (k - 1) % LagHistorySize \in Predictor
      BY RingPlace
    <3> QED
      BY <1>3, <1>5, <3>1, <3>2, <3>3, <3>4, Zenon
  <2> QED
    BY <1>2, <2>1, <2>2
<1>7. LagRingHolds'
  <2>1. Len(lag_seen') = n + 1
    BY <1>3, Zenon
  <2> HIDE DEF n
  <2>2. \A k \in 1 .. Len(lag_seen') :
          k > Len(lag_seen') - LagHistorySize =>
            lag_delta_history'[(k - 1) % LagHistorySize] = lag_seen'[k]
    BY ONLY <1>2, <1>6, <2>1, LagSizes
  <2> QED
    BY <2>2, Zenon DEF LagRingHolds
<1> QED
  BY <1>3, <1>5, <1>7, Zenon

\* The score of a lag over the deltas s.
Scored(i, s) ==
  Cardinality({k \in LagHistorySize + 1 .. Len(s) : s[k] = s[k - i - 1]})

\* No guess was made while the history is being filled.
LEMMA ScoredShort ==
  ASSUME NEW i \in Predictor, NEW s \in Seq(Delta), Len(s) <= LagHistorySize
  PROVE  Scored(i, s) = 0
<1>1. LagHistorySize + 1 .. Len(s) = {}
  BY LagSizes
<1>2. {k \in LagHistorySize + 1 .. Len(s) : s[k] = s[k - i - 1]} = {}
  BY <1>1, Zenon
<1> QED
  BY <1>2, FS_EmptySet, Zenon DEF Scored

\* One more delta is one more correct guess of the lags that have it.
LEMMA ScoredAppend ==
  ASSUME NEW i \in Predictor, NEW s \in Seq(Delta), NEW e \in Delta,
         Len(s) >= LagHistorySize
  PROVE  /\ Scored(i, s) \in Nat
         /\ Scored(i, Append(s, e)) =
              Scored(i, s) + IF s[Len(s) - i] = e THEN 1 ELSE 0
<1> DEFINE h == LagHistorySize
           n == Len(s)
           t == Append(s, e)
           A == {k \in h + 1 .. n : s[k] = s[k - i - 1]}
           B == {k \in h + 1 .. n + 1 : t[k] = t[k - i - 1]}
<1>1. /\ n \in Nat /\ n >= h /\ h \in Nat /\ i \in 0 .. h - 1
      /\ Len(t) = n + 1 /\ t[n + 1] = e
      /\ \A k \in 1 .. n : t[k] = s[k]
  BY LagSizes
<1>2. IsFiniteSet(A) /\ Cardinality(A) \in Nat /\ n + 1 \notin A
  <2>1. IsFiniteSet(h + 1 .. n)
    <3>1. h + 1 \in Int /\ n \in Int
      BY <1>1
    <3> HIDE DEF h, n
    <3> QED
      BY <3>1, FS_Interval, Zenon
  <2>2. A \subseteq h + 1 .. n
    BY Zenon
  <2>3. n + 1 \notin A
    BY <1>1
  <2> QED
    BY <2>1, <2>2, <2>3, FS_Subset, FS_CardinalityType, Zenon
<1>3. \A k \in h + 1 .. n : t[k] = s[k] /\ t[k - i - 1] = s[k - i - 1]
  <2>1. ASSUME NEW k \in h + 1 .. n PROVE k \in 1 .. n /\ k - i - 1 \in 1 .. n
    BY <1>1
  <2> QED
    BY <1>1, <2>1, Zenon
<1>4. t[n + 1] = e /\ t[n + 1 - i - 1] = s[n - i]
  <2>1. n - i \in 1 .. n /\ n + 1 - i - 1 = n - i
    BY <1>1
  <2> QED
    BY <1>1, <2>1, Zenon
<1>5. Scored(i, s) = Cardinality(A) /\ Scored(i, t) = Cardinality(B)
  BY <1>1, Zenon DEF Scored
<1>6. CASE s[n - i] = e
  <2>1. B = A \cup {n + 1}
    BY <1>1, <1>3, <1>4, <1>6, SMTT(30)
  <2>2. Cardinality(A \cup {n + 1}) = Cardinality(A) + 1
    BY <1>2, FS_AddElement, Zenon
  <2> QED
    BY <1>2, <1>5, <1>6, <2>1, <2>2, Zenon
<1>7. CASE s[n - i] # e
  <2>1. \A k \in h + 1 .. n + 1 : k \in h + 1 .. n \/ k = n + 1
    BY <1>1
  <2>2. n + 1 \notin B
    <3>1. n \in Int /\ i \in Int
      BY <1>1
    <3> HIDE DEF n, t
    <3> QED
      BY <1>4, <1>7, <3>1
  <2>3. \A k \in h + 1 .. n : k \in h + 1 .. n + 1
    BY <1>1
  <2>4. B = A
    BY <1>3, <2>1, <2>2, <2>3, Zenon
  <2> HIDE DEF A, B
  <2> QED
    BY <1>2, <1>5, <1>7, <2>4
<1> QED
  BY <1>6, <1>7, Zenon

-----------------------------------------------------------------------------
(* The loop over the predictors *)

\* A set of naturals has a least element.
LEMMA LeastExists ==
  ASSUME NEW T, T \subseteq Nat, T # {}
  PROVE  \E x \in T : \A y \in T : x <= y
<1>1. PICK x \in T : \A y \in T : ~ (<<y, x>> \in OpToRel(<, Nat))
  BY NatLessThanWellFounded, WFMin, Zenon
<1>2. \A y \in T : ~ (y < x)
  BY <1>1, Zenon DEF OpToRel
<1> QED
  BY <1>2

\* The score of predictor i once the loop has passed k of them.
ScoreAt(scores, hits, i, k) == scores[i] + IF i \in hits /\ i < k THEN 1 ELSE 0

\* What its k-th round makes of the best predictor b.
BestStep(scores, hits, k, b) ==
  IF k - 1 \in hits /\ ScoreAt(scores, hits, k - 1, k) > ScoreAt(scores, hits, b, k)
    THEN k - 1 ELSE b

\* The function the loop is written as.
BestLoop(f, n, scores, hits, base) ==
  f = [k \in 0 .. n |-> IF k = 0 THEN base
                        ELSE BestStep(scores, hits, k, f[k - 1])]

\* There is such a function: no number of rounds is the least without one.
LEMMA BestLoopExists ==
  ASSUME NEW n \in Nat, NEW scores, NEW hits, NEW base
  PROVE  \E f : BestLoop(f, n, scores, hits, base)
<1> DEFINE Done(k) == \E f : BestLoop(f, k, scores, hits, base)
           T == {k \in Nat : ~Done(k)}
<1>1. Done(0)
  <2> DEFINE g == [k \in 0 .. 0 |-> base]
  <2>1. g = [k \in 0 .. 0 |-> IF k = 0 THEN base
                              ELSE BestStep(scores, hits, k, g[k - 1])]
    OBVIOUS
  <2> HIDE DEF g
  <2> QED
    BY <2>1, Zenon DEF BestLoop
<1>2. ASSUME NEW m \in Nat, Done(m) PROVE Done(m + 1)
  <2>1. PICK f : BestLoop(f, m, scores, hits, base)
    BY <1>2, Zenon
  <2> DEFINE G(h, k) == IF k = 0 THEN base ELSE BestStep(scores, hits, k, h[k - 1])
             g == [k \in 0 .. m + 1 |-> G(f, k)]
  <2>2. \A k \in 0 .. m : f[k] = G(f, k)
    BY <2>1, Zenon DEF BestLoop
  <2>3. \A k \in 0 .. m + 1 : g[k] = G(f, k)
    BY Zenon
  <2>4. \A k \in 0 .. m : g[k] = f[k]
    <3> HIDE DEF G, g
    <3> QED
      BY <2>2, <2>3
  <2>5. \A k \in 0 .. m + 1 : k # 0 => g[k - 1] = f[k - 1]
    <3> HIDE DEF G, g
    <3> QED
      BY <2>4
  <2>6. \A k \in 0 .. m + 1 : G(f, k) = G(g, k)
    <3> HIDE DEF g
    <3> QED
      BY <2>5, Zenon
  <2>7. g = [k \in 0 .. m + 1 |-> G(g, k)]
    <3> HIDE DEF G
    <3>1. [k \in 0 .. m + 1 |-> G(f, k)] = [k \in 0 .. m + 1 |-> G(g, k)]
      BY <2>6, Zenon
    <3> QED
      BY <3>1, Zenon
  <2>8. BestLoop(g, m + 1, scores, hits, base)
    <3> HIDE DEF g
    <3> QED
      BY <2>7, Zenon DEF BestLoop
  <2> QED
    BY <2>8, Zenon
<1> HIDE DEF Done
<1>3. ASSUME T # {} PROVE FALSE
  <2>1. PICK k \in T : \A j \in T : k <= j
    BY <1>3, LeastExists, Zenon
  <2>2. k \in Nat /\ k # 0 /\ ~Done(k)
    BY <1>1, <2>1, Zenon
  <2>3. k - 1 \in Nat /\ Done(k - 1)
    BY <2>1, <2>2
  <2>4. (k - 1) + 1 = k
    BY <2>2
  <2> QED
    BY <1>2, <2>2, <2>3, <2>4, Zenon
<1> QED
  BY <1>3, Zenon DEF Done

\* After each round the best predictor has the largest score: no round is the
\* first after which it has not.
LEMMA BestLoopBest ==
  ASSUME NEW n \in Nat, NEW scores \in [0 .. n - 1 -> Nat], NEW hits,
         NEW base \in 0 .. n - 1, NEW f,
         \A i \in 0 .. n - 1 : scores[i] <= scores[base],
         BestLoop(f, n, scores, hits, base)
  PROVE  /\ f[n] \in 0 .. n - 1
         /\ \A i \in 0 .. n - 1 :
              ScoreAt(scores, hits, i, n) <= ScoreAt(scores, hits, f[n], n)
<1> DEFINE S(i, k) == ScoreAt(scores, hits, i, k)
           Good(k) == /\ f[k] \in 0 .. n - 1
                      /\ \A i \in 0 .. n - 1 : S(i, k) <= S(f[k], k)
           T == {k \in 0 .. n : ~Good(k)}
<1>1. /\ f[0] = base
      /\ \A k \in 1 .. n :
           f[k] = IF k - 1 \in hits /\ S(k - 1, k) > S(f[k - 1], k)
                    THEN k - 1 ELSE f[k - 1]
  BY DEF BestLoop, BestStep
<1>2. \A i \in 0 .. n - 1, k \in 0 .. n :
        S(i, k) = scores[i] + IF i \in hits /\ i < k THEN 1 ELSE 0
  BY Zenon DEF ScoreAt
<1>3. \A i \in 0 .. n - 1 : scores[i] \in Nat
  BY Zenon
<1>4. ASSUME NEW i \in 0 .. n - 1, NEW k \in 0 .. n PROVE S(i, k) \in Nat
  <2>1. scores[i] \in Nat
    BY <1>3, Zenon
  <2>2. S(i, k) \in {scores[i], scores[i] + 1}
    BY <2>1 DEF ScoreAt
  <2> HIDE DEF S
  <2> QED
    BY <2>1, <2>2
<1> HIDE DEF S
<1>5. Good(0)
  <2>1. \A i \in 0 .. n - 1 : S(i, 0) = scores[i]
    BY <1>2, <1>3
  <2> QED
    BY <1>1, <2>1, Zenon
<1>6. ASSUME NEW k \in 1 .. n, Good(k - 1) PROVE Good(k)
  <2>1. /\ f[k - 1] \in 0 .. n - 1 /\ k - 1 \in 0 .. n - 1 /\ k - 1 \in 0 .. n
        /\ k \in 0 .. n
        /\ \A i \in 0 .. n - 1 : S(i, k - 1) <= S(f[k - 1], k - 1)
    BY <1>6
  <2>2. \A i \in 0 .. n - 1 :
          /\ S(i, k - 1) <= S(i, k)
          /\ i # k - 1 \/ i \notin hits => S(i, k) = S(i, k - 1)
    BY <1>2, <1>3, <2>1
  <2>3. CASE k - 1 \in hits /\ S(k - 1, k) > S(f[k - 1], k)
    <3>1. f[k] = k - 1
      BY <1>1, <2>3, Zenon
    <3>2. ASSUME NEW i \in 0 .. n - 1 PROVE S(i, k) <= S(k - 1, k)
      <4>1. CASE i = k - 1
        BY <1>4, <4>1
      <4>2. CASE i # k - 1
        <5>1. /\ S(i, k) = S(i, k - 1) /\ S(i, k - 1) <= S(f[k - 1], k - 1)
              /\ S(f[k - 1], k - 1) <= S(f[k - 1], k)
          BY <2>1, <2>2, <4>2, Zenon
        <5>2. /\ S(i, k - 1) \in Nat /\ S(f[k - 1], k - 1) \in Nat
              /\ S(f[k - 1], k) \in Nat /\ S(k - 1, k) \in Nat
          BY <1>4, <2>1, Zenon
        <5> QED
          BY <2>3, <5>1, <5>2
      <4> QED
        BY <4>1, <4>2, Zenon
    <3> QED
      BY <2>1, <3>1, <3>2, Zenon
  <2>4. CASE ~(k - 1 \in hits /\ S(k - 1, k) > S(f[k - 1], k))
    <3>1. f[k] = f[k - 1]
      BY <1>1, <2>4, Zenon
    <3>2. ASSUME NEW i \in 0 .. n - 1 PROVE S(i, k) <= S(f[k - 1], k)
      <4>1. /\ S(i, k - 1) \in Nat /\ S(f[k - 1], k - 1) \in Nat
            /\ S(f[k - 1], k) \in Nat /\ S(i, k) \in Nat
        BY <1>4, <2>1, Zenon
      <4>2. CASE i = k - 1 /\ i \in hits
        BY <2>4, <4>1, <4>2
      <4>3. CASE i # k - 1 \/ i \notin hits
        <5>1. /\ S(i, k) = S(i, k - 1) /\ S(i, k - 1) <= S(f[k - 1], k - 1)
              /\ S(f[k - 1], k - 1) <= S(f[k - 1], k)
          BY <2>1, <2>2, <4>3, Zenon
        <5> QED
          BY <4>1, <5>1
      <4> QED
        BY <4>2, <4>3, Zenon
    <3> QED
      BY <2>1, <3>1, <3>2, Zenon
  <2> QED
    BY <2>3, <2>4, Zenon
<1> HIDE DEF Good
<1>7. ASSUME T # {} PROVE FALSE
  <2>1. PICK k \in T : \A j \in T : k <= j
    <3>1. T \subseteq Nat
      OBVIOUS
    <3> QED
      BY <1>7, <3>1, LeastExists, Zenon
  <2>2. k \in 1 .. n /\ ~Good(k)
    BY <1>5, <2>1
  <2>3. k - 1 \in 0 .. n /\ Good(k - 1)
    BY <2>1, <2>2
  <2> QED
    BY <1>6, <2>2, <2>3, Zenon
<1>8. Good(n)
  BY <1>7
<1> QED
  BY <1>8, Zenon DEF Good, S

\* The loop of jent_lag_insert() ends with a predictor with the largest score.
LEMMA BestAfterBest ==
  ASSUME LagTables, NEW hits
  PROVE  /\ BestAfter(hits) \in Predictor
         /\ \A i \in Predictor :
              lag_scoreboard[i] + (IF i \in hits THEN 1 ELSE 0) <=
                lag_scoreboard[BestAfter(hits)]
                  + (IF BestAfter(hits) \in hits THEN 1 ELSE 0)
<1> DEFINE n == LagHistorySize
           Body(h) == [k \in 0 .. n |->
                         IF k = 0 THEN lag_best_predictor
                         ELSE IF /\ k - 1 \in hits
                                 /\ lag_scoreboard[k - 1]
                                      + (IF k - 1 \in hits /\ k - 1 < k THEN 1 ELSE 0)
                                    > lag_scoreboard[h[k - 1]]
                                      + (IF h[k - 1] \in hits /\ h[k - 1] < k
                                           THEN 1 ELSE 0)
                              THEN k - 1 ELSE h[k - 1]]
           f == CHOOSE h : h = Body(h)
<1>1. /\ n \in Nat /\ Predictor = 0 .. n - 1
      /\ lag_scoreboard \in [0 .. n - 1 -> Nat]
      /\ lag_best_predictor \in 0 .. n - 1
      /\ \A i \in 0 .. n - 1 :
           lag_scoreboard[i] <= lag_scoreboard[lag_best_predictor]
  BY LagSizes, Zenon DEF LagTables, LagTypeOK, LagBestIsBest
<1>2. ASSUME NEW h
      PROVE  BestLoop(h, n, lag_scoreboard, hits, lag_best_predictor) <=> h = Body(h)
  BY Zenon DEF BestLoop, BestStep, ScoreAt
<1>3. BestAfter(hits) = f[n]
  BY Zenon DEF BestAfter
<1> HIDE DEF Body, n
<1>4. \E h : h = Body(h)
  BY <1>1, <1>2, BestLoopExists, Zenon
<1>5. f = Body(f)
  BY <1>4, Zenon
<1> HIDE DEF f
<1>6. BestLoop(f, n, lag_scoreboard, hits, lag_best_predictor)
  BY <1>2, <1>5, Zenon
<1>7. /\ f[n] \in 0 .. n - 1
      /\ \A i \in 0 .. n - 1 : ScoreAt(lag_scoreboard, hits, i, n)
                                 <= ScoreAt(lag_scoreboard, hits, f[n], n)
  BY <1>1, <1>6, BestLoopBest, Zenon
<1>8. \A i \in 0 .. n - 1 :
        ScoreAt(lag_scoreboard, hits, i, n) =
          lag_scoreboard[i] + (IF i \in hits THEN 1 ELSE 0)
  BY <1>1 DEF ScoreAt
<1> QED
  BY <1>1, <1>3, <1>7, <1>8, Zenon

\* An empty window has empty tables.
LEMMA LagClearedTables ==
  ASSUME osr' \in Osr, LagCleared, lag_failure' \subseteq Severity
  PROVE  LagTables'
<1>1. /\ 0 \in Predictor /\ 0 \in 0 .. LagWindow - 1
      /\ Zeroes \in [Predictor -> Delta] /\ Zeroes \in [Predictor -> Nat]
      /\ \A i \in Predictor : Zeroes[i] = 0
  BY LagSizes, DeltaAssumption DEF Zeroes
<1>2. <<>> \in Seq(Delta) /\ Len(<<>>) = 0
  OBVIOUS
<1>3. LagTypeOK'
  BY <1>1, <1>2, Zenon DEF LagTypeOK, LagCleared
<1>4. LagRingHolds'
  BY <1>2 DEF LagRingHolds, LagCleared
<1>5. LagScoreboardExact'
  <2>1. <<>> \in Seq(Delta) /\ Len(<<>>) <= LagHistorySize
    BY <1>2, LagSizes
  <2>2. ASSUME NEW i \in Predictor, NEW s \in Seq(Delta), s = <<>>
        PROVE  Scored(i, s) = 0
    BY <2>1, <2>2, ScoredShort, Zenon
  <2>3. \A i \in Predictor : Scored(i, <<>>) = 0
    BY <2>1, <2>2, Zenon
  <2> QED
    BY <1>1, <2>3, Zenon DEF LagScoreboardExact, LagCleared, Scored
<1>6. LagBestIsBest' /\ LagNoFalseAlarm'
  BY <1>1 DEF LagBestIsBest, LagNoFalseAlarm, LagCleared
<1> QED
  BY <1>2, <1>3, <1>4, <1>5, <1>6, Zenon DEF LagTables, LagCleared

\* The history is filled without a guess.
LEMMA LagFillTables ==
  ASSUME LagTables, NEW delta \in Delta, LagFill(delta), UNCHANGED osr
  PROVE  LagTables'
<1>1. /\ lag_observations \in Nat /\ lag_observations < LagHistorySize
      /\ lag_observations = Len(lag_seen) /\ lag_seen \in Seq(Delta)
  BY LagSizes DEF LagTables, LagTypeOK, LagFill
<1>2. lag_observations % LagHistorySize = lag_observations
  BY <1>1, LagSizes
<1>3. /\ lag_delta_history' \in [Predictor -> Delta]
      /\ lag_seen' \in Seq(Delta) /\ Len(lag_seen') = Len(lag_seen) + 1
      /\ LagRingHolds'
  BY <1>2, RingStored, Zenon DEF LagFill
<1>4. LagTypeOK' /\ lag_observations' = Len(lag_seen')
  BY <1>1, <1>3, LagSizes DEF LagTables, LagTypeOK, LagFill
<1>5. LagScoreboardExact'
  <2>1. Len(lag_seen) <= LagHistorySize /\ Len(lag_seen') <= LagHistorySize
    BY <1>1, <1>3, LagSizes
  <2>2. \A i \in Predictor : Scored(i, lag_seen) = 0 /\ Scored(i, lag_seen') = 0
    BY <1>1, <1>3, <2>1, ScoredShort, Zenon
  <2> QED
    BY <2>2, Zenon DEF LagTables, LagScoreboardExact, LagFill, Scored
<1>6. LagBestIsBest' /\ LagNoFalseAlarm'
  BY Zenon DEF LagTables, LagBestIsBest, LagNoFalseAlarm, LagFill
<1> QED
  BY <1>3, <1>4, <1>5, <1>6, Zenon DEF LagTables

\* A guess raises the scores of the lags that have the delta, and the count of
\* successes with that of the predictor that was followed.
LEMMA LagGuessTables ==
  ASSUME LagTables, NEW delta \in Delta, LagGuess(delta), UNCHANGED osr
  PROVE  LagTables'
<1> DEFINE hits == {i \in Predictor : History(i) = delta}
           gain(i) == IF i \in hits THEN 1 ELSE 0
           correct == History(lag_best_predictor) = delta
           best == lag_best_predictor
           count == lag_prediction_success_count
           run == lag_prediction_success_run
<1>1. /\ osr \in Osr /\ lag_failure \subseteq Severity
      /\ count \in Nat /\ run \in Nat /\ best \in Predictor
      /\ lag_observations = Len(lag_seen) /\ lag_seen \in Seq(Delta)
      /\ lag_observations \in Nat /\ lag_observations >= LagHistorySize
      /\ lag_scoreboard \in [Predictor -> Nat]
      /\ run <= count /\ count <= lag_scoreboard[best]
  BY LagSizes DEF LagTables, LagTypeOK, LagNoFalseAlarm, LagGuess
<1>2. lag_failure' \subseteq Severity
  BY <1>1, Zenon DEF LagGuess, FailureBits, Severity
<1>3. CASE LagCleared
  BY <1>1, <1>2, <1>3, LagClearedTables, Zenon
<1>4. CASE ~LagCleared
  <2>1. /\ ~LagWindowOver(lag_observations + 1)
        /\ lag_prediction_success_count' = count + IF correct THEN 1 ELSE 0
        /\ lag_prediction_success_run' = IF correct THEN run + 1 ELSE 0
        /\ lag_best_predictor' = BestAfter(hits)
        /\ lag_scoreboard' = [i \in Predictor |-> lag_scoreboard[i] + gain(i)]
        /\ lag_delta_history' =
             [lag_delta_history EXCEPT
                ![lag_observations % LagHistorySize] = delta]
        /\ lag_observations' = lag_observations + 1
        /\ lag_seen' = Append(lag_seen, delta)
    BY <1>4, Zenon DEF LagGuess
  <2>2. /\ BestAfter(hits) \in Predictor
        /\ \A i \in Predictor : lag_scoreboard[i] + gain(i) <=
             lag_scoreboard[BestAfter(hits)] + gain(BestAfter(hits))
    BY BestAfterBest, Zenon
  <2>3. /\ \A i \in Predictor : History(i) = lag_seen[Len(lag_seen) - i]
        /\ correct <=> best \in hits
    BY <1>1, RingInOrder, LagSizes DEF LagHistoryInOrder
  <2>4. /\ lag_delta_history' \in [Predictor -> Delta]
        /\ lag_seen' \in Seq(Delta) /\ Len(lag_seen') = Len(lag_seen) + 1
        /\ LagRingHolds'
    BY <2>1, RingStored, Zenon
  <2>5. \A i \in Predictor : gain(i) = IF lag_seen[Len(lag_seen) - i] = delta
                                         THEN 1 ELSE 0
    BY <2>3, Zenon
  <2> HIDE DEF hits
  <2>6. /\ lag_scoreboard' \in [Predictor -> Nat]
        /\ \A i \in Predictor : lag_scoreboard'[i] = lag_scoreboard[i] + gain(i)
    BY <1>1, <2>1
  <2>7. LagScoreboardExact'
    <3>1. ASSUME NEW i \in Predictor
          PROVE  lag_scoreboard'[i] = Scored(i, lag_seen')
      <4>1. lag_scoreboard[i] = Scored(i, lag_seen)
        BY Zenon DEF LagTables, LagScoreboardExact, Scored
      <4>2. Scored(i, Append(lag_seen, delta)) =
              Scored(i, lag_seen) + IF lag_seen[Len(lag_seen) - i] = delta
                                      THEN 1 ELSE 0
        BY <1>1, ScoredAppend, Zenon
      <4> QED
        BY <2>1, <2>5, <2>6, <4>1, <4>2, Zenon
    <3> QED
      BY <3>1, Zenon DEF LagScoreboardExact, Scored
  <2>8. LagBestIsBest'
    BY <2>1, <2>2, <2>6, Zenon DEF LagBestIsBest
  <2>9. LagNoFalseAlarm'
    <3>1. lag_scoreboard'[best] <= lag_scoreboard'[lag_best_predictor']
      BY <1>1, <2>8, Zenon DEF LagBestIsBest
    <3>2. /\ lag_scoreboard'[lag_best_predictor'] \in Nat
          /\ lag_scoreboard[best] \in Nat
      BY <1>1, <2>1, <2>2, <2>6, Zenon
    <3>3. lag_scoreboard'[best] = lag_scoreboard[best] + IF correct THEN 1 ELSE 0
      BY <1>1, <2>3, <2>6, Zenon
    <3> HIDE DEF correct
    <3>4. lag_prediction_success_count' <= lag_scoreboard'[lag_best_predictor']
      BY <1>1, <2>1, <3>1, <3>2, <3>3
    <3>5. lag_prediction_success_run' <= lag_prediction_success_count'
      BY <1>1, <2>1
    <3> QED
      BY <3>4, <3>5, Zenon DEF LagNoFalseAlarm
  <2>10. lag_observations + 1 \in 0 .. LagWindow - 1
    BY <1>1, <2>1, LagSizes DEF LagWindowOver
  <2>11. LagTypeOK'
    BY <1>1, <1>2, <2>1, <2>2, <2>4, <2>6, <2>10 DEF LagTypeOK
  <2> QED
    BY <1>1, <2>1, <2>4, <2>7, <2>8, <2>9, <2>11, Zenon DEF LagTables
<1> QED
  BY <1>3, <1>4, Zenon

-----------------------------------------------------------------------------

\* The tables hold for ever: the tables of an empty window, and after that
\* every step.
LEMMA LagTablesInvariant == LagSpec => []LagTables
<1>1. LagInit => LagTables
  <2> SUFFICES ASSUME LagInit
               PROVE  LagTables
    BY Zenon
  <2>1. /\ 0 \in Predictor /\ 0 \in 0 .. LagWindow - 1
        /\ Zeroes \in [Predictor -> Delta] /\ Zeroes \in [Predictor -> Nat]
        /\ \A i \in Predictor : Zeroes[i] = 0
    BY LagSizes, DeltaAssumption DEF Zeroes
  <2>2. LagTypeOK
    BY <2>1 DEF LagInit, LagTypeOK
  <2>3. lag_seen \in Seq(Delta) /\ Len(lag_seen) = 0
    BY DEF LagInit
  <2>4. LagRingHolds
    BY <2>3 DEF LagRingHolds
  <2>5. \A i \in Predictor : Scored(i, lag_seen) = 0
    <3>1. Len(lag_seen) <= LagHistorySize
      BY <2>3, LagSizes
    <3> QED
      BY <2>3, <3>1, ScoredShort, Zenon
  <2>6. LagScoreboardExact
    BY <2>1, <2>5, Zenon DEF LagScoreboardExact, LagInit, Scored
  <2> QED
    BY <2>1, <2>2, <2>3, <2>4, <2>6
       DEF LagTables, LagInit, LagBestIsBest, LagNoFalseAlarm
<1>2. LagTables /\ [LagNext]_<<osr, lag_vars>> => LagTables'
  <2> SUFFICES ASSUME LagTables, [LagNext]_<<osr, lag_vars>>
               PROVE  LagTables'
    BY Zenon
  <2>0. osr \in Osr /\ lag_failure \subseteq Severity
    BY Zenon DEF LagTables, LagTypeOK
  <2>1. ASSUME NEW delta \in Delta, LagMeasure(delta)
        PROVE  LagTables'
    BY <2>1, LagFillTables, LagGuessTables, Zenon DEF LagMeasure, LagInsert
  <2>2. CASE LagStage
    BY <2>0, <2>2, LagClearedTables, Zenon DEF LagStage
  <2>3. ASSUME NEW o \in Raised, LagReplace(o)
        PROVE  LagTables'
    BY <2>3, <2>0, Zenon DEF LagReplace, LagDuplicate, LagTables, LagTypeOK,
       LagRingHolds, LagScoreboardExact, LagBestIsBest, LagNoFalseAlarm, Raised
  <2>4. CASE UNCHANGED <<osr, lag_vars>>
    BY <2>4, Zenon DEF lag_vars, LagTables, LagTypeOK, LagRingHolds,
       LagScoreboardExact, LagBestIsBest, LagNoFalseAlarm
  <2> QED
    BY <2>1, <2>2, <2>3, <2>4, Zenon DEF LagNext
<1> QED
  BY <1>1, <1>2, PTL DEF LagSpec

\* jent_lag_insert() misses no pattern, whatever rates the counters were
\* carried over, and never reports the permanent failure.
LEMMA LagPatterns == LagSpec => [](LagNoMissedPattern /\ LagNeverPermanent)
<1>1. LagInit => LagInductive
  BY LagCutoffs DEF LagInit, LagInductive, LagNoMissedPattern,
     LagNeverPermanent
<1>2. LagInductive /\ [LagNext]_<<osr, lag_vars>> => LagInductive'
  <2> SUFFICES ASSUME LagInductive, [LagNext]_<<osr, lag_vars>>
               PROVE  LagInductive'
    BY Zenon
  <2>1. CASE LagStage
    BY <2>1, LagClearedInductive, Zenon DEF LagStage, LagInductive,
       LagNeverPermanent
  <2>2. CASE UNCHANGED <<osr, lag_vars>>
    BY <2>2, Zenon DEF lag_vars, LagInductive, LagNoMissedPattern,
       LagNeverPermanent
  <2> QED
    BY <2>1, <2>2, LagMeasureInductive, LagReplaceInductive, Zenon DEF LagNext
<1>3. LagInductive => LagNoMissedPattern /\ LagNeverPermanent
  BY Zenon DEF LagInductive
<1> QED
  BY <1>1, <1>2, <1>3, PTL DEF LagSpec

\* The history jent_lag_insert() reads through JENT_LAG_HISTORY() is in order,
\* the scoreboard counts what recurred in the window, the best predictor has
\* the largest score, no success is counted that its lag did not have, no
\* pattern is missed and the permanent failure never reported: for every size
\* of the history and the window and for all cutoffs.
THEOREM LagCorrect == LagSpec => []LagVerdict
<1>1. LagTables => LagHistoryInOrder /\ LagScoreboardExact /\ LagBestIsBest
                     /\ LagNoFalseAlarm
  BY RingInOrder, Zenon DEF LagTables
<1> QED
  BY <1>1, LagTablesInvariant, LagPatterns, PTL DEF LagVerdict

-----------------------------------------------------------------------------
(* The composition *)

rct_all == <<osr, rct_vars>>
apt_all == <<osr, apt_vars>>
lag_all == <<osr, lag_vars>>

\* A verdict of jent_stuck() is one the RCT takes.
LEMMA StuckIsVerdict ==
  ASSUME NEW delta
  PROVE  Stuck(delta) \in BOOLEAN
BY Zenon DEF Stuck, IsStuck

\* A measurement of the collector is one of each test, or none of it.
LEMMA MeasureOfEach ==
  ASSUME NEW delta \in Delta, Measure(delta)
  PROVE  /\ [RctNext]_rct_all
         /\ [AptNext]_apt_all
         /\ [LagNext]_lag_all
<1>1. rct_failure = {} /\ apt_failure = {} /\ lag_failure = {} /\ osr' = osr
  BY Zenon DEF Measure, HealthFailure
<1>2. LagNext
  BY <1>1, Zenon DEF Measure, JentStuck, LagNext, LagMeasure
<1>3. CASE Unjudged
  <2>1. UNCHANGED <<rct_vars, apt_vars>>
    BY <1>3, Zenon DEF Measure, JentStuck
  <2> QED
    BY <1>1, <1>2, <2>1, Zenon DEF rct_all, apt_all
<1>4. CASE ~Unjudged
  <2>1. AptInsert(delta) /\ RctInsert(Stuck(delta))
    BY <1>4, Zenon DEF Measure, JentStuck
  <2>2. AptNext
    BY <1>1, <2>1, Zenon DEF AptNext, AptMeasure
  <2>3. RctNext
    BY <1>1, <2>1, StuckIsVerdict, Zenon DEF RctNext, RctMeasure
  <2> QED
    BY <1>2, <2>2, <2>3, Zenon
<1> QED
  BY <1>3, <1>4, Zenon

\* The other steps restart all tests, replace the collector of all of them, or
\* change none.
LEMMA OtherStepsOfEach ==
  ASSUME \/ StageEnd
         \/ \E o \in Raised : StartupReset(o) \/ ReadReset(o)
         \/ RecoveryStart \/ RecoveryEnd \/ StartupDone
  PROVE  /\ [RctNext]_rct_all
         /\ [AptNext]_apt_all
         /\ [LagNext]_lag_all
<1>1. CASE StageEnd
  BY <1>1, Zenon DEF StageEnd, RctNext, RctStage, AptNext, AptStage, LagNext,
     LagStage
<1>2. ASSUME NEW o \in Raised, StartupReset(o) \/ ReadReset(o)
      PROVE  RctNext /\ AptNext /\ LagNext
  <2>1. osr' = o /\ RctDuplicate(o) /\ AptDuplicate(o) /\ LagDuplicate
    BY <1>2, Zenon DEF StartupReset, ReadReset, Duplicate, Allocated
  <2> QED
    BY <2>1, Zenon DEF RctNext, RctReplace, AptNext, AptReplace, LagNext,
       LagReplace
<1>3. CASE RecoveryStart \/ RecoveryEnd \/ StartupDone
  BY <1>3, Zenon DEF RecoveryStart, RecoveryEnd, StartupDone, rct_all, apt_all,
     lag_all
<1> QED
  BY <1>1, <1>2, <1>3, Zenon

-----------------------------------------------------------------------------

\* jent_stuck(), jent_random_data() and jent_health_duplicate() put the tests
\* together without changing them: the composition implements the
\* specification of each test.
THEOREM TestsComposed == HealthSpec => EachTestOnItsOwn
<1>1. HealthInit => RctInit /\ AptInit /\ LagInit
  BY Zenon DEF HealthInit
<1>2. [HealthNext]_health_vars =>
        [RctNext]_rct_all /\ [AptNext]_apt_all /\ [LagNext]_lag_all
  <2>1. CASE HealthNext
    BY <2>1, MeasureOfEach, OtherStepsOfEach, Zenon DEF HealthNext
  <2>2. CASE UNCHANGED health_vars
    BY <2>2, Zenon DEF health_vars, rct_all, apt_all, lag_all
  <2> QED
    BY <2>1, <2>2, Zenon
<1> QED
  BY <1>1, <1>2, PTL
     DEF HealthSpec, EachTestOnItsOwn, RctSpec, AptSpec, LagSpec,
         rct_all, apt_all, lag_all

\* So in a collector, whatever the other tests report meanwhile, the verdicts of
\* jent_rct_insert(), jent_apt_insert() and jent_lag_insert() are exact.
THEOREM HealthCorrect ==
  HealthSpec => [](RctVerdict /\ AptVerdict /\ LagVerdict)
BY TestsComposed, RctCorrect, AptCorrect, LagCorrect, PTL DEF EachTestOnItsOwn

-----------------------------------------------------------------------------
(* The stuck test *)

\* The references a measurement is judged against are those of its own noise
\* source: only a stage that a recovery interrupted has fewer unjudged deltas
\* to come than it takes, and the deltas measured are the last of the window.
OwnSourceInv ==
  /\ stuck_prime \in Nat
  /\ startup_state \in Stage /\ saved_state \in Stage \cup {"none"}
  /\ saved_state \notin {"none", "completed"} => interrupted = 1
  /\ measured \in Seq(Delta) /\ Len(measured) <= 2
  /\ interrupted = 0 => stuck_prime + Len(measured) >= 2
  /\ \A i \in 1 .. Len(measured) :
       i <= Len(lag_seen) => measured[i] = lag_seen[Len(lag_seen) - i + 1]

\* A window goes on with the delta, or ends with it.
LEMMA LagInsertSeen ==
  ASSUME NEW delta, LagInsert(delta)
  PROVE  lag_seen' = Append(lag_seen, delta) \/ lag_seen' = <<>>
BY Zenon DEF LagInsert, LagFill, LagGuess, LagCleared

\* A measurement adds its delta in front of the one before.
LEMMA MeasureOwnSource ==
  ASSUME OwnSourceInv, lag_seen \in Seq(Delta), NEW delta \in Delta, Measure(delta)
  PROVE  OwnSourceInv'
<1>1. /\ measured' = IF measured = <<>> THEN <<delta>> ELSE <<delta, measured[1]>>
      /\ UNCHANGED <<startup_state, saved_state, interrupted>>
      /\ LagInsert(delta)
      /\ \/ stuck_prime > 0 /\ stuck_prime' = stuck_prime - 1
         \/ ~(stuck_prime > 0) /\ stuck_prime' = stuck_prime
  BY Zenon DEF Measure, JentStuck, Unjudged
<1>2. stuck_prime \in Nat /\ measured \in Seq(Delta) /\ Len(measured) \in Nat
      /\ Len(measured) <= 2
  BY DEF OwnSourceInv
<1>3. /\ measured' \in Seq(Delta) /\ Len(measured') <= 2
      /\ Len(measured') >= 2 \/ Len(measured') = Len(measured) + 1
      /\ measured'[1] = delta
      /\ Len(measured') = 2 => Len(measured) >= 1 /\ measured'[2] = measured[1]
  <2>1. CASE measured = <<>>
    BY <1>1, <2>1
  <2>2. CASE measured # <<>>
    <3>1. Len(measured) >= 1 /\ measured[1] \in Delta
      BY <1>2, <2>2
    <3> QED
      BY <1>1, <2>2, <3>1
  <2> QED
    BY <2>1, <2>2, Zenon
<1>4. interrupted' = 0 => stuck_prime' + Len(measured') >= 2
  <2>1. interrupted = 0 => stuck_prime + Len(measured) >= 2
    BY Zenon DEF OwnSourceInv
  <2>2. Len(measured') \in Nat
    BY <1>3
  <2> QED
    BY <1>1, <1>2, <1>3, <2>1, <2>2
<1>5. ASSUME NEW i \in 1 .. Len(measured'), i <= Len(lag_seen')
      PROVE  measured'[i] = lag_seen'[Len(lag_seen') - i + 1]
  <2>1. lag_seen' = Append(lag_seen, delta)
    BY <1>1, <1>5, LagInsertSeen
  <2>2. /\ Len(lag_seen') = Len(lag_seen) + 1 /\ Len(lag_seen) \in Nat
        /\ lag_seen'[Len(lag_seen) + 1] = delta
        /\ \A k \in 1 .. Len(lag_seen) : lag_seen'[k] = lag_seen[k]
    BY <2>1
  <2>3. i \in {1, 2}
    BY <1>3
  <2>4. CASE i = 1
    BY <1>3, <2>2, <2>4
  <2>5. CASE i = 2
    <3>1. Len(measured') = 2 /\ 1 <= Len(lag_seen) /\ 1 \in 1 .. Len(measured)
      <4>1. PICK m \in Nat : m = Len(measured')
        BY <1>3
      <4>2. m <= 2 /\ 2 <= m
        BY <1>3, <2>5, <4>1
      <4>3. Len(measured') = 2
        BY <4>1, <4>2
      <4>4. Len(measured) >= 1
        BY <1>3, <4>3, Zenon
      <4> QED
        BY <1>2, <1>5, <2>2, <2>5, <4>3, <4>4
    <3>2. measured[1] = lag_seen[Len(lag_seen) - 1 + 1]
      BY <3>1, Zenon DEF OwnSourceInv
    <3> QED
      BY <1>3, <2>2, <2>5, <3>1, <3>2
  <2> QED
    BY <2>3, <2>4, <2>5, Zenon
<1>6. stuck_prime' \in Nat
  BY <1>1, <1>2
<1> QED
  BY <1>1, <1>3, <1>4, <1>5, <1>6, Zenon DEF OwnSourceInv

\* The other steps keep the source, or have the deltas of the next one unjudged.
LEMMA OtherOwnSource ==
  ASSUME OwnSourceInv, [HealthNext]_health_vars,
         ~\E delta \in Delta : Measure(delta)
  PROVE  OwnSourceInv'
<1>0. <<>> \in Seq(Delta) /\ Len(<<>>) = 0 /\ 1 .. 0 = {}
  OBVIOUS
<1>1. CASE RecoveryStart
  <2>1. /\ saved_state' = startup_state /\ startup_state' = "completed"
        /\ measured' = IF startup_state = "completed" THEN measured ELSE <<>>
        /\ interrupted' = IF startup_state = "completed" THEN interrupted ELSE 1
        /\ UNCHANGED <<stuck_prime, lag_seen>>
    BY <1>1, Zenon DEF RecoveryStart, lag_vars
  <2>2. CASE startup_state = "completed"
    BY <2>1, <2>2, Zenon DEF OwnSourceInv, Stage
  <2>3. CASE startup_state # "completed"
    BY <1>0, <2>1, <2>3 DEF OwnSourceInv, Stage
  <2> QED
    BY <2>2, <2>3, Zenon
<1>2. CASE RecoveryEnd
  <2>1. /\ saved_state # "none" /\ saved_state' = "none"
        /\ startup_state' = saved_state
        /\ measured' = IF saved_state = "completed" THEN measured ELSE <<>>
        /\ UNCHANGED <<stuck_prime, lag_seen, interrupted>>
    BY <1>2, Zenon DEF RecoveryEnd, lag_vars
  <2>2. CASE saved_state = "completed"
    BY <2>1, <2>2, Zenon DEF OwnSourceInv, Stage
  <2>3. CASE saved_state # "completed"
    BY <1>0, <2>1, <2>3 DEF OwnSourceInv, Stage
  <2> QED
    BY <2>2, <2>3, Zenon
<1>3. CASE /\ measured' = <<>> /\ stuck_prime' = StuckPrime
           /\ startup_state' \in Stage /\ saved_state' = "none"
  BY <1>0, <1>3, HealthAssumption DEF OwnSourceInv
<1>4. CASE StageEnd
  BY <1>3, <1>4, Zenon DEF StageEnd, PrimeAgain, Stage
<1>5. CASE UNCHANGED <<stuck_prime, startup_state, saved_state, measured,
                       interrupted, lag_seen>>
  BY <1>5, Zenon DEF OwnSourceInv
<1>6. CASE StartupDone \/ UNCHANGED health_vars
  BY <1>5, <1>6, Zenon DEF StartupDone, health_vars, lag_vars
<1>7. ASSUME NEW o \in Raised, StartupReset(o) \/ ReadReset(o)
      PROVE  OwnSourceInv'
  <2>1. startup_state \in Stage
    BY Zenon DEF OwnSourceInv
  <2> QED
    BY <1>3, <1>7, <2>1, Zenon DEF StartupReset, ReadReset, Duplicate,
       Allocated, PrimeAgain, Stage
<1> QED
  BY <1>1, <1>2, <1>4, <1>6, <1>7, Zenon DEF HealthNext

\* The invariant holds in every state of a run.
LEMMA OwnSourceInvariant == HealthSpec => [](OwnSourceInv /\ LagTables)
<1>1. HealthInit => OwnSourceInv
  BY HealthAssumption DEF HealthInit, OwnSourceInv, Stage
<1>2. OwnSourceInv /\ LagTables /\ [HealthNext]_health_vars => OwnSourceInv'
  <2>1. LagTables => lag_seen \in Seq(Delta)
    BY Zenon DEF LagTables, LagTypeOK
  <2> QED
    BY <2>1, MeasureOwnSource, OtherOwnSource, Zenon
<1> QED
  BY <1>1, <1>2, TestsComposed, LagTablesInvariant, PTL
     DEF HealthSpec, EachTestOnItsOwn

\* jent_stuck() judges no delta before its noise source has delivered two for
\* reference, and jent_delta2() and jent_delta3() take these two.
THEOREM StuckJudgesOwnSource == HealthSpec => StuckAgainstOwnSource
<1>1. OwnSourceInv /\ LagTables /\ [HealthNext]_health_vars =>
        [\A delta \in Delta :
           Judged(delta) /\ interrupted = 0 =>
             /\ Len(measured) = 2
             /\ lag_observations >= 2 => StuckByDefinition(delta)]_health_vars
  <2> SUFFICES ASSUME OwnSourceInv, LagTables, NEW delta \in Delta,
                      Judged(delta), interrupted = 0
               PROVE  /\ Len(measured) = 2
                      /\ lag_observations >= 2 => StuckByDefinition(delta)
    BY Zenon
  <2>1. Len(measured) = 2
    <3>1. /\ Len(measured) \in Nat /\ Len(measured) <= 2
          /\ stuck_prime + Len(measured) >= 2 /\ stuck_prime = 0
      BY DEF OwnSourceInv, Judged
    <3> QED
      BY <3>1
  <2>2. ASSUME lag_observations >= 2
        PROVE  StuckByDefinition(delta)
    <3>1. /\ lag_seen \in Seq(Delta) /\ Len(lag_seen) \in Nat /\ Len(lag_seen) >= 2
          /\ 0 \in Predictor /\ 1 \in Predictor
      BY <2>2, LagSizes DEF LagTables, LagTypeOK
    <3>2. /\ History(0) = lag_seen[Len(lag_seen) - 0]
          /\ History(1) = lag_seen[Len(lag_seen) - 1]
      BY <3>1, RingInOrder DEF LagHistoryInOrder
    <3>3. /\ measured[1] = lag_seen[Len(lag_seen) - 1 + 1]
          /\ measured[2] = lag_seen[Len(lag_seen) - 2 + 1]
      BY <2>1, <3>1 DEF OwnSourceInv
    <3>4. History(0) = measured[1] /\ History(1) = measured[2]
      BY <3>1, <3>2, <3>3
    <3> QED
      BY <2>1, <3>4, Zenon DEF StuckByDefinition, Stuck
  <2> QED
    BY <2>1, <2>2, Zenon
<1> QED
  BY <1>1, OwnSourceInvariant, PTL DEF HealthSpec, StuckAgainstOwnSource
=============================================================================
