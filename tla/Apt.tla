-------------------------------- MODULE Apt --------------------------------
(***************************************************************************)
(* The adaptive proportion test of one instance, across the collectors     *)
(* that replace each other under it.                                       *)
(*                                                                         *)
(* The first symbol of a window is its base; the test counts how often the *)
(* base occurs in the window.  A replacement takes the base and the        *)
(* position of its predecessor's window over, with the count primed at the *)
(* intermittent cutoff.  History variables keep the symbols themselves, so *)
(* that the counters can be compared with what they stand for.             *)
(***************************************************************************)
EXTENDS TimeDelta, Sequences, FiniteSets

CONSTANTS AptWindow,            \* JENT_APT_WINDOW_SIZE
          AptCutoff,            \* jent_apt_cutoff_lookup[], by rate
          AptCutoffPermanent    \* jent_apt_cutoff_permanent_lookup[], by rate

\* What the tables of jent_apt_init() and jent_apt_init_ntg1() satisfy.  From
\* some rate on the two common cutoffs are both the window size.
ASSUME AptAssumption ==
  /\ AptWindow \in Nat
  /\ AptCutoff \in [Osr -> Nat]
  /\ AptCutoffPermanent \in [Osr -> Nat]
  /\ \A o \in Osr : /\ 1 < AptCutoff[o]
                    /\ AptCutoff[o] <= AptCutoffPermanent[o]
                    /\ AptCutoffPermanent[o] <= AptWindow

VARIABLES apt_base,             \* ec->apt_base
          apt_base_set,         \* ec->apt_base_set, one bit
          apt_count,            \* ec->apt_count
          apt_observations,     \* ec->apt_observations
          apt_failure,          \* the APT's bits of ec->health_failure
          apt_symbols,          \* history: the symbols this collector took
                                \* into the window
          apt_prime,            \* history: the count the window was taken over
                                \* with, 0 for one this collector opened
          apt_position          \* history: the position it was taken over at

apt_vars == <<apt_base, apt_base_set, apt_count, apt_observations,
              apt_failure, apt_symbols, apt_prime, apt_position>>

\* The reference: how often d occurs in s.
Occurrences(d, s) == Cardinality({i \in DOMAIN s : s[i] = d})

-----------------------------------------------------------------------------
(* The operations *)

\* The count a window starts with: "Note, ec->apt_count starts with one".
AptFirst == 1

\* Whether n observations complete a window.
AptComplete(n) == n >= AptWindow

\* The count jent_apt_reinit() gives a window taken over at rate o.  First,
\* one below the cutoff.
AptPrimingLow(o) == AptCutoff[o] - 1

AptPriming(o) == AptCutoff[o]

\* jent_apt_reset(): the next symbol is the base of the next window.  Nothing
\* else of the old window is cleared.
AptReset ==
  /\ apt_base_set' = 0
  /\ UNCHANGED <<apt_base, apt_count, apt_observations, apt_failure,
                 apt_symbols, apt_prime, apt_position>>

\* jent_apt_insert(): one judged measurement.
AptInsert(delta) ==
  \/ /\ apt_base_set = 0                   \* jent_apt_reinit(delta, 1, 1)
     /\ apt_base' = delta
     /\ apt_base_set' = 1
     /\ apt_count' = AptFirst
     /\ apt_observations' = 1
     /\ apt_symbols' = <<delta>>
     /\ apt_prime' = 0
     /\ apt_position' = 0
     /\ UNCHANGED apt_failure
  \/ /\ apt_base_set = 1
     /\ apt_count' = IF delta = apt_base THEN apt_count + 1 ELSE apt_count
     /\ apt_failure' = apt_failure \cup
          (IF delta = apt_base
             THEN FailureBits(apt_count' >= AptCutoffPermanent[osr],
                              apt_count' = AptCutoff[osr])
             ELSE {})
     /\ apt_observations' = apt_observations + 1
     /\ apt_base_set' = IF AptComplete(apt_observations') THEN 0 ELSE 1
     /\ apt_symbols' = Append(apt_symbols, delta)
     /\ UNCHANGED <<apt_base, apt_prime, apt_position>>

\* jent_apt_duplicate() on a freshly initialized replacement running at rate o.
\* A predecessor that has observed anything passes its base on, whether or not
\* its window is still open: jent_apt_duplicate() looks at apt_observations only,
\* which neither the end of a window nor jent_apt_reset() clears.  The unit test
\* has it that "a window that has not begun carries nothing over", which is so
\* for the first window of a collector.
AptDuplicate(o) ==
  /\ apt_failure' = {}
  /\ apt_symbols' = <<>>
  /\ \/ /\ apt_observations # 0            \* jent_apt_reinit(base, 0, n)
        /\ apt_base_set' = 1
        /\ apt_count' = AptPriming(o)
        /\ apt_prime' = AptCutoff[o]
        /\ apt_position' = apt_observations
        /\ UNCHANGED <<apt_base, apt_observations>>
     \/ /\ apt_observations = 0
        /\ apt_base_set' = 0
        /\ apt_count' = 0
        /\ apt_prime' = 0
        /\ apt_position' = 0
        /\ apt_base' = 0
        /\ UNCHANGED apt_observations

-----------------------------------------------------------------------------
(* The test alone *)

\* jent_zalloc() of the collector and jent_health_init().
AptInit ==
  /\ osr \in Osr
  /\ apt_base = 0
  /\ apt_base_set = 0
  /\ apt_count = 0
  /\ apt_observations = 0
  /\ apt_failure = {}
  /\ apt_symbols = <<>>
  /\ apt_prime = 0
  /\ apt_position = 0

AptMeasure(delta) ==
  /\ apt_failure = {}
  /\ AptInsert(delta)
  /\ UNCHANGED osr

AptStage ==
  /\ AptReset
  /\ UNCHANGED osr

AptReplace(o) ==
  /\ osr' = o
  /\ AptDuplicate(o)

AptNext ==
  \/ \E delta \in Delta : AptMeasure(delta)
  \/ AptStage
  \/ \E o \in Raised : AptReplace(o)

AptSpec == AptInit /\ [][AptNext]_<<osr, apt_vars>>

-----------------------------------------------------------------------------
(* Properties *)

\* Every variable has its type: jent_apt_insert() and jent_apt_duplicate() keep
\* the base a symbol and the counters numbers.
AptTypeOK ==
  /\ osr \in Osr
  /\ apt_base \in Delta
  /\ apt_base_set \in {0, 1}
  /\ apt_count \in Nat
  /\ apt_observations \in Nat
  /\ apt_failure \subseteq Severity
  /\ apt_symbols \in Seq(Delta)
  /\ apt_prime \in {0, AptCutoff[osr]}
  /\ apt_position \in Nat

\* What jent_apt_insert() counts: in an open window the count is the number of
\* occurrences of the base among the window's symbols, on top of the priming,
\* and the base of a window this collector opened is its first symbol.
AptCountsWindow ==
  apt_base_set = 1 =>
    /\ apt_count = apt_prime + Occurrences(apt_base, apt_symbols)
    /\ apt_observations = apt_position + Len(apt_symbols)
    /\ apt_prime = 0 => apt_symbols # <<>> /\ apt_symbols[1] = apt_base

\* No repeated symbol is missed: while jent_apt_insert() has reported nothing,
\* the base of a window this collector opened has occurred less often than the
\* cutoff; in a window that was taken over it has not occurred at all or the
\* count, which starts at the cutoff, is below the permanent one.
AptNoMissedRepetition ==
  apt_failure = {} /\ apt_base_set = 1 =>
    IF apt_prime = 0
      THEN Occurrences(apt_base, apt_symbols) < AptCutoff[osr]
      ELSE \/ Occurrences(apt_base, apt_symbols) = 0
           \/ AptCutoff[osr] + Occurrences(apt_base, apt_symbols)
                < AptCutoffPermanent[osr]

\* Nothing but repetition is reported by jent_apt_insert(): an intermittent
\* failure is a window of this collector with exactly the cutoff's number of
\* occurrences, a permanent one takes the priming or a rate whose cutoffs
\* coincide.
AptNoFalseAlarm ==
  /\ "intermittent" \in apt_failure =>
       /\ apt_prime = 0
       /\ Occurrences(apt_base, apt_symbols) = AptCutoff[osr]
  /\ "permanent" \in apt_failure =>
       /\ Occurrences(apt_base, apt_symbols) > 0
       /\ apt_prime + Occurrences(apt_base, apt_symbols)
            >= AptCutoffPermanent[osr]
       /\ apt_prime = 0 => AptCutoff[osr] = AptCutoffPermanent[osr]

\* A window ends: jent_apt_insert() counts no symbol into a full window this
\* collector opened, and into one it took over no more than were left of it.  The
\* exception is a window that was complete when it was taken over: it is open
\* again, and closes after one symbol.
AptWindowEnds ==
  /\ Len(apt_symbols) <= 1 \/ apt_position + Len(apt_symbols) <= AptWindow
  /\ apt_base_set = 1 /\ apt_symbols # <<>> => apt_observations < AptWindow

\* What jent_apt_insert() counts and reports is exactly what its window holds:
\* the four above.
AptVerdict ==
  /\ AptCountsWindow
  /\ AptNoMissedRepetition
  /\ AptNoFalseAlarm
  /\ AptWindowEnds
=============================================================================
