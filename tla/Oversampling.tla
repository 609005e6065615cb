--------------------------- MODULE Oversampling ---------------------------
(***************************************************************************)
(* The oversampling rate of an entropy collector and the two severities a  *)
(* health test reports.  Shared by the modules of the health tests: the    *)
(* cutoffs of every test are a function of the rate, and a replacement     *)
(* collector runs at a higher one.                                         *)
(***************************************************************************)
EXTENDS Integers

CONSTANTS MinOsr,   \* JENT_MIN_OSR
          MaxOsr    \* JENT_MAX_OSR

\* The build assertions of jent_entropy_collector_alloc_internal().
ASSUME OsrAssumption ==
  /\ MinOsr \in Nat \ {0}
  /\ MaxOsr \in Nat
  /\ MinOsr <= MaxOsr

VARIABLE osr        \* ec->osr

Osr == MinOsr .. MaxOsr

\* One health test owns two bits of ec->health_failure: the intermittent and
\* the permanent one.  A test's part of the word is the set of its set bits.
Severity == {"intermittent", "permanent"}

\* The bits one insertion sets: a count that has reached the permanent cutoff
\* reports only the permanent failure.
FailureBits(permanent, intermittent) ==
  IF permanent THEN {"permanent"}
               ELSE IF intermittent THEN {"intermittent"} ELSE {}

\* The rates a replacement may run at: one more than the failed collector's,
\* or higher where the startup test fails at that rate.
Raised == {o \in Osr : o > osr}
=============================================================================
