------------------------------- MODULE MCRngd -------------------------------
EXTENDS Rngd

\* The wakeups of the two phases, the first the longer.
MCReseedWakeups == [p \in {0, 1} |-> IF p = 0 THEN 3 ELSE 2]

\* An empty pool, one below the threshold, a full one, and what is no value.
MCContent == {0, 1, 2, 3, -1, NoNumber}
=============================================================================
