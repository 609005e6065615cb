-------------------------- MODULE EntropyService ---------------------------
(***************************************************************************)
(* What an instance of the library promises its caller: a request returns  *)
(* either every block it asked for or none at all, and the instance        *)
(* accounts for exactly what it returned, whatever happens to the          *)
(* collector behind it.                                                    *)
(***************************************************************************)
EXTENDS Integers

VARIABLES open,    \* 1 while the caller holds an instance
          busy,    \* 1 while a call runs
          asked,   \* the blocks the running or the last request asked for
          data,    \* the blocks the last request returned
          reads,   \* the requests the instance says it has fulfilled
          blocks   \* the blocks it says it has returned

serviceVars == <<open, busy, asked, data, reads, blocks>>

ServiceInit ==
  /\ open = 0 /\ busy = 0
  /\ asked = 0 /\ data = 0
  /\ reads = 0 /\ blocks = 0

\* A call begins: nothing has been returned yet.
Begin ==
  /\ busy = 0
  /\ busy' = 1
  /\ asked' \in Nat
  /\ data' = 0
  /\ UNCHANGED <<open, reads, blocks>>

\* A request is fulfilled.
Fulfil ==
  /\ open = 1 /\ busy = 1
  /\ busy' = 0
  /\ data' = asked
  /\ reads' = reads + 1
  /\ blocks' = blocks + asked
  /\ UNCHANGED <<open, asked>>

\* A call fails, and returns nothing.
Refuse ==
  /\ busy = 1
  /\ busy' = 0
  /\ UNCHANGED <<open, asked, data, reads, blocks>>

\* An allocation succeeds: an instance that has returned nothing.
Open ==
  /\ open = 0 /\ busy = 1
  /\ open' = 1
  /\ busy' = 0
  /\ UNCHANGED <<asked, data, reads, blocks>>

\* A call that asks for nothing, or fails at once.
Inquire ==
  /\ busy = 0
  /\ asked' = 0
  /\ data' = 0
  /\ UNCHANGED <<open, busy, reads, blocks>>

Close ==
  /\ open = 1 /\ busy = 0
  /\ open' = 0
  /\ reads' = 0
  /\ blocks' = 0
  /\ UNCHANGED <<busy, asked, data>>

ServiceNext == Begin \/ Fulfil \/ Refuse \/ Open \/ Inquire \/ Close

ServiceSpec == ServiceInit /\ [][ServiceNext]_serviceVars
=============================================================================
