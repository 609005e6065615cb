--------------------------- MODULE InstanceSlots ---------------------------
(***************************************************************************)
(* The slots of /dev/jitterentropy: at most max_instances files are open   *)
(* at a time, unless their openers are privileged.                         *)
(*                                                                         *)
(* The count is one atomic word that concurrent opens raise with compare   *)
(* and swap.  An open takes its slot before it allocates anything and has  *)
(* to give it back on every path that fails.                               *)
(***************************************************************************)
EXTENDS Integers, FiniteSets

CONSTANTS Opener,           \* the processes that open the device
          Privileged,       \* those with CAP_SYS_RESOURCE
          max_instances,    \* 0 for unlimited
          INT_MAX           \* of the count

VARIABLES open_instances,   \* jent_open_instances
          pc,               \* where every opener is
          cur,              \* the local of jent_proc_instance_inc()
          limit,            \* its parameter max; history: of a slot that is
                            \* held, the one it was granted within
          full              \* history: 1 if the device was full at some moment
                            \* of this call
slot_vars == <<open_instances, pc, cur, limit, full>>

\* Whether the limit m refuses a slot to a count of n: "capped" at INT_MAX "so
\* the increment cannot wrap".
Refuses(m, n) == m # 0 /\ n >= (IF m <= INT_MAX THEN m ELSE INT_MAX)

Full(n) == Refuses(max_instances, n)

\* The calls in progress see every change of the count.
Watch(inside) ==
  full' = [p \in Opener |->
             IF p \in inside /\ (full[p] = 1 \/ Full(open_instances'))
               THEN 1 ELSE 0]

Inside == {p \in Opener : pc[p] \in {"read", "try", "denied"}}

-----------------------------------------------------------------------------
(* jent_proc_instance_inc() *)

\* jent_chardev_open() asks within the limit.
Ask(p) ==
  /\ pc[p] = "idle"
  /\ pc' = [pc EXCEPT ![p] = "read"]
  /\ limit' = [limit EXCEPT ![p] = max_instances]
  /\ UNCHANGED <<open_instances, cur>>
  /\ Watch(Inside \cup {p})

\* atomic_read().
Load(p) ==
  /\ pc[p] = "read"
  /\ cur' = [cur EXCEPT ![p] = open_instances]
  /\ pc' = [pc EXCEPT ![p] = "try"]
  /\ UNCHANGED <<open_instances, limit>>
  /\ Watch(Inside)

\* The test of the loop, on the value that was read.
Refused(p) ==
  /\ pc[p] = "try"
  /\ Refuses(limit[p], cur[p])
  /\ pc' = [pc EXCEPT ![p] = "denied"]
  /\ cur' = [cur EXCEPT ![p] = 0]
  /\ UNCHANGED <<open_instances, limit>>
  /\ Watch(Inside)

\* atomic_try_cmpxchg() finds the value that was tested.  First, an increment that
\* does not look.
NotCompared(p) == TRUE

StillCurrent(p) == open_instances = cur[p]

Swap(p) ==
  /\ pc[p] = "try"
  /\ ~Refuses(limit[p], cur[p])
  /\ StillCurrent(p)
  /\ open_instances' = open_instances + 1
  /\ pc' = [pc EXCEPT ![p] = "slot"]
  /\ cur' = [cur EXCEPT ![p] = 0]
  /\ UNCHANGED limit
  /\ Watch(Inside \ {p})

\* It does not, and leaves the value it found in cur.
SwapFails(p) ==
  /\ pc[p] = "try"
  /\ ~Refuses(limit[p], cur[p])
  /\ open_instances # cur[p]
  /\ cur' = [cur EXCEPT ![p] = open_instances]
  /\ UNCHANGED <<open_instances, pc, limit>>
  /\ Watch(Inside)

-----------------------------------------------------------------------------
(* jent_chardev_open() and jent_chardev_release() *)

\* jent_chardev_instance_get() of a privileged opener asks again, unlimited.
Exempt(p) ==
  /\ pc[p] = "denied"
  /\ p \in Privileged
  /\ limit' = [limit EXCEPT ![p] = 0]
  /\ pc' = [pc EXCEPT ![p] = "read"]
  /\ UNCHANGED <<open_instances, cur>>
  /\ Watch(Inside)

\* -ENFILE.
Deny(p) ==
  /\ pc[p] = "denied"
  /\ p \notin Privileged
  /\ pc' = [pc EXCEPT ![p] = "idle"]
  /\ limit' = [limit EXCEPT ![p] = 0]
  /\ UNCHANGED <<open_instances, cur>>
  /\ Watch(Inside \ {p})

\* Context and collector are there: the file is open.
Allocated(p) ==
  /\ pc[p] = "slot"
  /\ pc' = [pc EXCEPT ![p] = "open"]
  /\ UNCHANGED <<open_instances, cur, limit>>
  /\ Watch(Inside)

\* What jent_chardev_instance_put() leaves of the count.
Returned(n) == n - 1

\* kvzalloc() or jent_entropy_collector_alloc() fails: -ENOMEM.
AllocationFails(p) ==
  /\ pc[p] = "slot"
  /\ open_instances' = Returned(open_instances)
  /\ pc' = [pc EXCEPT ![p] = "idle"]
  /\ limit' = [limit EXCEPT ![p] = 0]
  /\ UNCHANGED cur
  /\ Watch(Inside)

\* jent_chardev_release(), which ends with the put.
Close(p) ==
  /\ pc[p] = "open"
  /\ open_instances' = open_instances - 1
  /\ pc' = [pc EXCEPT ![p] = "idle"]
  /\ limit' = [limit EXCEPT ![p] = 0]
  /\ UNCHANGED cur
  /\ Watch(Inside)

-----------------------------------------------------------------------------

Init ==
  /\ open_instances = 0
  /\ pc = [p \in Opener |-> "idle"]
  /\ cur = [p \in Opener |-> 0]
  /\ limit = [p \in Opener |-> 0]
  /\ full = [p \in Opener |-> 0]

Next ==
  \E p \in Opener :
    \/ Ask(p) \/ Load(p) \/ Refused(p) \/ Swap(p) \/ SwapFails(p)
    \/ Exempt(p) \/ Deny(p) \/ Allocated(p) \/ AllocationFails(p) \/ Close(p)

Spec == Init /\ [][Next]_slot_vars

-----------------------------------------------------------------------------
(* Properties *)

Holders == {p \in Opener : pc[p] \in {"slot", "open"}}

\* The count of jent_proc_instance_inc() and jent_proc_instance_dec() is the
\* number of slots held: no failing open keeps one, none is given back twice.
SlotsCounted == open_instances = Cardinality(Holders)

\* The slots granted within the limit, which are all an opener without the
\* privilege can have.
Within == {p \in Holders : p \notin Privileged \/ limit[p] # 0}

\* No more than max_instances of them are ever held, however the compare and
\* swap loops of jent_proc_instance_inc() interleave.
LimitKept == max_instances # 0 => Cardinality(Within) <= max_instances

\* "exactly the free slots are admitted": jent_proc_instance_inc() refuses only
\* an opener during whose call the device was full.
RefusedOnlyWhenFull == \A p \in Opener : pc[p] = "denied" => full[p] = 1

\* The three together: jent_proc_instance_inc() and jent_proc_instance_dec()
\* account for every slot.
SlotsExact == SlotsCounted /\ LimitKept /\ RefusedOnlyWhenFull
=============================================================================
