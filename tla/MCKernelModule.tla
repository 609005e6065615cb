-------------------------- MODULE MCKernelModule --------------------------
(***************************************************************************)
(* A field of 4, one more than the bound of 3, which stands for 4 kB; a    *)
(* size that is no power of two, and one above the bound.  A user inside   *)
(* and outside of namespaces of its own, and a container whose namespace   *)
(* is torn down and set up again at the same address; root is in it and    *)
(* the user as well.                                                       *)
(***************************************************************************)
EXTENDS KernelModule, TLC

CONSTANTS alice, mapped, root, init, box, nested, t1, t2, t3, b1, b2, b3

Callers ==
  {[uid |-> alice, owners |-> <<>>, pid_nss |-> <<>>],
   [uid |-> mapped, owners |-> <<mapped, alice, root>>, pid_nss |-> <<nested>>],
   [uid |-> root, owners |-> <<>>, pid_nss |-> <<box>>],
   [uid |-> alice, owners |-> <<>>, pid_nss |-> <<box>>],
   [uid |-> root, owners |-> <<root>>, pid_nss |-> <<nested, box>>],
   [uid |-> root, owners |-> <<>>, pid_nss |-> <<>>]}

Admin == {[uid |-> root, owners |-> <<>>, pid_nss |-> <<>>]}

Tfms == {t1, t2, t3}
Buckets == {b1, b2, b3}
Boxes == {box}
Alike == Permutations(Tfms) \cup Permutations(Buckets)
=============================================================================
