------------------------------- MODULE Kcapi -------------------------------
(***************************************************************************)
(* The instances of the kernel crypto API and the buckets they are charged *)
(* to, one per pair of a user and a container.                             *)
(*                                                                         *)
(* A bucket lives in a hash table while anything is charged to it.  It is  *)
(* found by the address of a PID namespace, and the memory of a namespace  *)
(* that is gone may be used for another one.                               *)
(***************************************************************************)
EXTENDS Integers, Sequences, FiniteSets, Functions

CONSTANTS Tfm,          \* the instances
          Caller,       \* who may call, see below
          Capable,      \* the callers with CAP_SYS_RESOURCE
          Root,         \* GLOBAL_ROOT_UID
          InitPidNs,    \* &init_pid_ns
          Privileged,   \* the other PID namespaces that init_user_ns owns
          Bucket,       \* the addresses of struct jent_kcapi_user
          max_kcapi_instances,
          MaxIncarnation,   \* bounds the namespaces an address is reused for
          None

\* A caller is its uid, the owners of its user namespaces below init_user_ns,
\* innermost first, and the addresses of its PID namespaces below init_pid_ns.
ASSUME CallerAssumption ==
  /\ \A c \in Caller : /\ {"uid", "owners", "pid_nss"} \subseteq DOMAIN c
                       /\ c.owners \in Seq(Range(c.owners))
                       /\ c.pid_nss \in Seq(Range(c.pid_nss))
  /\ Capable \subseteq Caller
  /\ max_kcapi_instances \in Nat
  /\ InitPidNs \notin Privileged
  /\ IsFiniteSet(Tfm)
  /\ None \notin Bucket \cup Privileged \cup {InitPidNs}

PidNs == Privileged \cup {InitPidNs}

VARIABLES table,        \* jent_kcapi_users: the buckets in the hash table
          key,          \* the uid and pid_ns of every bucket
          count,        \* the count of every bucket
          incarnation,  \* which namespace lives at an address
          alive,        \* the addresses whose namespace has processes
          refs,         \* get_pid_ns() minus put_pid_ns(), by address
          tfm,          \* how far every instance is
          user,         \* rng->user
          tenant,       \* history: who an instance was created for
          parting       \* the namespace an instance still has to put

bucket_vars == <<table, key, count, incarnation, alive, refs, tfm, user,
                 tenant, parting>>

-----------------------------------------------------------------------------
(* Who is charged *)

\* jent_kcapi_charged_uid(): the loop ends with the outermost owner that is not
\* root.  First, one that stops at the innermost.
ChargedUidInnermost(c) ==
  LET uid[n \in 1 .. Len(c.owners) + 1] ==
        IF n > Len(c.owners) THEN c.uid
        ELSE IF c.owners[n] # Root THEN c.owners[n] ELSE uid[n + 1]
  IN  uid[1]

ChargedUid(c) ==
  LET uid[n \in 0 .. Len(c.owners)] ==
        IF n = 0 THEN c.uid
        ELSE IF c.owners[n] # Root THEN c.owners[n] ELSE uid[n - 1]
  IN  uid[Len(c.owners)]

\* jent_kcapi_charged_pid_ns(): the outermost that init_user_ns owns.
ChargedPidNs(c) ==
  LET charged[n \in 0 .. Len(c.pid_nss)] ==
        IF n = 0 THEN InitPidNs
        ELSE IF c.pid_nss[n] \in Privileged THEN c.pid_nss[n]
        ELSE charged[n - 1]
  IN  charged[Len(c.pid_nss)]

Key(c) == <<ChargedUid(c), ChargedPidNs(c)>>

\* The tenant that stands behind a call, by what the limit is meant for: a user
\* together with every namespace below one of its own, in a container together
\* with every namespace in it.  "A uid alone does not name a tenant", nor does a
\* container: two users of a container are two, and so is one user in and out of
\* a sandbox that a privileged helper made.
Behind(c) ==
  LET own   == {i \in DOMAIN c.owners : c.owners[i] # Root}
      boxes == {i \in DOMAIN c.pid_nss : c.pid_nss[i] \in Privileged}
      last(S) == CHOOSE i \in S : \A j \in S : j <= i
      ns    == IF boxes = {} THEN InitPidNs ELSE c.pid_nss[last(boxes)]
  IN  <<IF own = {} THEN c.uid ELSE c.owners[last(own)], ns, incarnation[ns]>>

-----------------------------------------------------------------------------
(* jent_kcapi_instance_get() and jent_kcapi_instance_put() *)

\* A caller's processes keep its namespaces alive.
MayCall(c) ==
  \A i \in DOMAIN c.pid_nss : c.pid_nss[i] \in PidNs => c.pid_nss[i] \in alive

Found(c) == {b \in table : key[b] = Key(c)}

\* Whether the limit refuses an instance in a bucket of n.
AtLimit(n) == max_kcapi_instances # 0 /\ n >= max_kcapi_instances

\* get_pid_ns() for a new bucket.  First, one that is left out.
NotReferenced(ns) == refs

Referenced(ns) == [refs EXCEPT ![ns] = @ + 1]

\* Under jent_kcapi_users_lock: a bucket is found, and has room or a capable
\* caller; then jent_kcapi_tfm_init() goes on.
ChargeFound(t, c) ==
  /\ tfm[t] = "none"
  /\ MayCall(c)
  /\ \E b \in Found(c) :
       /\ AtLimit(count[b]) => c \in Capable
       /\ count' = [count EXCEPT ![b] = @ + 1]
       /\ user' = [user EXCEPT ![t] = b]
  /\ tfm' = [tfm EXCEPT ![t] = "charged"]
  /\ tenant' = [tenant EXCEPT ![t] = <<Behind(c), c \in Capable>>]
  /\ UNCHANGED <<table, key, incarnation, alive, refs, parting>>

\* A new bucket.  Without one the call ends in -ENOMEM, at the limit in -ENFILE,
\* and nothing has changed.
ChargeNew(t, c) ==
  /\ tfm[t] = "none"
  /\ MayCall(c)
  /\ Found(c) = {}
  /\ \E b \in Bucket \ table :
       /\ table' = table \cup {b}
       /\ key' = [key EXCEPT ![b] = Key(c)]
       /\ count' = [count EXCEPT ![b] = 1]
       /\ user' = [user EXCEPT ![t] = b]
  /\ refs' = Referenced(ChargedPidNs(c))
  /\ tfm' = [tfm EXCEPT ![t] = "charged"]
  /\ tenant' = [tenant EXCEPT ![t] = <<Behind(c), c \in Capable>>]
  /\ UNCHANGED <<incarnation, alive, parting>>

\* Under the lock: the last instance takes the bucket along.
Emptied(b) == count[b] = 1

Put(t, b) ==
  /\ count' = [count EXCEPT ![b] = @ - 1]
  /\ \/ /\ Emptied(b)
        /\ table' = table \ {b}
        /\ key' = [key EXCEPT ![b] = None]
        /\ parting' = [parting EXCEPT ![t] = key[b][2]]
        /\ tfm' = [tfm EXCEPT ![t] = "parting"]
     \/ /\ ~Emptied(b)
        /\ tfm' = [tfm EXCEPT ![t] = "none"]
        /\ UNCHANGED <<table, key, parting>>
  /\ user' = [user EXCEPT ![t] = None]
  /\ tenant' = [tenant EXCEPT ![t] = None]

\* put_pid_ns(), after the lock is dropped.
PutPidNs(t) ==
  /\ tfm[t] = "parting"
  /\ refs' = [refs EXCEPT ![parting[t]] = @ - 1]
  /\ parting' = [parting EXCEPT ![t] = None]
  /\ tfm' = [tfm EXCEPT ![t] = "none"]
  /\ UNCHANGED <<table, key, count, incarnation, alive, user, tenant>>

-----------------------------------------------------------------------------
(* jent_kcapi_tfm_init() after the charge, and jent_kcapi_tfm_cleanup() *)

Allocated(t) ==
  /\ tfm[t] = "charged"
  /\ tfm' = [tfm EXCEPT ![t] = "live"]
  /\ UNCHANGED <<table, key, count, incarnation, alive, refs, user, tenant,
                 parting>>

\* No collector: the charge is taken back, -ENOMEM.  An instance at its end
\* stops its self test, frees the collector and takes it back as well.
GoAway(t) ==
  /\ tfm[t] \in {"charged", "live"}
  /\ Put(t, user[t])
  /\ UNCHANGED <<incarnation, alive, refs>>

-----------------------------------------------------------------------------
(* The container runtime *)

\* The processes of a namespace end; instances may outlive them.
Die(ns) ==
  /\ ns \in alive
  /\ alive' = alive \ {ns}
  /\ UNCHANGED <<table, key, count, incarnation, refs, tfm, user, tenant,
                 parting>>

\* The namespace was freed and its memory is used for another one.
Reuse(ns) ==
  /\ ns \notin alive
  /\ refs[ns] = 0
  /\ incarnation[ns] < MaxIncarnation
  /\ alive' = alive \cup {ns}
  /\ incarnation' = [incarnation EXCEPT ![ns] = @ + 1]
  /\ UNCHANGED <<table, key, count, refs, tfm, user, tenant, parting>>

-----------------------------------------------------------------------------

BucketsInit ==
  /\ table = {}
  /\ key = [b \in Bucket |-> None]
  /\ count = [b \in Bucket |-> 0]
  /\ incarnation = [ns \in PidNs |-> 0]
  /\ alive = PidNs
  /\ refs = [ns \in PidNs |-> 0]
  /\ tfm = [t \in Tfm |-> "none"]
  /\ user = [t \in Tfm |-> None]
  /\ tenant = [t \in Tfm |-> None]
  /\ parting = [t \in Tfm |-> None]

BucketsNext ==
  \/ \E t \in Tfm : \/ \E c \in Caller : ChargeFound(t, c) \/ ChargeNew(t, c)
                    \/ Allocated(t) \/ GoAway(t) \/ PutPidNs(t)
  \/ \E ns \in Privileged : Die(ns) \/ Reuse(ns)

BucketsSpec == BucketsInit /\ [][BucketsNext]_bucket_vars

-----------------------------------------------------------------------------
(* Properties *)

Charged(b) == {t \in Tfm : user[t] = b}

\* jent_kcapi_instance_put() finds what jent_kcapi_instance_get() returned: an
\* instance points to a bucket in the table, whose count is the number of its
\* instances, and no empty bucket stays.  The instances of one bucket are of one
\* container, although an address is used again: "a freed namespace's address
\* cannot alias a bucket".
BucketsExact ==
  /\ \A t \in Tfm : tfm[t] \in {"charged", "live"} => user[t] \in table
  /\ \A b \in table : count[b] > 0 /\ count[b] = Cardinality(Charged(b))
  /\ \A b \in Bucket \ table : Charged(b) = {}
  /\ \A t, u \in Tfm :
       user[t] # None /\ user[t] = user[u] => tenant[t][1] = tenant[u][1]

\* Whoever stands behind the calls, one user with all the namespaces it made
\* inside one container, never has more instances than the limit, apart from
\* those of capable callers; another user in the container and another container
\* of the user have the limit of their own that "every such sandbox is a fresh
\* bucket" speaks of.
LimitPerTenant ==
  max_kcapi_instances # 0 =>
    \A t \in Tfm :
      Cardinality({u \in Tfm : /\ tenant[u] # None
                               /\ tenant[t] # None
                               /\ tenant[u][1] = tenant[t][1]
                               /\ ~tenant[u][2]}) <= max_kcapi_instances
=============================================================================
