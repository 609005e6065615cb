------------------------- MODULE KernelModuleProofs -------------------------
(***************************************************************************)
(* The buckets of Kcapi are exact and the load and unload of KernelModule  *)
(* are sound with any number of instances, callers, namespaces and buckets *)
(* and any limit.                                                          *)
(***************************************************************************)
EXTENDS KernelModule, FiniteSetTheorems, NaturalsInduction,
        WellFoundedInduction, TLAPS

-----------------------------------------------------------------------------
(* The invariant of the buckets *)

Uncapable(b) == {t \in Charged(b) : ~tenant[t][2]}

\* Who holds a reference to a namespace.
Keyed(ns) == {b \in table : key[b][2] = ns}

Parting(ns) == {t \in Tfm : parting[t] = ns}

BucketTypes ==
  /\ table \subseteq Bucket /\ IsFiniteSet(table)
  /\ DOMAIN key = Bucket /\ DOMAIN count = Bucket /\ DOMAIN tenant = Tfm
  /\ DOMAIN incarnation = PidNs
  /\ refs \in [PidNs -> Int]
  /\ tfm \in [Tfm -> {"none", "charged", "live", "parting"}]
  /\ user \in [Tfm -> Bucket \cup {None}]
  /\ parting \in [Tfm -> PidNs \cup {None}]

\* Where an instance is says what it holds.
InstanceShape ==
  \A t \in Tfm :
    /\ tfm[t] \in {"charged", "live"} <=> user[t] # None
    /\ tfm[t] = "parting" <=> parting[t] # None
    /\ user[t] # None => user[t] \in table
    /\ user[t] = None => tenant[t] = None

\* A bucket is found by its key alone, and counts its instances.
TableShape ==
  /\ \A b \in table : /\ key[b] = <<key[b][1], key[b][2]>>
                      /\ key[b][2] \in PidNs
                      /\ Charged(b) # {}
                      /\ count[b] = Cardinality(Charged(b))
  /\ \A b, d \in table : key[b] = key[d] => b = d

\* The key of a bucket names the one behind each of its instances, because a
\* namespace that is referred to is not freed.
TenantShape ==
  \A t \in Tfm :
    user[t] # None =>
      LET k == key[user[t]] IN tenant[t][1] = <<k[1], k[2], incarnation[k[2]]>>

RefsExact ==
  \A ns \in PidNs :
    refs[ns] = Cardinality(Keyed(ns)) + Cardinality(Parting(ns))

WithinLimit ==
  max_kcapi_instances # 0 =>
    \A b \in table : Cardinality(Uncapable(b)) <= max_kcapi_instances

BucketsInv ==
  /\ BucketTypes /\ InstanceShape /\ TableShape /\ TenantShape /\ RefsExact
  /\ WithinLimit

-----------------------------------------------------------------------------
(* The invariant of the load *)

Loading == {"init", "proc", "hwrng", "hwrng_register", "kcapi", "chardev",
            "testing", "unwind_hwrng", "unwind_proc", "fail"}

Leaving == {"exit_chardev", "exit_kcapi", "exit_testing", "exit_hwrng",
            "exit_proc"}

LoadTypes ==
  /\ {proc_dir, hw_ec, hw_work, hw, hw_file, alg, misc_registered, misc_dir,
      debugfs} \subseteq BOOLEAN
  /\ users \subseteq Interface
  /\ \/ module \in {"unloaded", "live", "panic"} /\ at = "none"
     \/ module = "coming" /\ at \in Loading
     \/ module = "going" /\ at \in Leaving

\* What is there, by how far the load, its unwinding or the unload has come.
Registered ==
  /\ proc_dir => \/ module = "live" \/ module = "going"
                 \/ at \in Loading \ {"init", "proc", "fail"}
  /\ hw_ec \/ hw_work =>
       \/ module = "live" \/ (module = "going" /\ at # "exit_proc")
       \/ at \in {"hwrng_register", "kcapi", "chardev", "testing",
                  "unwind_hwrng"}
  /\ hw \/ hw_file =>
       \/ module = "live" \/ (module = "going" /\ at # "exit_proc")
       \/ at \in {"kcapi", "chardev", "testing", "unwind_hwrng"}
  /\ alg <=> module = "live" \/ at \in {"chardev", "testing", "exit_chardev",
                                        "exit_kcapi"}
  /\ misc_registered <=> misc = "linked"
  /\ misc \in {"linked", "unlinked"}
  /\ misc = "linked" \/ misc_dir =>
       module = "live" \/ at \in {"testing", "exit_chardev"}
  /\ debugfs => module = "live" \/ at \in {"exit_chardev", "exit_kcapi",
                                           "exit_testing"}
  /\ hw_file \/ misc_dir => proc_dir

\* Whoever uses the module keeps it from being freed.
UsersShape ==
  /\ users # {} => module = "live" \/ at = "testing"
  /\ (\E t \in Tfm : tfm[t] # "none") =>
       module = "live" \/ at \in {"chardev", "testing"}

\* What the checks of the parameters have established.
ConfigShape ==
  /\ field <= MaxField
  /\ at = "init" => ~ConfigRefused(param)
  /\ at = "init" /\ param.max_memsize # 0 => 2 ^ (field - 1) = param.max_memsize
  /\ module = "panic" => ~param.host

LoadInv == LoadTypes /\ Registered /\ UsersShape /\ ConfigShape

\* Where the load has passed the hwrng.
PastHwrng == module = "live" \/ at \in {"kcapi", "chardev", "testing", "unwind_hwrng"}

\* The hwrng has a collector as long as it is registered, and it is registered by
\* one of its two initializations only.
HwrngInv ==
  /\ late \in {"module", "late", "pending"}
  /\ hw_ec <=> hw \/ at = "hwrng_register"
  /\ hw_work => hw_ec
  /\ hw_file => hw
  /\ at = "hwrng_register" => late = "module" /\ ~hw
  /\ late = "module" /\ PastHwrng => hw
  /\ late = "pending" => ~hw /\ PastHwrng
  /\ late # "module" /\ hw => module = "live"
  /\ late # "module" => module # "going"

-----------------------------------------------------------------------------
(* The loops that find who is charged *)

\* A set of naturals has a least element.
LEMMA LeastExists ==
  ASSUME NEW T, T \subseteq Nat, T # {}
  PROVE  \E x \in T : \A y \in T : x <= y
<1>1. PICK x \in T : \A y \in T : ~ (<<y, x>> \in OpToRel(<, Nat))
  BY NatLessThanWellFounded, WFMin, Zenon
<1>2. \A y \in T : ~ (y < x)
  BY <1>1, Zenon DEF OpToRel
<1>. QED
  BY <1>2

\* A set of indexes has one greatest.
LEMMA GreatestIs ==
  ASSUME NEW n \in Nat, NEW S, S \subseteq 1 .. n,
         NEW i \in S, \A j \in S : j <= i
  PROVE  (CHOOSE k \in S : \A j \in S : j <= k) = i
<1>. DEFINE y == CHOOSE k \in S : \A j \in S : j <= k
<1>1. y \in S /\ \A j \in S : j <= y
  BY Zenon
<1>. HIDE DEF y
<1>2. y \in Int /\ i \in Int
  BY <1>1
<1>3. y = i
  BY <1>1, <1>2
<1>. QED
  BY <1>3, Zenon DEF y

\* What a loop over seq ends with that replaces base at every index in K, after
\* n rounds.
LastKept(n, K, base, seq) ==
  LET S == {i \in 1 .. n : i \in K}
  IN  IF S = {} THEN base ELSE seq[CHOOSE i \in S : \A j \in S : j <= i]

\* Its last round.
LEMMA LastKeptStep ==
  ASSUME NEW n \in Nat, NEW K, NEW base, NEW seq
  PROVE  LastKept(n, K, base, seq) =
           IF n = 0 THEN base
           ELSE IF n \in K THEN seq[n] ELSE LastKept(n - 1, K, base, seq)
<1>. DEFINE S(k) == {i \in 1 .. k : i \in K}
<1>1. CASE n = 0
  <2>1. 1 .. n = {}
    BY <1>1
  <2>. QED
    BY <1>1, <2>1, Zenon DEF LastKept
<1>2. CASE n # 0 /\ n \in K
  <2>1. n \in S(n) /\ S(n) \subseteq 1 .. n /\ \A j \in S(n) : j <= n
    BY <1>2
  <2>2. (CHOOSE k \in S(n) : \A j \in S(n) : j <= k) = n
    BY ONLY <2>1, n \in Nat, GreatestIs, Zenon
  <2>. QED
    BY <1>2, <2>1, <2>2, Zenon DEF LastKept
<1>3. CASE n # 0 /\ n \notin K
  <2>1. S(n - 1) = S(n)
    BY <1>3
  <2>2. \A k \in {n - 1, n} :
          LastKept(k, K, base, seq) =
            IF S(k) = {} THEN base
            ELSE seq[CHOOSE i \in S(k) : \A j \in S(k) : j <= i]
    BY Zenon DEF LastKept
  <2>. HIDE DEF S
  <2>. QED
    BY <1>3, <2>1, <2>2, Zenon
<1>. QED
  BY <1>1, <1>2, <1>3, Zenon

\* The function such a loop is written as.
Loop(f, n, K, base, seq) ==
  f = [k \in 0 .. n |->
         IF k = 0 THEN base ELSE IF k \in K THEN seq[k] ELSE f[k - 1]]

\* It ends with the last element that is kept: no round could be the first where
\* it does not.
LEMMA LoopUnique ==
  ASSUME NEW n \in Nat, NEW K, NEW base, NEW seq, NEW f,
         Loop(f, n, K, base, seq)
  PROVE  f[n] = LastKept(n, K, base, seq)
<1>. DEFINE G(k) == LastKept(k, K, base, seq)
            F == [k \in 0 .. n |->
                    IF k = 0 THEN base ELSE IF k \in K THEN seq[k] ELSE f[k - 1]]
            T == {k \in 0 .. n : f[k] # G(k)}
<1>1. \A k \in Nat : G(k) = IF k = 0 THEN base
                            ELSE IF k \in K THEN seq[k] ELSE G(k - 1)
  BY ONLY LastKeptStep
<1>2. \A k \in 0 .. n : F[k] = IF k = 0 THEN base
                               ELSE IF k \in K THEN seq[k] ELSE f[k - 1]
  BY Zenon
<1>3. f = F
  BY Zenon DEF Loop
<1>. HIDE DEF F, G
<1>4. ASSUME T # {} PROVE FALSE
  <2>1. PICK k \in T : \A j \in T : k <= j
    <3>1. T \subseteq Nat
      OBVIOUS
    <3>. QED
      BY <1>4, <3>1, LeastExists, Zenon
  <2>2. k # 0 /\ k \in 0 .. n /\ f[k - 1] # G(k - 1)
    BY <1>1, <1>2, <1>3, <2>1
  <2>3. k - 1 \in T
    BY <2>2
  <2>. HIDE DEF T
  <2>. QED
    BY <2>1, <2>2, <2>3
<1>5. f[n] = G(n)
  BY <1>4
<1>. QED
  BY <1>5, Zenon DEF G

\* And there is such a function.
LEMMA LoopExists ==
  ASSUME NEW n \in Nat, NEW K, NEW base, NEW seq
  PROVE  \E f : Loop(f, n, K, base, seq)
<1>. DEFINE G(k) == LastKept(k, K, base, seq)
            g == [k \in 0 .. n |-> G(k)]
<1>1. \A k \in 0 .. n : G(k) = IF k = 0 THEN base
                               ELSE IF k \in K THEN seq[k] ELSE G(k - 1)
  BY ONLY n \in Nat, LastKeptStep
<1>. HIDE DEF G
<1>2. \A k \in 0 .. n : k # 0 => g[k - 1] = G(k - 1)
  OBVIOUS
<1>. HIDE DEF g
<1>3. [k \in 0 .. n |-> G(k)] =
        [k \in 0 .. n |->
           IF k = 0 THEN base ELSE IF k \in K THEN seq[k] ELSE g[k - 1]]
  BY <1>1, <1>2, Zenon
<1>4. Loop(g, n, K, base, seq)
  BY <1>3, Zenon DEF Loop, g
<1>. QED
  BY <1>4, Zenon

\* jent_kcapi_charged_uid() charges the outermost owner that is not root.
LEMMA ChargedUidIsOutermost ==
  ASSUME NEW c, NEW n \in Nat, Len(c.owners) = n
  PROVE  ChargedUid(c) =
           LastKept(n, {i \in 1 .. n : c.owners[i] # Root}, c.uid, c.owners)
<1>. DEFINE kept == {i \in 1 .. n : c.owners[i] # Root}
            Body(h) == [k \in 0 .. Len(c.owners) |->
                          IF k = 0 THEN c.uid
                          ELSE IF c.owners[k] # Root
                                 THEN c.owners[k] ELSE h[k - 1]]
            f == CHOOSE h : h = Body(h)
<1>1. \A k \in 0 .. n : k # 0 => (k \in kept <=> c.owners[k] # Root)
  OBVIOUS
<1>2. ASSUME NEW h
      PROVE  Loop(h, n, kept, c.uid, c.owners) <=> h = Body(h)
  <2>1. [k \in 0 .. n |-> IF k = 0 THEN c.uid
                          ELSE IF k \in kept THEN c.owners[k] ELSE h[k - 1]]
          = Body(h)
    <3>. HIDE DEF kept
    <3>. QED
      BY <1>1, Zenon
  <2>. QED
    BY <2>1, Zenon DEF Loop
<1>3. ChargedUid(c) = f[n]
  BY Zenon DEF ChargedUid
<1>. HIDE DEF kept, Body
<1>4. \E h : h = Body(h)
  BY <1>2, LoopExists, Zenon
<1>5. f = Body(f)
  BY <1>4, Zenon
<1>. HIDE DEF f
<1>6. Loop(f, n, kept, c.uid, c.owners)
  BY <1>2, <1>5, Zenon
<1>7. f[n] = LastKept(n, kept, c.uid, c.owners)
  BY <1>6, LoopUnique
<1>. QED
  BY <1>3, <1>7, Zenon DEF kept

\* jent_kcapi_charged_pid_ns() charges the outermost that init_user_ns owns.
LEMMA ChargedPidNsIsOutermost ==
  ASSUME NEW c, NEW n \in Nat, Len(c.pid_nss) = n
  PROVE  ChargedPidNs(c) =
           LastKept(n, {i \in 1 .. n : c.pid_nss[i] \in Privileged}, InitPidNs, c.pid_nss)
<1>. DEFINE kept == {i \in 1 .. n : c.pid_nss[i] \in Privileged}
            Body(h) == [k \in 0 .. Len(c.pid_nss) |->
                          IF k = 0 THEN InitPidNs
                          ELSE IF c.pid_nss[k] \in Privileged
                                 THEN c.pid_nss[k] ELSE h[k - 1]]
            f == CHOOSE h : h = Body(h)
<1>1. \A k \in 0 .. n : k # 0 => (k \in kept <=> c.pid_nss[k] \in Privileged)
  OBVIOUS
<1>2. ASSUME NEW h
      PROVE  Loop(h, n, kept, InitPidNs, c.pid_nss) <=> h = Body(h)
  <2>1. [k \in 0 .. n |-> IF k = 0 THEN InitPidNs
                          ELSE IF k \in kept THEN c.pid_nss[k] ELSE h[k - 1]]
          = Body(h)
    <3>. HIDE DEF kept
    <3>. QED
      BY <1>1, Zenon
  <2>. QED
    BY <2>1, Zenon DEF Loop
<1>3. ChargedPidNs(c) = f[n]
  BY Zenon DEF ChargedPidNs
<1>. HIDE DEF kept, Body
<1>4. \E h : h = Body(h)
  BY <1>2, LoopExists, Zenon
<1>5. f = Body(f)
  BY <1>4, Zenon
<1>. HIDE DEF f
<1>6. Loop(f, n, kept, InitPidNs, c.pid_nss)
  BY <1>2, <1>5, Zenon
<1>7. f[n] = LastKept(n, kept, InitPidNs, c.pid_nss)
  BY <1>6, LoopUnique
<1>. QED
  BY <1>3, <1>7, Zenon DEF kept

\* The key of a call names the one who stands behind it.
LEMMA KeyIsBehind ==
  ASSUME NEW c \in Caller
  PROVE  /\ Behind(c) = <<Key(c)[1], Key(c)[2], incarnation[Key(c)[2]]>>
         /\ Key(c) = <<Key(c)[1], Key(c)[2]>>
         /\ Key(c)[2] = ChargedPidNs(c)
         /\ Key(c)[2] \in PidNs
<1>. DEFINE n == Len(c.owners)
            m == Len(c.pid_nss)
            own == {i \in 1 .. n : c.owners[i] # Root}
            boxes == {i \in 1 .. m : c.pid_nss[i] \in Privileged}
            last(S) == CHOOSE i \in S : \A j \in S : j <= i
<1>1. /\ n \in Nat /\ DOMAIN c.owners = 1 .. n
      /\ m \in Nat /\ DOMAIN c.pid_nss = 1 .. m
  BY CallerAssumption
<1>2. own = {i \in 1 .. n : i \in own} /\ boxes = {i \in 1 .. m : i \in boxes}
  BY Zenon
<1>3. ChargedUid(c) = IF own = {} THEN c.uid ELSE c.owners[last(own)]
  <2>1. ChargedUid(c) = LastKept(n, own, c.uid, c.owners)
    BY <1>1, ChargedUidIsOutermost, Zenon
  <2>. HIDE DEF own
  <2>. QED
    BY <1>2, <2>1, Zenon DEF LastKept
<1>4. ChargedPidNs(c) = IF boxes = {} THEN InitPidNs ELSE c.pid_nss[last(boxes)]
  <2>1. ChargedPidNs(c) = LastKept(m, boxes, InitPidNs, c.pid_nss)
    BY <1>1, ChargedPidNsIsOutermost, Zenon
  <2>. HIDE DEF boxes
  <2>. QED
    BY <1>2, <2>1, Zenon DEF LastKept
<1>. HIDE DEF n, m
<1>5. ChargedPidNs(c) \in PidNs
  <2>1. boxes # {} => last(boxes) \in boxes
    <3>. DEFINE T == {m - i : i \in boxes}
    <3>1. \A i \in boxes : i \in Int /\ m - i \in T /\ m - i \in Nat
      BY <1>1
    <3>2. T \subseteq Nat
      BY <3>1, Zenon
    <3>. HIDE DEF T, boxes
    <3>3. ASSUME boxes # {} PROVE \E i \in boxes : \A j \in boxes : j <= i
      <4>1. PICK x \in T : \A y \in T : x <= y
        BY <3>1, <3>2, <3>3, LeastExists, Zenon
      <4>2. PICK i \in boxes : x = m - i
        BY <4>1, Zenon DEF T
      <4>. QED
        BY <1>1, <3>1, <4>1, <4>2
    <3>. QED
      BY <3>3, Zenon
  <2>. HIDE DEF last
  <2>. QED
    BY <1>4, <2>1, Zenon DEF PidNs
<1>6. Behind(c) = <<ChargedUid(c), ChargedPidNs(c), incarnation[ChargedPidNs(c)]>>
  BY <1>1, <1>3, <1>4, Zenon DEF Behind
<1>. QED
  BY <1>5, <1>6, Zenon DEF Key

-----------------------------------------------------------------------------
(* The steps of the crypto API *)

\* All that is counted is finite.
LEMMA Finite ==
  ASSUME BucketTypes
  PROVE  /\ \A b : IsFiniteSet(Charged(b)) /\ Cardinality(Charged(b)) \in Nat
         /\ \A b : IsFiniteSet(Uncapable(b)) /\ Cardinality(Uncapable(b)) \in Nat
         /\ \A ns : IsFiniteSet(Keyed(ns)) /\ Cardinality(Keyed(ns)) \in Nat
         /\ \A ns : IsFiniteSet(Parting(ns)) /\ Cardinality(Parting(ns)) \in Nat
<1>1. IsFiniteSet(Tfm) /\ IsFiniteSet(table)
  BY CallerAssumption, Zenon DEF BucketTypes
<1>2. /\ \A b : Charged(b) \subseteq Tfm /\ Uncapable(b) \subseteq Tfm
      /\ \A ns : Parting(ns) \subseteq Tfm /\ Keyed(ns) \subseteq table
  BY Zenon DEF Charged, Uncapable, Parting, Keyed
<1>. QED
  BY <1>1, <1>2, FS_Subset, FS_CardinalityType, Zenon

\* There is nothing at the load of the module.
LEMMA BucketsInitially == BucketsInit => BucketsInv
<1>. SUFFICES ASSUME BucketsInit PROVE BucketsInv
  BY Zenon
<1>1. /\ \A ns : Keyed(ns) = {}
      /\ \A ns \in PidNs : Parting(ns) = {}
  BY CallerAssumption, Zenon DEF BucketsInit, Keyed, Parting, PidNs
<1>2. IsFiniteSet({}) /\ Cardinality({}) = 0
  BY FS_EmptySet, Zenon
<1>3. RefsExact
  BY <1>1, <1>2 DEF BucketsInit, RefsExact
<1>. QED
  BY <1>2, <1>3 DEF BucketsInit, BucketsInv, BucketTypes, InstanceShape,
                    TableShape, TenantShape, WithinLimit

\* An instance is charged to a bucket with room, or by a capable caller.
LEMMA ChargeFoundKeeps ==
  ASSUME BucketsInv, NEW t \in Tfm, NEW c \in Caller, ChargeFound(t, c)
  PROVE  BucketsInv'
<1>. USE DEF BucketsInv
<1>1. PICK b \in Found(c) : /\ AtLimit(count[b]) => c \in Capable
                            /\ count' = [count EXCEPT ![b] = @ + 1]
                            /\ user' = [user EXCEPT ![t] = b]
  BY Zenon DEF ChargeFound
<1>2. /\ b \in table /\ b \in Bucket /\ key[b] = Key(c) /\ b # None
      /\ user[t] = None /\ parting[t] = None
  BY CallerAssumption DEF Found, ChargeFound, InstanceShape, BucketTypes
<1>3. /\ tfm' = [tfm EXCEPT ![t] = "charged"]
      /\ tenant' = [tenant EXCEPT ![t] = <<Behind(c), c \in Capable>>]
      /\ UNCHANGED <<table, key, incarnation, alive, refs, parting>>
  BY Zenon DEF ChargeFound
<1>4. /\ Charged(b)' = Charged(b) \cup {t} /\ t \notin Charged(b)
      /\ \A d \in table \ {b} : Charged(d)' = Charged(d)
  <2>1. user'[t] = b /\ \A u \in Tfm \ {t} : user'[u] = user[u]
    BY <1>1, Zenon DEF BucketTypes
  <2>2. \A d \in table : d # None
    BY CallerAssumption, Zenon DEF BucketTypes
  <2>3. Charged(b)' = Charged(b) \cup {t} /\ t \notin Charged(b)
    BY <1>2, <2>1, Zenon DEF Charged
  <2>4. \A d \in table \ {b} : Charged(d)' = Charged(d)
    BY <1>2, <2>1, <2>2, Zenon DEF Charged
  <2>. QED
    BY <2>3, <2>4, Zenon
<1>5. /\ IsFiniteSet(Charged(b)) /\ Cardinality(Charged(b)) \in Nat
      /\ IsFiniteSet(Charged(b)')
      /\ Cardinality(Charged(b)') = Cardinality(Charged(b)) + 1
  BY <1>4, Finite, FS_AddElement
<1>6. BucketTypes' /\ InstanceShape'
  BY <1>1, <1>2, <1>3, Zenon DEF BucketTypes, InstanceShape
<1>7. TableShape'
  <2>1. count'[b] = count[b] + 1 /\ \A d \in table \ {b} : count'[d] = count[d]
    BY <1>1, <1>2, Zenon DEF BucketTypes
  <2>. QED
    BY <1>3, <1>4, <1>5, <2>1, ZenonT(40) DEF TableShape
<1>8. TenantShape'
  <2>1. tenant'[t][1] = <<key[b][1], key[b][2], incarnation[key[b][2]]>>
    BY <1>2, <1>3, KeyIsBehind, Zenon DEF BucketTypes
  <2>2. /\ user'[t] = b
        /\ \A u \in Tfm \ {t} : user'[u] = user[u] /\ tenant'[u] = tenant[u]
    BY <1>1, <1>3, Zenon DEF BucketTypes
  <2>. QED
    BY <1>3, <2>1, <2>2 DEF TenantShape
<1>9. RefsExact'
  BY <1>3, Zenon DEF RefsExact, Keyed, Parting
<1>10. WithinLimit'
  <2>1. /\ tenant'[t][2] = (c \in Capable)
        /\ \A u \in Tfm \ {t} : tenant'[u] = tenant[u]
    BY <1>3, Zenon DEF BucketTypes
  <2>2. \A d \in table \ {b} : Uncapable(d)' = Uncapable(d)
    BY <1>2, <1>4, <2>1 DEF Uncapable, Charged
  <2>3. CASE c \in Capable
    <3>1. Uncapable(b)' = Uncapable(b)
      BY <1>4, <2>1, <2>3, Zenon DEF Uncapable, Charged
    <3>. QED
      BY <1>3, <2>2, <3>1, Zenon DEF WithinLimit
  <2>4. CASE c \notin Capable
    <3>1. Uncapable(b)' \subseteq Charged(b)'
      BY Zenon DEF Uncapable
    <3>2. /\ Cardinality(Uncapable(b)') <= Cardinality(Charged(b)')
          /\ Cardinality(Uncapable(b)') \in Nat
      BY <1>5, <3>1, FS_Subset, FS_CardinalityType, Zenon
    <3>3. max_kcapi_instances # 0
            => Cardinality(Charged(b)) < max_kcapi_instances
      BY <1>1, <1>2, <1>5, <2>4, CallerAssumption DEF AtLimit, TableShape
    <3>4. max_kcapi_instances # 0
            => Cardinality(Uncapable(b)') <= max_kcapi_instances
      BY <1>5, <3>2, <3>3, CallerAssumption
    <3>. QED
      BY <1>3, <2>2, <3>4, Zenon DEF WithinLimit
  <2>. QED
    BY <2>3, <2>4, Zenon
<1>. QED
  BY <1>6, <1>7, <1>8, <1>9, <1>10, Zenon

\* The first instance of a bucket takes a reference to its namespace.
LEMMA ChargeNewKeeps ==
  ASSUME BucketsInv, NEW t \in Tfm, NEW c \in Caller, ChargeNew(t, c)
  PROVE  BucketsInv'
<1>. USE DEF BucketsInv
<1>. DEFINE ns == ChargedPidNs(c)
<1>1. PICK b \in Bucket \ table : /\ table' = table \cup {b}
                                  /\ key' = [key EXCEPT ![b] = Key(c)]
                                  /\ count' = [count EXCEPT ![b] = 1]
                                  /\ user' = [user EXCEPT ![t] = b]
  BY Zenon DEF ChargeNew
<1>2. b # None /\ user[t] = None /\ parting[t] = None
  BY CallerAssumption, Zenon DEF ChargeNew, InstanceShape, BucketTypes
<1>3. /\ tfm' = [tfm EXCEPT ![t] = "charged"]
      /\ tenant' = [tenant EXCEPT ![t] = <<Behind(c), c \in Capable>>]
      /\ refs' = [refs EXCEPT ![ns] = @ + 1]
      /\ Found(c) = {}
      /\ UNCHANGED <<incarnation, alive, parting>>
  BY Zenon DEF ChargeNew, Referenced
<1>4. /\ Key(c) = <<Key(c)[1], Key(c)[2]>>
      /\ Key(c)[2] = ns /\ ns \in PidNs
  BY KeyIsBehind, Zenon
<1>5. /\ key'[b] = Key(c) /\ count'[b] = 1
      /\ \A d \in table : key'[d] = key[d] /\ count'[d] = count[d]
  BY <1>1, Zenon DEF BucketTypes
<1>6. /\ user'[t] = b
      /\ \A u \in Tfm \ {t} : user'[u] = user[u] /\ tenant'[u] = tenant[u]
  BY <1>1, <1>3, Zenon DEF BucketTypes
<1>7. /\ Charged(b)' = {t}
      /\ \A d \in table : Charged(d)' = Charged(d)
  <2>1. \A d \in table : d # None /\ d # b
    BY <1>1, CallerAssumption, Zenon DEF BucketTypes
  <2>2. \A u \in Tfm : user[u] # b
    BY <1>1, <1>2, Zenon DEF InstanceShape
  <2>3. Charged(b)' = {t}
    BY <1>6, <2>2, Zenon DEF Charged
  <2>4. \A d \in table : Charged(d)' = Charged(d)
    BY <1>2, <1>6, <2>1, Zenon DEF Charged
  <2>. QED
    BY <2>3, <2>4, Zenon
<1>8. IsFiniteSet({t}) /\ Cardinality({t}) = 1
  BY FS_Singleton, Zenon
<1>. HIDE DEF ns
<1>9. BucketTypes'
  <2>1. IsFiniteSet(table')
    BY <1>1, FS_AddElement, Zenon DEF BucketTypes
  <2>. QED
    BY <1>1, <1>3, <1>4, <2>1 DEF BucketTypes
<1>10. InstanceShape'
  BY <1>1, <1>2, <1>3, <1>6, Zenon DEF BucketTypes, InstanceShape
<1>11. TableShape'
  <2>1. \A d \in table : key'[d] # key'[b]
    BY <1>3, <1>5, Zenon DEF Found
  <2>. QED
    BY <1>1, <1>4, <1>5, <1>7, <1>8, <2>1, SMTT(30) DEF TableShape
<1>12. TenantShape'
  <2>1. tenant'[t][1] = <<Key(c)[1], Key(c)[2], incarnation[Key(c)[2]]>>
    BY <1>3, KeyIsBehind, Zenon DEF BucketTypes
  <2>2. \A u \in Tfm \ {t} : user'[u] # None => user[u] \in table
    BY <1>6, Zenon DEF InstanceShape
  <2>. QED
    BY <1>3, <1>5, <1>6, <2>1, <2>2 DEF TenantShape
<1>13. RefsExact'
  <2>1. /\ Keyed(ns)' = Keyed(ns) \cup {b} /\ b \notin Keyed(ns)
        /\ \A m \in PidNs \ {ns} : Keyed(m)' = Keyed(m)
        /\ \A m \in PidNs : Parting(m)' = Parting(m)
    BY <1>1, <1>3, <1>4, <1>5 DEF Keyed, Parting
  <2>2. Cardinality(Keyed(ns)') = Cardinality(Keyed(ns)) + 1
    BY <2>1, Finite, FS_AddElement
  <2>3. refs'[ns] = refs[ns] + 1 /\ \A m \in PidNs \ {ns} : refs'[m] = refs[m]
    BY <1>3, <1>4, Zenon DEF BucketTypes
  <2>4. Cardinality(Keyed(ns)) \in Nat /\ Cardinality(Parting(ns)) \in Nat
    BY Finite, Zenon
  <2>. SUFFICES ASSUME NEW m \in PidNs
                PROVE  refs'[m] = Cardinality(Keyed(m)') + Cardinality(Parting(m)')
    BY Zenon DEF RefsExact
  <2>5. CASE m = ns
    <3>1. refs[ns] = Cardinality(Keyed(ns)) + Cardinality(Parting(ns))
      BY <1>4, Zenon DEF RefsExact
    <3>2. Parting(ns)' = Parting(ns)
      BY <1>4, <2>1, Zenon
    <3>. QED
      BY <2>2, <2>3, <2>4, <2>5, <3>1, <3>2
  <2>6. CASE m # ns
    BY <2>1, <2>3, <2>6, Zenon DEF RefsExact
  <2>. QED
    BY <2>5, <2>6, Zenon
<1>14. WithinLimit'
  <2>1. \A d \in table : Uncapable(d)' = Uncapable(d)
    BY <1>1, <1>2, <1>6, <1>7 DEF Uncapable, Charged, InstanceShape
  <2>2. Uncapable(b)' \subseteq {t}
    BY <1>7, Zenon DEF Uncapable
  <2>3. Cardinality(Uncapable(b)') <= 1 /\ Cardinality(Uncapable(b)') \in Nat
    BY <1>8, <2>2, FS_Subset, FS_CardinalityType, Zenon
  <2>. QED
    BY <1>1, <2>1, <2>3, CallerAssumption DEF WithinLimit
<1>. QED
  BY <1>9, <1>10, <1>11, <1>12, <1>13, <1>14, Zenon

\* Facts about an instance that leaves its bucket.
LEMMA Leaves ==
  ASSUME BucketsInv, NEW t \in Tfm, GoAway(t), NEW b, b = user[t]
  PROVE  /\ b \in table /\ b \in Bucket /\ b # None
         /\ parting[t] = None
         /\ t \in Charged(b)
         /\ user' = [user EXCEPT ![t] = None]
         /\ tenant' = [tenant EXCEPT ![t] = None]
         /\ user'[t] = None /\ tenant'[t] = None
         /\ \A u \in Tfm \ {t} : user'[u] = user[u] /\ tenant'[u] = tenant[u]
         /\ Charged(b)' = Charged(b) \ {t}
         /\ \A d \in table \ {b} : Charged(d)' = Charged(d)
         /\ count' = [count EXCEPT ![b] = @ - 1]
         /\ \A d \in table \ {b} : Uncapable(d)' = Uncapable(d)
         /\ Uncapable(b)' \subseteq Uncapable(b)
<1>. USE DEF BucketsInv
<1>1. /\ b \in table /\ b \in Bucket /\ b # None /\ parting[t] = None
      /\ user' = [user EXCEPT ![t] = None]
      /\ tenant' = [tenant EXCEPT ![t] = None]
      /\ count' = [count EXCEPT ![b] = @ - 1]
  BY Zenon DEF GoAway, Put, InstanceShape, BucketTypes
<1>2. /\ user'[t] = None /\ tenant'[t] = None
      /\ \A u \in Tfm \ {t} : user'[u] = user[u] /\ tenant'[u] = tenant[u]
  BY <1>1, Zenon DEF BucketTypes
<1>3. \A d \in table : d # None
  BY CallerAssumption, Zenon DEF BucketTypes
<1>4. t \in Charged(b)
  BY Zenon DEF Charged
<1>5. \A d \in table : Charged(d)' = Charged(d) \ {t}
  BY <1>2, <1>3, Zenon DEF Charged
<1>6. \A d \in table \ {b} : t \notin Charged(d)
  BY Zenon DEF Charged
<1>7. \A d \in table : Uncapable(d)' = Uncapable(d) \ {t}
  <2>. TAKE d \in table
  <2>1. \A u \in Charged(d)' : u \in Tfm \ {t}
    BY <1>5, Zenon DEF Charged
  <2>. QED
    BY <1>2, <1>5, <2>1, Zenon DEF Uncapable
<1>8. \A d \in table \ {b} : t \notin Uncapable(d)
  BY <1>6, Zenon DEF Uncapable
<1>9. /\ Charged(b)' = Charged(b) \ {t} /\ Uncapable(b)' \subseteq Uncapable(b)
      /\ \A d \in table \ {b} : /\ Charged(d)' = Charged(d)
                                /\ Uncapable(d)' = Uncapable(d)
  BY <1>1, <1>5, <1>6, <1>7, <1>8
<1>. QED
  BY <1>1, <1>2, <1>4, <1>9, Zenon

\* No bucket gets more instances of callers without the capability.
LEMMA LimitKept ==
  ASSUME BucketsInv, table' \subseteq table,
         \A d \in table' : Uncapable(d)' \subseteq Uncapable(d)
  PROVE  WithinLimit'
<1>1. \A d \in table' : /\ Cardinality(Uncapable(d)') <= Cardinality(Uncapable(d))
                        /\ Cardinality(Uncapable(d)') \in Nat
                        /\ Cardinality(Uncapable(d)) \in Nat
  BY Finite, FS_Subset, FS_CardinalityType, Zenon DEF BucketsInv
<1>2. max_kcapi_instances # 0 =>
        \A d \in table' : Cardinality(Uncapable(d)) <= max_kcapi_instances
  BY Zenon DEF BucketsInv, WithinLimit
<1>3. max_kcapi_instances \in Nat
  BY CallerAssumption, Zenon
<1>. QED
  BY <1>1, <1>2, <1>3 DEF WithinLimit

\* An instance leaves others behind in its bucket.
LEMMA GoAwayKeeps ==
  ASSUME BucketsInv, NEW t \in Tfm, GoAway(t), NEW b, b = user[t],
         ~Emptied(b)
  PROVE  BucketsInv'
<1>. USE DEF BucketsInv
<1>1. /\ tfm' = [tfm EXCEPT ![t] = "none"]
      /\ UNCHANGED <<table, key, parting, incarnation, alive, refs>>
  BY Zenon DEF GoAway, Put
<1>2. /\ b \in table /\ b \in Bucket /\ b # None /\ parting[t] = None
      /\ t \in Charged(b) /\ Charged(b)' = Charged(b) \ {t}
      /\ \A d \in table \ {b} : Charged(d)' = Charged(d)
      /\ count' = [count EXCEPT ![b] = @ - 1]
  BY Leaves, Zenon
<1>3. /\ user' = [user EXCEPT ![t] = None]
      /\ tenant' = [tenant EXCEPT ![t] = None]
      /\ user'[t] = None /\ tenant'[t] = None
      /\ \A u \in Tfm \ {t} : user'[u] = user[u] /\ tenant'[u] = tenant[u]
  BY Leaves, Zenon
<1>4. BucketTypes'
  BY <1>1, <1>2, <1>3, Zenon DEF BucketTypes
<1>5. InstanceShape'
  <2>1. tfm'[t] = "none" /\ \A u \in Tfm \ {t} : tfm'[u] = tfm[u]
    BY <1>1, Zenon DEF BucketTypes
  <2>. QED
    BY <1>1, <1>2, <1>3, <2>1 DEF InstanceShape
<1>6. TableShape'
  <2>1. /\ Cardinality(Charged(b)') = Cardinality(Charged(b)) - 1
        /\ IsFiniteSet(Charged(b)') /\ Cardinality(Charged(b)) \in Nat
    BY <1>2, Finite, FS_RemoveElement
  <2>2. /\ count'[b] = count[b] - 1 /\ count[b] # 1
        /\ count[b] = Cardinality(Charged(b))
        /\ \A d \in table \ {b} : count'[d] = count[d]
    BY <1>2, Zenon DEF BucketTypes, Emptied, TableShape
  <2>3. Charged(b)' # {}
    BY <2>1, <2>2, FS_EmptySet
  <2>4. count'[b] = Cardinality(Charged(b)')
    BY <2>1, <2>2, Zenon
  <2>5. \A d \in table : Charged(d)' # {} /\ count'[d] = Cardinality(Charged(d)')
    <3>. TAKE d \in table
    <3>1. CASE d = b
      BY <2>3, <2>4, <3>1, Zenon
    <3>2. CASE d # b
      BY <1>2, <2>2, <3>2 DEF TableShape
    <3>. QED
      BY <3>1, <3>2, Zenon
  <2>. QED
    BY <1>1, <2>5, Zenon DEF TableShape
<1>7. TenantShape'
  BY <1>1, <1>3, Zenon DEF TenantShape
<1>8. RefsExact'
  BY <1>1, Zenon DEF RefsExact, Keyed, Parting
<1>9. WithinLimit'
  <2>1. \A d \in table : Uncapable(d)' \subseteq Uncapable(d)
    <3>1. \A d \in table \ {b} : Uncapable(d)' = Uncapable(d)
      BY Leaves, Zenon
    <3>2. Uncapable(b)' \subseteq Uncapable(b)
      BY Leaves, Zenon
    <3>. QED
      BY <3>1, <3>2, Zenon
  <2>. QED
    BY <1>1, <2>1, LimitKept, Zenon
<1>. QED
  BY <1>4, <1>5, <1>6, <1>7, <1>8, <1>9, Zenon

\* The last instance takes its bucket along, and owes the put of the reference.
LEMMA LastGoesAway ==
  ASSUME BucketsInv, NEW t \in Tfm, GoAway(t), NEW b, b = user[t],
         Emptied(b)
  PROVE  BucketsInv'
<1>. USE DEF BucketsInv
<1>. DEFINE ns == key[b][2]
<1>1. /\ tfm' = [tfm EXCEPT ![t] = "parting"]
      /\ table' = table \ {b}
      /\ key' = [key EXCEPT ![b] = None]
      /\ parting' = [parting EXCEPT ![t] = ns]
      /\ UNCHANGED <<incarnation, alive, refs>>
  BY Zenon DEF GoAway, Put, Emptied
<1>2. /\ b \in table /\ b \in Bucket /\ b # None /\ parting[t] = None
      /\ t \in Charged(b)
      /\ \A d \in table \ {b} : /\ Charged(d)' = Charged(d)
                                /\ Uncapable(d)' = Uncapable(d)
      /\ count' = [count EXCEPT ![b] = @ - 1]
  BY Leaves, Zenon
<1>3. /\ user' = [user EXCEPT ![t] = None]
      /\ tenant' = [tenant EXCEPT ![t] = None]
      /\ user'[t] = None /\ tenant'[t] = None
      /\ \A u \in Tfm \ {t} : user'[u] = user[u] /\ tenant'[u] = tenant[u]
  BY Leaves, Zenon
<1>4. Charged(b) = {t}
  <2>1. IsFiniteSet(Charged(b)) /\ Cardinality(Charged(b)) = 1
    BY <1>2, Finite, Zenon DEF TableShape, Emptied
  <2>2. PICK x : Charged(b) = {x}
    BY <2>1, FS_Singleton, Zenon
  <2>. QED
    BY <1>2, <2>2, Zenon
<1>5. ns \in PidNs /\ ns # None
  BY <1>2, CallerAssumption, Zenon DEF TableShape, PidNs
<1>6. /\ \A d \in table \ {b} : key'[d] = key[d] /\ count'[d] = count[d]
      /\ parting'[t] = ns /\ \A u \in Tfm \ {t} : parting'[u] = parting[u]
      /\ tfm'[t] = "parting" /\ \A u \in Tfm \ {t} : tfm'[u] = tfm[u]
  BY <1>1, <1>2, Zenon DEF BucketTypes
<1>7. \A u \in Tfm \ {t} : user[u] # b
  BY <1>4, Zenon DEF Charged
<1>8. BucketTypes'
  <2>1. IsFiniteSet(table')
    BY <1>1, FS_Subset, Zenon DEF BucketTypes
  <2>. HIDE DEF ns
  <2>. QED
    BY <1>1, <1>2, <1>3, <1>5, <2>1, Zenon DEF BucketTypes
<1>. HIDE DEF ns
<1>9. InstanceShape'
  BY <1>1, <1>2, <1>3, <1>5, <1>6, <1>7 DEF InstanceShape
<1>10. TableShape'
  <2>1. ASSUME NEW d \in table \ {b}
        PROVE  /\ key'[d] = <<key'[d][1], key'[d][2]>>
               /\ key'[d][2] \in PidNs
    BY <1>6, Zenon DEF TableShape
  <2>2. ASSUME NEW d \in table \ {b}
        PROVE  /\ Charged(d)' # {}
               /\ count'[d] = Cardinality(Charged(d)')
    BY <1>2, <1>6 DEF TableShape
  <2>3. \A d, e \in table \ {b} : key'[d] = key'[e] => d = e
    BY <1>6, SMTT(30) DEF TableShape
  <2>. QED
    BY <1>1, <2>1, <2>2, <2>3, Zenon DEF TableShape
<1>11. TenantShape'
  <2>1. \A u \in Tfm \ {t} : user'[u] # None => user[u] \in table \ {b}
    BY <1>3, <1>7, Zenon DEF InstanceShape
  <2>. QED
    BY <1>1, <1>3, <1>6, <2>1, SMTT(30) DEF TenantShape
<1>12. RefsExact'
  <2>. SUFFICES ASSUME NEW m \in PidNs
                PROVE  refs'[m] = Cardinality(Keyed(m)') + Cardinality(Parting(m)')
    BY Zenon DEF RefsExact
  <2>1. refs[m] = Cardinality(Keyed(m)) + Cardinality(Parting(m))
    BY Zenon DEF RefsExact
  <2>2. m # None
    BY CallerAssumption, Zenon DEF PidNs
  <2>3. CASE m = ns
    <3>1. b \in Keyed(m) /\ Keyed(m)' = Keyed(m) \ {b}
      BY <1>1, <1>2, <1>6, <2>3, Zenon DEF Keyed, ns
    <3>2. t \notin Parting(m) /\ Parting(m)' = Parting(m) \cup {t}
      BY <1>2, <1>6, <2>2, <2>3, Zenon DEF Parting
    <3>3. /\ Cardinality(Keyed(m)') = Cardinality(Keyed(m)) - 1
          /\ Cardinality(Keyed(m)) \in Nat
      BY <3>1, Finite, FS_RemoveElement, ZenonT(40)
    <3>4. /\ Cardinality(Parting(m)') = Cardinality(Parting(m)) + 1
          /\ Cardinality(Parting(m)) \in Nat
      BY <3>2, Finite, FS_AddElement, Zenon
    <3>. QED
      BY <1>1, <2>1, <3>3, <3>4
  <2>4. CASE m # ns
    <3>1. Keyed(m)' = Keyed(m)
      BY <1>1, <1>2, <1>6, <2>4 DEF Keyed, ns
    <3>2. Parting(m)' = Parting(m)
      BY <1>2, <1>6, <2>2, <2>4, Zenon DEF Parting
    <3>. QED
      BY <1>1, <2>1, <3>1, <3>2, Zenon
  <2>. QED
    BY <2>3, <2>4, Zenon
<1>13. WithinLimit'
  BY <1>1, <1>2, LimitKept, Zenon
<1>. QED
  BY <1>8, <1>9, <1>10, <1>11, <1>12, <1>13, Zenon

\* put_pid_ns() of an instance that took its bucket along.
LEMMA PutPidNsKeeps ==
  ASSUME BucketsInv, NEW t \in Tfm, PutPidNs(t)
  PROVE  BucketsInv'
<1>. USE DEF BucketsInv
<1>1. PICK ns \in PidNs : parting[t] = ns
  BY Zenon DEF PutPidNs, InstanceShape, BucketTypes
<1>2. ns # None /\ user[t] = None
  BY <1>1, CallerAssumption, Zenon DEF PutPidNs, InstanceShape, PidNs
<1>3. /\ refs' = [refs EXCEPT ![ns] = @ - 1]
      /\ parting' = [parting EXCEPT ![t] = None]
      /\ tfm' = [tfm EXCEPT ![t] = "none"]
      /\ UNCHANGED <<table, key, count, incarnation, alive, user, tenant>>
  BY <1>1, Zenon DEF PutPidNs
<1>4. /\ parting'[t] = None /\ \A u \in Tfm \ {t} : parting'[u] = parting[u]
      /\ tfm'[t] = "none" /\ \A u \in Tfm \ {t} : tfm'[u] = tfm[u]
      /\ refs'[ns] = refs[ns] - 1 /\ \A m \in PidNs \ {ns} : refs'[m] = refs[m]
      /\ refs[ns] \in Int
  BY <1>3, Zenon DEF BucketTypes
<1>5. BucketTypes'
  BY <1>3, <1>4, SMTT(30) DEF BucketTypes
<1>6. InstanceShape'
  BY <1>2, <1>3, <1>4 DEF InstanceShape
<1>7. TableShape' /\ TenantShape'
  BY <1>3, SMTT(30) DEF TableShape, TenantShape, Charged
<1>8. RefsExact'
  <2>. SUFFICES ASSUME NEW m \in PidNs
                PROVE  refs'[m] = Cardinality(Keyed(m)') + Cardinality(Parting(m)')
    BY Zenon DEF RefsExact
  <2>1. refs[m] = Cardinality(Keyed(m)) + Cardinality(Parting(m))
    BY Zenon DEF RefsExact
  <2>2. Keyed(m)' = Keyed(m) /\ Cardinality(Keyed(m)) \in Nat
    BY <1>3, Finite, Zenon DEF Keyed
  <2>3. m # None
    BY CallerAssumption, Zenon DEF PidNs
  <2>4. CASE m = ns
    <3>1. t \in Parting(m) /\ Parting(m)' = Parting(m) \ {t}
      BY <1>1, <1>4, <2>3, <2>4, Zenon DEF Parting
    <3>2. /\ Cardinality(Parting(m)') = Cardinality(Parting(m)) - 1
          /\ Cardinality(Parting(m)) \in Nat
      BY <3>1, Finite, FS_RemoveElement, Zenon
    <3>. QED
      BY <1>4, <2>1, <2>2, <2>4, <3>2
  <2>5. CASE m # ns
    <3>1. Parting(m)' = Parting(m)
      BY <1>1, <1>4, <2>3, <2>5, Zenon DEF Parting
    <3>. QED
      BY <1>4, <2>1, <2>2, <2>5, <3>1, Zenon
  <2>. QED
    BY <2>4, <2>5, Zenon
<1>9. WithinLimit'
  BY <1>3, Zenon DEF WithinLimit, Uncapable, Charged
<1>. QED
  BY <1>5, <1>6, <1>7, <1>8, <1>9, Zenon

\* An address is used for another namespace only when no bucket and no instance
\* refers to the one that was there.
LEMMA ReuseKeeps ==
  ASSUME BucketsInv, NEW ns \in PidNs, Reuse(ns)
  PROVE  BucketsInv'
<1>. USE DEF BucketsInv
<1>1. /\ refs[ns] = 0
      /\ incarnation' = [incarnation EXCEPT ![ns] = @ + 1]
      /\ UNCHANGED <<table, key, count, refs, tfm, user, tenant, parting>>
  BY Zenon DEF Reuse
<1>2. Keyed(ns) = {}
  <2>1. /\ refs[ns] = Cardinality(Keyed(ns)) + Cardinality(Parting(ns))
        /\ Cardinality(Keyed(ns)) \in Nat /\ Cardinality(Parting(ns)) \in Nat
    BY Finite, Zenon DEF RefsExact
  <2>2. Cardinality(Keyed(ns)) = 0
    BY <1>1, <2>1
  <2>. QED
    BY <2>2, Finite, FS_EmptySet, Zenon
<1>3. \A b \in table : incarnation'[key[b][2]] = incarnation[key[b][2]]
  BY <1>1, <1>2, Zenon DEF Keyed, BucketTypes, TableShape
<1>4. TenantShape'
  BY <1>1, <1>3 DEF TenantShape, InstanceShape
<1>5. BucketTypes'
  BY <1>1, Zenon DEF BucketTypes
<1>6. InstanceShape' /\ TableShape'
  BY <1>1, Zenon DEF InstanceShape, TableShape, Charged
<1>7. RefsExact'
  BY <1>1, Zenon DEF RefsExact, Keyed, Parting
<1>8. WithinLimit'
  BY <1>1, Zenon DEF WithinLimit, Uncapable, Charged
<1>. QED
  BY <1>4, <1>5, <1>6, <1>7, <1>8, Zenon

\* What neither charges nor puts.
LEMMA BucketsKept ==
  ASSUME BucketsInv,
         UNCHANGED <<table, key, count, incarnation, refs, user, tenant, parting>>,
         tfm' \in [Tfm -> {"none", "charged", "live", "parting"}],
         \A t \in Tfm : \/ tfm'[t] = tfm[t]
                        \/ tfm[t] = "charged" /\ tfm'[t] = "live"
  PROVE  BucketsInv'
<1>. USE DEF BucketsInv
<1>1. tfm' \in [Tfm -> {"none", "charged", "live", "parting"}] => BucketTypes'
  BY Zenon DEF BucketTypes
<1>2. InstanceShape'
  BY Zenon DEF InstanceShape
<1>3. TableShape' /\ TenantShape'
  BY ZenonT(40) DEF TableShape, TenantShape, Charged
<1>4. RefsExact'
  BY Zenon DEF RefsExact, Keyed, Parting
<1>5. WithinLimit'
  BY Zenon DEF WithinLimit, Uncapable, Charged
<1>. QED
  BY <1>1, <1>2, <1>3, <1>4, <1>5, Zenon

\* Every step of the crypto API keeps the invariant of the buckets.
LEMMA BucketsPreserved == BucketsInv /\ [BucketsNext]_bucket_vars => BucketsInv'
<1>. SUFFICES ASSUME BucketsInv, [BucketsNext]_bucket_vars PROVE BucketsInv'
  BY Zenon
<1>1. ASSUME NEW t \in Tfm, NEW c \in Caller, ChargeFound(t, c)
      PROVE  BucketsInv'
  BY <1>1, ChargeFoundKeeps, Zenon
<1>2. ASSUME NEW t \in Tfm, NEW c \in Caller, ChargeNew(t, c)
      PROVE  BucketsInv'
  BY <1>2, ChargeNewKeeps, Zenon
<1>3. ASSUME NEW t \in Tfm, Allocated(t)
      PROVE  BucketsInv'
  <2>1. /\ tfm' \in [Tfm -> {"none", "charged", "live", "parting"}]
        /\ \A u \in Tfm : \/ tfm'[u] = tfm[u]
                          \/ tfm[u] = "charged" /\ tfm'[u] = "live"
    BY <1>3, Zenon DEF Allocated, BucketsInv, BucketTypes
  <2>2. UNCHANGED <<table, key, count, incarnation, refs, user, tenant, parting>>
    BY <1>3, Zenon DEF Allocated
  <2>. QED
    BY <2>1, <2>2, BucketsKept, Zenon
<1>4. ASSUME NEW t \in Tfm, GoAway(t)
      PROVE  BucketsInv'
  <2>1. PICK b : b = user[t]
    BY Zenon
  <2>. QED
    BY <1>4, <2>1, GoAwayKeeps, LastGoesAway, Zenon
<1>5. ASSUME NEW t \in Tfm, PutPidNs(t)
      PROVE  BucketsInv'
  BY <1>5, PutPidNsKeeps, Zenon
<1>6. ASSUME NEW ns \in Privileged, Die(ns)
      PROVE  BucketsInv'
  <2>1. UNCHANGED <<table, key, count, incarnation, refs, user, tenant, parting,
                    tfm>>
    BY <1>6, Zenon DEF Die
  <2>2. /\ tfm' \in [Tfm -> {"none", "charged", "live", "parting"}]
        /\ \A u \in Tfm : tfm'[u] = tfm[u]
    BY <2>1, Zenon DEF BucketsInv, BucketTypes
  <2>. QED
    BY <2>1, <2>2, BucketsKept, Zenon
<1>7. ASSUME NEW ns \in Privileged, Reuse(ns)
      PROVE  BucketsInv'
  <2>1. ns \in PidNs
    BY Zenon DEF PidNs
  <2>. QED
    BY <1>7, <2>1, ReuseKeeps, Zenon
<1>8. CASE UNCHANGED bucket_vars
  <2>1. UNCHANGED <<table, key, count, incarnation, refs, user, tenant, parting,
                    tfm>>
    BY <1>8, Zenon DEF bucket_vars
  <2>2. /\ tfm' \in [Tfm -> {"none", "charged", "live", "parting"}]
        /\ \A u \in Tfm : tfm'[u] = tfm[u]
    BY <2>1, Zenon DEF BucketsInv, BucketTypes
  <2>. QED
    BY <2>1, <2>2, BucketsKept, Zenon
<1>. QED
  BY <1>1, <1>2, <1>3, <1>4, <1>5, <1>6, <1>7, <1>8, Zenon DEF BucketsNext

-----------------------------------------------------------------------------
(* The steps of the load and the unload *)

\* Nothing is there before the first load.
LEMMA LoadInitially == Init => LoadInv
<1>. SUFFICES ASSUME Init PROVE LoadInv
  BY Zenon
<1>1. LoadTypes
  BY Zenon DEF Init, LoadTypes
<1>2. Registered
  BY Zenon DEF Init, Registered
<1>3. UsersShape
  BY Zenon DEF Init, BucketsInit, UsersShape
<1>4. ConfigShape
  BY SizeAssumption DEF Init, ConfigShape
<1>. QED
  BY <1>1, <1>2, <1>3, <1>4, Zenon DEF LoadInv

\* The parameters are refused, or fit what jent_entropy_init_ex() is told.
LEMMA ConfigureKeeps ==
  ASSUME LoadInv, NEW p \in Parameters, Configure(p)
  PROVE  LoadInv'
<1>. USE DEF LoadInv
<1>1. UNCHANGED <<proc_dir, hw_ec, hw_work, hw, hw_file, alg, misc,
                  misc_registered, misc_dir, debugfs, users, tfm>>
  BY Zenon DEF Configure, hw_vars, misc_vars, user_vars, bucket_vars
<1>2. CASE UNCHANGED <<module, at, param, field>>
  <2>1. LoadTypes' /\ Registered' /\ UsersShape' /\ ConfigShape'
    BY <1>1, <1>2, Zenon DEF LoadTypes, Registered, UsersShape, ConfigShape
  <2>. QED
    BY <2>1, Zenon
<1>3. CASE /\ ~ConfigRefused(p)
           /\ ~SizeRefused(p)
           /\ module' = "coming"
           /\ at' = "init"
           /\ param' = p
           /\ field' = IF p.max_memsize # 0 /\ IsSize(p.max_memsize)
                         THEN FieldOf(p.max_memsize) ELSE p.field
  <2>1. module = "unloaded" /\ at = "none"
    BY Zenon DEF Configure, LoadTypes
  <2>2. LoadTypes'
    BY <1>1, <1>3, <2>1, Zenon DEF LoadTypes, Loading
  <2>3. Registered'
    BY <1>1, <1>3, <2>1, Zenon DEF Registered, Loading
  <2>4. UsersShape'
    BY <1>1, <1>3, <2>1, Zenon DEF UsersShape
  <2>5. IsSize(p.max_memsize) =>
          /\ FieldOf(p.max_memsize) \in 1 .. MaxField
          /\ 2 ^ (FieldOf(p.max_memsize) - 1) = p.max_memsize
    BY Zenon DEF IsSize, FieldOf
  <2>6. p.field \in Nat
    BY SizeAssumption, Zenon DEF Parameters
  <2>7. ConfigShape'
    <3>1. CASE p.max_memsize # 0
      <4>1. IsSize(p.max_memsize)
        BY <1>3, <3>1, Zenon DEF SizeRefused
      <4>2. field' = FieldOf(p.max_memsize)
        BY <1>3, <3>1, <4>1, Zenon
      <4>3. /\ field' <= MaxField
            /\ 2 ^ (field' - 1) = p.max_memsize
        BY <2>5, <4>1, <4>2, SizeAssumption
      <4>. QED
        BY <1>3, <4>3, Zenon DEF ConfigShape
    <3>2. CASE p.max_memsize = 0
      <4>1. field' = p.field /\ ~(p.field > MaxField)
        BY <1>3, <3>2, Zenon DEF SizeRefused
      <4>2. field' <= MaxField
        BY <2>6, <4>1, SizeAssumption
      <4>. QED
        BY <1>3, <3>2, <4>2, Zenon DEF ConfigShape
    <3>. QED
      BY <3>1, <3>2, Zenon
  <2>. QED
    BY <2>2, <2>3, <2>4, <2>7, Zenon
<1>. QED
  BY <1>2, <1>3, Zenon DEF Configure

\* jent_entropy_init_ex() refuses only the host: the rest was refused before.
LEMMA LibraryInitKeeps ==
  ASSUME LoadInv, LibraryInit
  PROVE  LoadInv'
<1>. USE DEF LoadInv
<1>1. UNCHANGED <<proc_dir, hw_ec, hw_work, hw, hw_file, alg, misc,
                  misc_registered, misc_dir, debugfs, users, tfm>>
  BY Zenon DEF LibraryInit, hw_vars, misc_vars, user_vars, bucket_vars
<1>2. module = "coming" /\ at = "init"
  BY Zenon DEF LibraryInit
<1>3. \/ module' \in {"unloaded", "panic"} /\ at' = "none"
      \/ module' = "coming" /\ at' = "proc"
  BY Zenon DEF LibraryInit
<1>4. LoadTypes'
  BY <1>1, <1>3, Zenon DEF LoadTypes, Loading
<1>5. Registered'
  BY <1>1, <1>2, <1>3, Zenon DEF Registered
<1>6. UsersShape'
  BY <1>1, <1>2, <1>3, Zenon DEF UsersShape
<1>7. ConfigShape'
  <2>1. module' = "panic" => LibraryRefuses(param) /\ param' = param
    BY <1>2, Zenon DEF LibraryInit
  <2>2. module' = "panic" => ~param'.host
    BY <1>2, <2>1, Zenon DEF ConfigShape, ConfigRefused, LibraryRefuses
  <2>3. field' \in {0, field} /\ at' # "init"
    BY <1>3, Zenon DEF LibraryInit
  <2>4. field' <= MaxField
    BY <2>3, SizeAssumption DEF ConfigShape
  <2>. QED
    BY <2>2, <2>3, <2>4, Zenon DEF ConfigShape
<1>. QED
  BY <1>4, <1>5, <1>6, <1>7, Zenon

\* A step of the load that registers something, or fails.
LEMMA RegistrationKeeps ==
  ASSUME LoadInv,
         \/ ProcInit \/ HwrngAlloc \/ HwrngRegister \/ HwrngDefer \/ KcapiInit
         \/ ChardevInit
  PROVE  LoadInv'
<1>. USE DEF LoadInv
<1>1. module = "coming" /\ module' = "coming" /\ UNCHANGED <<param, field, users, tfm>>
  BY Zenon DEF ProcInit, HwrngAlloc, HwrngRegister, HwrngDefer, KcapiInit,
     ChardevInit, Step, user_vars, bucket_vars
<1>2. /\ at' \in Loading \ {"init"}
      /\ at = "chardev" => at' = "testing"
      /\ at # "testing"
  BY Zenon DEF ProcInit, HwrngAlloc, HwrngRegister, HwrngDefer, KcapiInit,
     ChardevInit, Step, ChardevFailure, Loading
<1>3. UsersShape' /\ ConfigShape'
  BY <1>1, <1>2, Zenon DEF UsersShape, ConfigShape
<1>4. LoadTypes'
  BY <1>1, <1>2, Zenon DEF LoadTypes, ProcInit, HwrngAlloc, HwrngRegister,
     HwrngDefer, KcapiInit, ChardevInit, Unscheduled, hw_vars, misc_vars
<1>5. Registered'
  <2>1. CASE ProcInit
    BY <1>1, <2>1, Zenon DEF ProcInit, Step, Registered, Loading, hw_vars,
       misc_vars
  <2>2. CASE HwrngAlloc
    BY <1>1, <2>2 DEF HwrngAlloc, Step, Registered, Loading, misc_vars
  <2>3. CASE HwrngRegister
    <3>1. CASE Step("hwrng_register", "kcapi")
      <4>1. hw_file' \in {proc_dir, FALSE} \/ hw_file' = hw_file
        BY <2>3, Zenon DEF HwrngRegister
      <4>2. hw_file' => proc_dir
        BY <4>1, Zenon DEF Registered
      <4>3. /\ at' = "kcapi" /\ at = "hwrng_register"
            /\ UNCHANGED <<proc_dir, alg, misc, misc_registered, misc_dir, debugfs>>
        BY <2>3, <3>1, Zenon DEF HwrngRegister, Step, misc_vars
      <4>. QED
        BY <1>1, <4>2, <4>3, Zenon DEF Registered, Loading
    <3>2. CASE Step("hwrng_register", "unwind_proc")
      <4>1. /\ at' = "unwind_proc" /\ at = "hwrng_register"
            /\ ~hw_work' /\ ~hw_ec' /\ UNCHANGED <<hw, hw_file>>
            /\ UNCHANGED <<proc_dir, alg, misc, misc_registered, misc_dir, debugfs>>
        BY <2>3, <3>2, Zenon DEF HwrngRegister, Step, Unscheduled, misc_vars
      <4>. QED
        BY <1>1, <4>1, Zenon DEF Registered, Loading
    <3>. QED
      BY <2>3, <3>1, <3>2, Zenon DEF HwrngRegister
  <2>4. CASE KcapiInit
    BY <1>1, <2>4 DEF KcapiInit, Step, Registered, Loading, hw_vars, misc_vars
  <2>5. CASE ChardevInit
    <3>1. \/ misc_dir' \in {proc_dir, FALSE}
          \/ misc_dir' = misc_dir
      BY <2>5, Zenon DEF ChardevInit, misc_vars
    <3>2. misc_dir' => proc_dir
      BY <3>1, Zenon DEF Registered
    <3>3. /\ at' = "testing" /\ at = "chardev"
          /\ UNCHANGED <<proc_dir, alg, hw_ec, hw_work, hw, hw_file, debugfs>>
          /\ \/ misc' = "linked" /\ misc_registered' = TRUE
             \/ UNCHANGED <<misc, misc_registered>>
      BY <2>5, Zenon DEF ChardevInit, Step, ChardevFailure, hw_vars, misc_vars
    <3>. QED
      BY <1>1, <3>2, <3>3 DEF Registered, Loading
  <2>6. CASE HwrngDefer
    BY <1>1, <2>6, Zenon DEF HwrngDefer, Step, Registered, Loading, misc_vars
  <2>. QED
    BY <2>1, <2>2, <2>3, <2>4, <2>5, <2>6, Zenon
<1>. QED
  BY <1>3, <1>4, <1>5, Zenon

\* The last step of a load, which cannot fail it.
LEMMA TestingInitKeeps ==
  ASSUME LoadInv, TestingInit
  PROVE  LoadInv'
<1>. USE DEF LoadInv
<1>1. /\ module' = "live" /\ at' = "none" /\ debugfs' \in BOOLEAN
      /\ UNCHANGED <<param, field, proc_dir, hw_ec, hw_work, hw, hw_file, alg,
                     misc, misc_registered, misc_dir, users>>
  BY Zenon DEF TestingInit, param_vars, hw_vars, misc_vars, user_vars
<1>2. module = "coming" /\ at = "testing"
  BY Zenon DEF TestingInit
<1>3. LoadTypes'
  BY <1>1, Zenon DEF LoadTypes
<1>4. Registered'
  BY <1>1, <1>2, Zenon DEF Registered
<1>5. UsersShape' /\ ConfigShape'
  BY <1>1, <1>2, Zenon DEF UsersShape, ConfigShape
<1>. QED
  BY <1>3, <1>4, <1>5, Zenon

\* The hwrng of a module that is built in comes to a module that is there.
LEMMA HwrngLateKeeps ==
  ASSUME LoadInv, HwrngLate
  PROVE  LoadInv'
<1>. USE DEF LoadInv
<1>1. /\ module = "live"
      /\ UNCHANGED <<module, at, param, field, proc_dir, alg, misc,
                     misc_registered, misc_dir, debugfs, users, tfm>>
  BY Zenon DEF HwrngLate, param_vars, misc_vars, user_vars, bucket_vars
<1>2. /\ {hw_ec', hw_work', hw'} \subseteq BOOLEAN
      /\ hw_file' \in {proc_dir, FALSE, hw_file}
  BY Zenon DEF HwrngLate, LoadTypes, Unscheduled
<1>3. LoadTypes'
  BY <1>1, <1>2, Zenon DEF LoadTypes
<1>4. hw_file' => proc_dir
  BY <1>2, Zenon DEF Registered
<1>5. Registered'
  BY <1>1, <1>4, Zenon DEF Registered
<1>6. UsersShape' /\ ConfigShape'
  BY <1>1, Zenon DEF UsersShape, ConfigShape
<1>. QED
  BY <1>3, <1>5, <1>6, Zenon

\* A failed load unwinds what it has registered, before anybody could use it.
LEMMA UnwindKeeps ==
  ASSUME LoadInv, HwrngInv, Unwind
  PROVE  LoadInv'
<1>. USE DEF LoadInv
<1>1. UNCHANGED <<param, alg, misc, misc_registered, misc_dir, debugfs, users, tfm>>
  BY Zenon DEF Unwind, misc_vars, user_vars, bucket_vars
<1>2. /\ module = "coming" /\ at \in {"unwind_hwrng", "unwind_proc", "fail"}
      /\ field' \in {0, field} /\ at' # "init"
      /\ \/ module' = "coming" /\ at' \in {"unwind_proc", "fail"}
         \/ module' = "unloaded" /\ at' = "none"
  BY Zenon DEF Unwind
<1>3. users = {} /\ \A t \in Tfm : tfm[t] = "none"
  BY <1>2, Zenon DEF UsersShape
<1>4. UsersShape'
  BY <1>1, <1>3, Zenon DEF UsersShape
<1>5. ConfigShape'
  <2>1. field' <= MaxField
    BY <1>2, SizeAssumption DEF ConfigShape
  <2>. QED
    BY <1>2, <2>1, Zenon DEF ConfigShape
<1>6. LoadTypes'
  BY <1>1, <1>2, Zenon DEF LoadTypes, Unwind, ModHwrngExit, HwrngExit, Loading,
     hw_vars
<1>7. Registered'
  <2>1. CASE at = "unwind_hwrng"
    <3>1. ~(hw_ec' \/ hw_work' \/ hw')
      BY <1>2, <2>1, Zenon DEF Unwind, ModHwrngExit, HwrngExit, HwrngInv
    <3>2. ~hw_file'
      BY <1>2, <2>1, Zenon DEF Unwind, ModHwrngExit, HwrngExit, HwrngInv
    <3>3. at' = "unwind_proc" /\ module' = "coming" /\ proc_dir' = proc_dir
      BY <1>2, <2>1, Zenon DEF Unwind
    <3>. QED
      BY <1>1, <1>2, <2>1, <3>1, <3>2, <3>3, Zenon DEF Registered, Loading
  <2>2. CASE at = "unwind_proc"
    BY <1>1, <1>2, <2>2 DEF Unwind, Registered, Loading, hw_vars
  <2>3. CASE at = "fail"
    BY <1>1, <1>2, <2>3 DEF Unwind, Registered, Loading, hw_vars
  <2>. QED
    BY <1>2, <2>1, <2>2, <2>3, Zenon
<1>. QED
  BY <1>4, <1>5, <1>6, <1>7, Zenon

\* rmmod waits for every user.
LEMMA UnloadKeeps ==
  ASSUME LoadInv, Unload
  PROVE  LoadInv'
<1>. USE DEF LoadInv
<1>1. /\ module = "live" /\ module' = "going" /\ at' = "exit_chardev"
      /\ users = {} /\ \A t \in Tfm : tfm[t] = "none"
      /\ UNCHANGED <<param, field, proc_dir, hw_ec, hw_work, hw, hw_file, alg,
                     misc, misc_registered, misc_dir, debugfs, users, tfm>>
  BY Zenon DEF Unload, InUse, param_vars, hw_vars, misc_vars, user_vars,
     bucket_vars
<1>2. at = "none"
  BY <1>1, Zenon DEF LoadTypes
<1>3. LoadTypes'
  BY <1>1, Zenon DEF LoadTypes, Leaving
<1>4. Registered'
  BY <1>1, <1>2, Zenon DEF Registered
<1>5. UsersShape' /\ ConfigShape'
  BY <1>1, Zenon DEF UsersShape, ConfigShape
<1>. QED
  BY <1>3, <1>4, <1>5, Zenon

\* jent_mod_exit() takes everything back.
LEMMA ExitKeeps ==
  ASSUME LoadInv, Exit
  PROVE  LoadInv'
<1>. USE DEF LoadInv
<1>1. /\ module = "going" /\ at \in Leaving
      /\ at' = ExitOrder[at]
      /\ module' = IF at' = "none" THEN "unloaded" ELSE "going"
      /\ UNCHANGED <<param, users, tfm>>
  BY Zenon DEF Exit, LoadTypes, user_vars, bucket_vars
<1>2. \/ at = "exit_chardev" /\ at' = "exit_kcapi" /\ module' = "going"
      \/ at = "exit_kcapi" /\ at' = "exit_testing" /\ module' = "going"
      \/ at = "exit_testing" /\ at' = "exit_hwrng" /\ module' = "going"
      \/ at = "exit_hwrng" /\ at' = "exit_proc" /\ module' = "going"
      \/ at = "exit_proc" /\ at' = "none" /\ module' = "unloaded"
  BY <1>1 DEF ExitOrder, Leaving
<1>3. users = {} /\ \A t \in Tfm : tfm[t] = "none"
  BY <1>1, <1>2, Zenon DEF UsersShape
<1>4. UsersShape'
  BY <1>1, <1>3, Zenon DEF UsersShape
<1>5. ConfigShape'
  <2>1. field' \in {0, field}
    BY Zenon DEF Exit
  <2>2. field' <= MaxField
    BY <2>1, SizeAssumption DEF ConfigShape
  <2>. QED
    BY <1>2, <2>2, Zenon DEF ConfigShape
<1>6. /\ alg' = (alg /\ at # "exit_kcapi")
      /\ debugfs' = (debugfs /\ at # "exit_testing")
      /\ proc_dir' = (proc_dir /\ at # "exit_proc")
  BY Zenon DEF Exit
<1>7. IF at = "exit_hwrng" THEN ~hw_file' /\ ~hw' /\ ~hw_work' /\ ~hw_ec'
      ELSE UNCHANGED <<hw_file, hw, hw_work, hw_ec>>
  BY Zenon DEF Exit, HwrngExit, hw_vars
<1>8. IF at = "exit_chardev"
        THEN misc' = "unlinked" /\ ~misc_registered' /\ ~misc_dir'
        ELSE UNCHANGED <<misc, misc_registered, misc_dir>>
  BY Zenon DEF Exit, ChardevExit, Deregisters, Registered, misc_vars
<1>9. LoadTypes'
  <2>1. {hw_file', hw', hw_work', hw_ec', misc_registered', misc_dir'}
          \subseteq BOOLEAN
    BY Zenon DEF LoadTypes, Exit, HwrngExit, ChardevExit, hw_vars, misc_vars
  <2>2. {alg', debugfs', proc_dir'} \subseteq BOOLEAN
    BY <1>6, Zenon
  <2>. QED
    BY <1>1, <1>2, <2>1, <2>2, Zenon DEF LoadTypes, Leaving
<1>10. Registered'
  <2>1. CASE at = "exit_chardev"
    BY <1>1, <1>2, <1>6, <1>7, <1>8, <2>1, Zenon DEF Registered, Loading
  <2>2. CASE at = "exit_kcapi"
    BY <1>1, <1>2, <1>6, <1>7, <1>8, <2>2, Zenon DEF Registered, Loading
  <2>3. CASE at = "exit_testing"
    BY <1>1, <1>2, <1>6, <1>7, <1>8, <2>3, Zenon DEF Registered, Loading
  <2>4. CASE at = "exit_hwrng"
    BY <1>1, <1>2, <1>6, <1>7, <1>8, <2>4, Zenon DEF Registered, Loading
  <2>5. CASE at = "exit_proc"
    BY <1>1, <1>2, <1>6, <1>7, <1>8, <2>5, Zenon DEF Registered, Loading
  <2>. QED
    BY <1>2, <2>1, <2>2, <2>3, <2>4, <2>5, Zenon
<1>. QED
  BY <1>4, <1>5, <1>9, <1>10, Zenon

\* Users come only where a later step of the load cannot fail.
LEMMA UsersKeep ==
  ASSUME LoadInv, (\E i \in Interface : Enter(i) \/ Leave(i)) \/ Crypto
  PROVE  LoadInv'
<1>. USE DEF LoadInv
<1>1. UNCHANGED <<module, at, param, field, proc_dir, hw_ec, hw_work, hw,
                  hw_file, alg, misc, misc_registered, misc_dir, debugfs>>
  BY Zenon DEF Enter, Leave, Crypto, param_vars, hw_vars, misc_vars
<1>2. users' \subseteq Interface
  BY Zenon DEF Enter, Leave, Crypto, LoadTypes
<1>3. LoadTypes' /\ Registered' /\ ConfigShape'
  BY <1>1, <1>2, Zenon DEF LoadTypes, Registered, ConfigShape
<1>4. UsersShape'
  <2>1. CASE \E i \in Interface : Enter(i)
    <3>1. module = "live" \/ at = "testing"
      BY <2>1, Zenon DEF Enter, Gettable, Reachable, Registered, LoadTypes,
         Loading, Leaving
    <3>2. UNCHANGED tfm
      BY <2>1, Zenon DEF Enter, bucket_vars
    <3>. QED
      BY <1>1, <3>1, <3>2, Zenon DEF UsersShape
  <2>2. CASE \E i \in Interface : Leave(i)
    <3>1. UNCHANGED tfm /\ users' \subseteq users
      BY <2>2, Zenon DEF Leave, bucket_vars
    <3>. QED
      BY <1>1, <3>1, Zenon DEF UsersShape
  <2>3. CASE Crypto
    <3>1. UNCHANGED users
      BY <2>3, Zenon DEF Crypto
    <3>2. (\E t \in Tfm : tfm[t] = "none" /\ tfm'[t] # "none") =>
            module = "live" \/ at \in {"chardev", "testing"}
      BY <2>3, Zenon DEF Crypto, Gettable, Registered, LoadTypes, Loading,
         Leaving
    <3>. QED
      BY <1>1, <3>1, <3>2, Zenon DEF UsersShape
  <2>. QED
    BY <2>1, <2>2, <2>3, Zenon
<1>. QED
  BY <1>3, <1>4, Zenon

\* Every step keeps the hwrng together with its collector.
LEMMA HwrngKept ==
  ASSUME LoadInv, HwrngInv, [Next]_vars
  PROVE  HwrngInv'
<1>1. LoadTypes
  BY Zenon DEF LoadInv
<1>2. CASE UNCHANGED <<hw_ec, hw_work, hw, hw_file, late, module, at>>
  BY <1>2, Zenon DEF HwrngInv, PastHwrng
<1>3. CASE (\E p \in Parameters : Configure(p)) \/ LibraryInit \/ ProcInit
  <2>1. /\ UNCHANGED <<hw_ec, hw_work, hw, hw_file, late>>
        /\ ~PastHwrng /\ at # "hwrng_register"
    BY <1>1, <1>3, Zenon DEF Configure, LibraryInit, ProcInit, Step, hw_vars,
       PastHwrng, LoadTypes
  <2>2. /\ module' \notin {"live", "going"} \/ UNCHANGED module
        /\ at' \in {"none", "init", "proc", "hwrng", "fail"}
    BY <1>1, <1>3, Zenon DEF Configure, LibraryInit, ProcInit, Step, LoadTypes
  <2>3. ~PastHwrng'
    BY <2>1, <2>2, Zenon DEF PastHwrng
  <2>. QED
    BY <2>1, <2>2, <2>3, Zenon DEF HwrngInv, PastHwrng
<1>4. CASE HwrngAlloc
  <2>1. /\ at = "hwrng" /\ module = "coming" /\ UNCHANGED <<module, hw, hw_file, late>>
        /\ late = "module"
        /\ \/ at' = "hwrng_register" /\ hw_ec'
           \/ at' = "unwind_proc" /\ UNCHANGED <<hw_ec, hw_work>>
    BY <1>4, Zenon DEF HwrngAlloc, Step
  <2>2. ~hw /\ ~hw_ec /\ ~hw_work /\ ~hw_file
    BY <1>1, <2>1, Zenon DEF LoadInv, Registered
  <2>3. ~PastHwrng' /\ ~hw' /\ ~hw_file'
    BY <2>1, <2>2, Zenon DEF PastHwrng
  <2>4. CASE at' = "hwrng_register" /\ hw_ec'
    BY <2>1, <2>3, <2>4, Zenon DEF HwrngInv
  <2>5. CASE at' = "unwind_proc" /\ ~hw_ec' /\ ~hw_work'
    BY <2>1, <2>3, <2>5, Zenon DEF HwrngInv
  <2>6. ASSUME UNCHANGED <<hw_ec, hw_work>> PROVE ~hw_ec' /\ ~hw_work'
    BY <2>2, <2>6, Zenon
  <2>. QED
    BY <2>1, <2>4, <2>5, <2>6, Zenon
<1>5. CASE HwrngRegister
  <2>1. /\ at = "hwrng_register" /\ module = "coming" /\ UNCHANGED <<module, late>>
        /\ \/ at' = "kcapi" /\ hw' /\ UNCHANGED <<hw_ec, hw_work>>
           \/ /\ at' = "unwind_proc" /\ ~hw_work' /\ ~hw_ec'
              /\ UNCHANGED <<hw, hw_file>>
    BY <1>5, Zenon DEF HwrngRegister, Step, Unscheduled
  <2>2. late = "module" /\ hw_ec /\ ~hw /\ ~hw_file
    BY <2>1, Zenon DEF HwrngInv
  <2>3. CASE at' = "kcapi" /\ hw' /\ hw_ec'
    BY <2>1, <2>2, <2>3, Zenon DEF HwrngInv, PastHwrng
  <2>4. CASE at' = "unwind_proc" /\ ~hw_work' /\ ~hw_ec' /\ ~hw' /\ ~hw_file'
    BY <2>1, <2>2, <2>4, Zenon DEF HwrngInv, PastHwrng
  <2>5. ASSUME UNCHANGED <<hw, hw_file>> PROVE ~hw' /\ ~hw_file'
    BY <2>2, <2>5, Zenon
  <2>6. ASSUME UNCHANGED <<hw_ec, hw_work>> PROVE hw_ec'
    BY <2>2, <2>6, Zenon
  <2>. QED
    BY <2>1, <2>3, <2>4, <2>5, <2>6, Zenon
<1>6. CASE HwrngDefer
  BY <1>6, Zenon DEF HwrngDefer, Step, HwrngInv, PastHwrng
<1>7. CASE HwrngLate
  <2>1. /\ module = "live" /\ at = "none" /\ UNCHANGED <<module, at>>
        /\ late = "pending" /\ late' = "late"
        /\ \/ hw_ec' /\ hw'
           \/ ~hw_work' /\ UNCHANGED <<hw_ec, hw, hw_file>>
    BY <1>1, <1>7, Zenon DEF HwrngLate, Unscheduled, LoadTypes
  <2>2. ~hw /\ ~hw_ec /\ ~hw_file
    BY <2>1, Zenon DEF HwrngInv
  <2>3. CASE hw_ec' /\ hw'
    BY <2>1, <2>3, Zenon DEF HwrngInv, PastHwrng
  <2>4. CASE ~hw_work' /\ ~hw_ec' /\ ~hw' /\ ~hw_file'
    BY <2>1, <2>4, Zenon DEF HwrngInv, PastHwrng
  <2>5. ASSUME UNCHANGED <<hw_ec, hw, hw_file>> PROVE ~hw_ec' /\ ~hw' /\ ~hw_file'
    BY <2>2, <2>5, Zenon
  <2>. QED
    BY <2>1, <2>3, <2>4, <2>5, Zenon
<1>8. CASE KcapiInit \/ ChardevInit \/ TestingInit
  <2>1. /\ UNCHANGED <<hw_ec, hw_work, hw, hw_file, late>>
        /\ module = "coming" /\ module' \in {"coming", "live"}
        /\ PastHwrng /\ PastHwrng'
        /\ at # "hwrng_register" /\ at' # "hwrng_register"
    BY <1>8, Zenon DEF KcapiInit, ChardevInit, TestingInit, Step, ChardevFailure,
       hw_vars, PastHwrng
  <2>. QED
    BY <2>1, Zenon DEF HwrngInv
<1>9. CASE Unwind
  <2>1. CASE at = "unwind_hwrng"
    BY <1>9, <2>1, Zenon DEF Unwind, ModHwrngExit, HwrngExit, HwrngInv, PastHwrng
  <2>2. CASE at # "unwind_hwrng"
    <3>1. /\ UNCHANGED <<hw_ec, hw_work, hw, hw_file, late>>
          /\ module = "coming" /\ module' \in {"coming", "unloaded"}
          /\ at \in {"unwind_proc", "fail"} /\ at' \in {"fail", "none"}
      BY <1>9, <2>2, Zenon DEF Unwind, hw_vars
    <3>2. ~PastHwrng /\ ~PastHwrng' /\ at # "hwrng_register" /\ at' # "hwrng_register"
      BY <3>1, Zenon DEF PastHwrng
    <3>3. ~(late # "module" /\ hw)
      BY <3>1, Zenon DEF HwrngInv
    <3>. QED
      BY <3>1, <3>2, <3>3, Zenon DEF HwrngInv
  <2>. QED
    BY <2>1, <2>2, Zenon
<1>10. CASE Unload
  BY <1>1, <1>10, Zenon DEF Unload, hw_vars, HwrngInv, PastHwrng, LoadTypes
<1>11. CASE Exit
  <2>1. /\ module = "going" /\ module' \in {"going", "unloaded"} /\ at \in Leaving
        /\ at' \in Leaving \cup {"none"} /\ late = "module"
    <3>1. module = "going" /\ at \in Leaving /\ at' = ExitOrder[at]
      BY <1>1, <1>11, Zenon DEF Exit, LoadTypes
    <3>2. at' \in Leaving \cup {"none"}
      BY <3>1 DEF ExitOrder, Leaving
    <3>. QED
      BY <1>11, <3>1, <3>2, Zenon DEF Exit, HwrngInv
  <2>2. ~PastHwrng' /\ at # "hwrng_register" /\ at' # "hwrng_register"
    BY <2>1, Zenon DEF PastHwrng, Leaving
  <2>3. CASE at = "exit_hwrng"
    BY <1>11, <2>1, <2>2, <2>3, Zenon DEF Exit, HwrngExit, HwrngInv
  <2>4. CASE at # "exit_hwrng"
    BY <1>11, <2>1, <2>2, <2>4, Zenon DEF Exit, hw_vars, HwrngInv
  <2>. QED
    BY <2>3, <2>4, Zenon
<1>12. CASE (\E i \in Interface : Enter(i) \/ Leave(i)) \/ Crypto \/ UNCHANGED vars
  BY <1>2, <1>12, Zenon DEF Enter, Leave, Crypto, vars, hw_vars
<1>. QED
  BY <1>3, <1>4, <1>5, <1>6, <1>7, <1>8, <1>9, <1>10, <1>11, <1>12, Zenon DEF Next

-----------------------------------------------------------------------------
(* The theorems *)

\* The load, the unload and the crypto API keep the three invariants.
LEMMA ModuleInvariant == Spec => [](BucketsInv /\ LoadInv /\ HwrngInv)
<1>1. Init => BucketsInv /\ LoadInv /\ HwrngInv
  <2>1. Init => HwrngInv
    BY Zenon DEF Init, HwrngInv, PastHwrng
  <2>. QED
    BY <2>1, BucketsInitially, LoadInitially, Zenon DEF Init
<1>2. BucketsInv /\ LoadInv /\ HwrngInv /\ [Next]_vars =>
        (BucketsInv /\ LoadInv /\ HwrngInv)'
  <2>. SUFFICES ASSUME BucketsInv, LoadInv, HwrngInv, [Next]_vars
                PROVE  BucketsInv' /\ LoadInv' /\ HwrngInv'
    BY Zenon
  <2>1. [BucketsNext]_bucket_vars
    <3>1. CASE Crypto
      BY <3>1, Zenon DEF Crypto
    <3>2. CASE UNCHANGED bucket_vars
      BY <3>2, Zenon
    <3>3. CASE UNCHANGED vars
      BY <3>3, Zenon DEF vars
    <3>4. ASSUME NEW i \in Interface, Enter(i) \/ Leave(i)
          PROVE  UNCHANGED bucket_vars
      BY <3>4, Zenon DEF Enter, Leave
    <3>. QED
      BY <3>1, <3>2, <3>3, <3>4, Zenon DEF Next, Configure, LibraryInit,
         ProcInit, HwrngAlloc, HwrngRegister, HwrngDefer, HwrngLate, KcapiInit,
         ChardevInit, TestingInit, Unwind, Unload, Exit, user_vars
  <2>2. BucketsInv'
    BY <2>1, BucketsPreserved, Zenon
  <2>3. LoadInv'
    <3>1. CASE UNCHANGED vars
      <4>1. UNCHANGED <<module, at, param, field, proc_dir, hw_ec, hw_work, hw,
                        hw_file, alg, misc, misc_registered, misc_dir, debugfs,
                        users, tfm>>
        BY <3>1, Zenon DEF vars, param_vars, hw_vars, misc_vars, bucket_vars
      <4>. QED
        BY <4>1, Zenon DEF LoadInv, LoadTypes, Registered, UsersShape,
           ConfigShape
    <3>. QED
      BY <3>1, ConfigureKeeps, LibraryInitKeeps, RegistrationKeeps,
         HwrngLateKeeps, TestingInitKeeps, UnwindKeeps, UnloadKeeps, ExitKeeps, UsersKeep,
         Zenon DEF Next
  <2>. QED
    BY <2>2, <2>3, HwrngKept, Zenon
<1>. QED
  BY <1>1, <1>2, PTL DEF Spec

\* jent_kcapi_instance_put() finds what jent_kcapi_instance_get() returned, the
\* counts are the instances, no empty bucket stays, and one bucket never holds
\* instances of two containers, whatever addresses the kernel uses again.
THEOREM BucketsAreExact == Spec => []BucketsExact
<1>1. BucketsInv => BucketsExact
  <2>. SUFFICES ASSUME BucketsInv PROVE BucketsExact
    BY Zenon
  <2>1. \A t \in Tfm : tfm[t] \in {"charged", "live"} => user[t] \in table
    BY Zenon DEF BucketsInv, InstanceShape
  <2>2. \A b \in table : count[b] > 0 /\ count[b] = Cardinality(Charged(b))
    <3>. TAKE b \in table
    <3>1. /\ Charged(b) # {} /\ count[b] = Cardinality(Charged(b))
          /\ IsFiniteSet(Charged(b)) /\ Cardinality(Charged(b)) \in Nat
      BY Finite, Zenon DEF BucketsInv, TableShape
    <3>2. Cardinality(Charged(b)) # 0
      BY <3>1, FS_EmptySet, Zenon
    <3>. QED
      BY <3>1, <3>2
  <2>3. \A b \in Bucket \ table : Charged(b) = {}
    BY CallerAssumption, Zenon DEF BucketsInv, InstanceShape, Charged
  <2>4. \A t, u \in Tfm :
          user[t] # None /\ user[t] = user[u] => tenant[t][1] = tenant[u][1]
    BY Zenon DEF BucketsInv, TenantShape
  <2>. QED
    BY <2>1, <2>2, <2>3, <2>4, Zenon DEF BucketsExact
<1>. QED
  BY <1>1, ModuleInvariant, PTL

\* jent_kcapi_instance_get() gives no user, together with the namespaces it made,
\* and no container more than max_kcapi_instances without CAP_SYS_RESOURCE.
THEOREM TenantsLimited == Spec => []LimitPerTenant
<1>1. BucketsInv => LimitPerTenant
  <2>. SUFFICES ASSUME BucketsInv, max_kcapi_instances # 0, NEW t \in Tfm
                PROVE  Cardinality({u \in Tfm : /\ tenant[u] # None
                                                /\ tenant[t] # None
                                                /\ tenant[u][1] = tenant[t][1]
                                                /\ ~tenant[u][2]})
                         <= max_kcapi_instances
    BY Zenon DEF LimitPerTenant
  <2>. DEFINE X == {u \in Tfm : /\ tenant[u] # None
                                /\ tenant[t] # None
                                /\ tenant[u][1] = tenant[t][1]
                                /\ ~tenant[u][2]}
  <2>1. CASE tenant[t] = None
    <3>1. X = {}
      BY <2>1, Zenon
    <3>. HIDE DEF X
    <3>2. Cardinality(X) <= max_kcapi_instances
      BY <3>1, FS_EmptySet, CallerAssumption
    <3>. QED
      BY <3>2, Zenon DEF X
  <2>2. CASE tenant[t] # None
    <3>1. user[t] # None /\ user[t] \in table
      BY <2>2, Zenon DEF BucketsInv, InstanceShape
    <3>2. X \subseteq Uncapable(user[t])
      <4>. SUFFICES ASSUME NEW u \in X PROVE u \in Uncapable(user[t])
        BY Zenon
      <4>1. u \in Tfm /\ user[u] # None /\ user[u] \in table /\ ~tenant[u][2]
        BY Zenon DEF BucketsInv, InstanceShape
      <4>2. /\ key[user[u]][1] = key[user[t]][1]
            /\ key[user[u]][2] = key[user[t]][2]
        BY <3>1, <4>1 DEF BucketsInv, TenantShape
      <4>3. user[u] = user[t]
        BY <3>1, <4>1, <4>2 DEF BucketsInv, TableShape
      <4>. QED
        BY <4>1, <4>3, Zenon DEF Uncapable, Charged
    <3>. HIDE DEF X
    <3>3. /\ Cardinality(X) <= Cardinality(Uncapable(user[t]))
          /\ Cardinality(X) \in Nat /\ Cardinality(Uncapable(user[t])) \in Nat
      BY <3>2, Finite, FS_Subset, FS_CardinalityType, Zenon DEF BucketsInv
    <3>4. Cardinality(Uncapable(user[t])) <= max_kcapi_instances
      BY <3>1, Zenon DEF BucketsInv, WithinLimit
    <3>5. Cardinality(X) <= max_kcapi_instances
      BY <3>3, <3>4, CallerAssumption
    <3>. QED
      BY <3>5, Zenon DEF X
  <2>. QED
    BY <2>1, <2>2, Zenon
<1>. QED
  BY <1>1, ModuleInvariant, PTL

\* jent_mod_exit() and a jent_mod_init() that fails never free the module under
\* an open file or an instance, and an algorithm with an instance is registered.
THEOREM UsersHoldModule == Spec => []NoFreeUnderUser
<1>1. LoadInv => NoFreeUnderUser
  <2>. SUFFICES ASSUME LoadInv PROVE NoFreeUnderUser
    BY Zenon
  <2>1. module = "unloaded" => ~InUse
    BY Zenon DEF LoadInv, LoadTypes, UsersShape, InUse
  <2>2. (\E t \in Tfm : tfm[t] # "none") => alg
    BY Zenon DEF LoadInv, UsersShape, Registered
  <2>. QED
    BY <2>1, <2>2, Zenon DEF NoFreeUnderUser
<1>. QED
  BY <1>1, ModuleInvariant, PTL

\* jent_mod_init() ends with the algorithm and the hwrng registered - the hwrng of
\* a module built in with its late initcall, unless that fails - and the memory
\* size that was asked for, or with nothing left behind, or with a panic over the
\* host; no entry of procfs is removed twice and no device unlinked that was not
\* linked.
THEOREM LoadsEndSound == Spec => []LoadEndsSound
<1>1. BucketsInv /\ LoadInv /\ HwrngInv => LoadEndsSound
  <2>. SUFFICES ASSUME BucketsInv, LoadInv, HwrngInv PROVE LoadEndsSound
    BY Zenon
  <2>1. ASSUME module = "unloaded"
        PROVE  /\ ~(proc_dir \/ hw_ec \/ hw_work \/ hw \/ hw_file \/ alg
                      \/ misc = "linked" \/ misc_dir \/ debugfs)
               /\ late # "pending"
               /\ table = {}
               /\ \A ns \in PidNs : refs[ns] = 0
    <3>1. at = "none"
      BY <2>1, Zenon DEF LoadInv, LoadTypes
    <3>2. ~(proc_dir \/ hw_ec \/ hw_work \/ hw \/ hw_file \/ alg
              \/ misc = "linked" \/ misc_dir \/ debugfs)
      BY <2>1, <3>1, Zenon DEF LoadInv, Registered, Loading
    <3>3. \A t \in Tfm : tfm[t] = "none"
      BY <2>1, <3>1, Zenon DEF LoadInv, UsersShape
    <3>4. \A t \in Tfm : user[t] = None /\ parting[t] = None
      BY <3>3, Zenon DEF BucketsInv, InstanceShape
    <3>5. table = {}
      <4>1. \A b \in table : b # None /\ Charged(b) # {}
        BY CallerAssumption, Zenon DEF BucketsInv, TableShape, BucketTypes
      <4>. QED
        BY <3>4, <4>1, Zenon DEF Charged
    <3>6. \A ns \in PidNs : Keyed(ns) = {} /\ Parting(ns) = {}
      BY <3>4, <3>5, CallerAssumption, Zenon DEF Keyed, Parting, PidNs
    <3>7. \A ns \in PidNs : refs[ns] = 0
      BY <3>6, FS_EmptySet DEF BucketsInv, RefsExact
    <3>8. late # "pending"
      BY <2>1, <3>1, Zenon DEF HwrngInv, PastHwrng
    <3>. QED
      BY <3>2, <3>5, <3>7, <3>8, Zenon
  <2>2. /\ field <= MaxField
        /\ at = "init" /\ param.max_memsize # 0
             => 2 ^ (field - 1) = param.max_memsize
        /\ module = "panic" => ~param.host
    BY Zenon DEF LoadInv, ConfigShape
  <2>3. (hw_file \/ misc_dir => proc_dir) /\ misc # "corrupt"
    BY Zenon DEF LoadInv, Registered
  <2>4. ASSUME module = "live"
        PROVE  /\ alg
               /\ hw \/ late # "module"
               /\ hw <=> hw_ec
               /\ hw_work => hw_ec
               /\ late = "pending" => ~hw
    <3>1. at = "none"
      BY <2>4, Zenon DEF LoadInv, LoadTypes
    <3>. QED
      BY <2>4, <3>1, Zenon DEF LoadInv, Registered, HwrngInv, PastHwrng
  <2>. QED
    BY <2>1, <2>2, <2>3, <2>4, Zenon DEF LoadEndsSound
<1>. QED
  BY <1>1, ModuleInvariant, PTL
=============================================================================
