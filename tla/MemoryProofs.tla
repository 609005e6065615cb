---------------------------- MODULE MemoryProofs ----------------------------
(***************************************************************************)
(* The memory of a collector, for every machine, every width of a size and *)
(* any number of threads: the region a collector accesses is sized from    *)
(* the caches the discovery found and exceeds them, is accounted for to    *)
(* the last page, and is accessed evenly.                                  *)
(***************************************************************************)
EXTENDS CollectorMemory, FiniteSetTheorems, NaturalsInduction, TLAPS


-----------------------------------------------------------------------------
(* Loops *)

\* A set of natural numbers has a least element.
LEMMA LeastExists ==
  ASSUME NEW T, T \subseteq Nat, T # {}
  PROVE  \E x \in T : \A y \in T : x <= y
<1>1. PICK x \in T : \A y \in T : ~ (<<y, x>> \in OpToRel(<, Nat))
  BY NatLessThanWellFounded, WFMin, Zenon
<1>2. \A y \in T : ~ (y < x)
  BY <1>1, Zenon DEF OpToRel
<1> QED
  BY <1>2

\* What holds before the first round of a loop, and after every round if it did
\* before, holds after the last: no round is the first after which it does not.
LEMMA Rounds ==
  ASSUME NEW n \in Nat, NEW G, 0 \in G,
         \A k \in 0 .. n - 1 : k \in G => k + 1 \in G
  PROVE  \A k \in 0 .. n : k \in G
<1> DEFINE T == (0 .. n) \ G
<1>1. ASSUME T # {} PROVE FALSE
  <2>1. PICK k \in T : \A j \in T : k <= j
    <3>1. T \subseteq Nat
      OBVIOUS
    <3> QED
      BY <1>1, <3>1, LeastExists, Zenon
  <2>2. k - 1 \in 0 .. n - 1 /\ k - 1 \in G /\ (k - 1) + 1 = k
    BY <2>1
  <2> QED
    BY <2>1, <2>2, Zenon
<1> QED
  BY <1>1, Zenon

\* The values a loop of n rounds goes through, from its first value by its step.
LoopValues(f, n, S, base, step) ==
  /\ f \in [0 .. n -> S] /\ f[0] = base
  /\ \A k \in 1 .. n : f[k] = step[<<k, f[k - 1]>>]

\* Every loop has them.
LEMMA LoopExists ==
  ASSUME NEW n \in Nat, NEW S, NEW base \in S, NEW step \in [(1 .. n) \X S -> S]
  PROVE  \E f : LoopValues(f, n, S, base, step)
<1> DEFINE Upto(m, f) == /\ f \in [0 .. m -> S] /\ f[0] = base
                         /\ \A k \in 1 .. m : f[k] = step[<<k, f[k - 1]>>]
           G == {m \in 0 .. n : \E f : Upto(m, f)}
<1>1. 0 \in G
  <2> DEFINE f == [k \in 0 .. 0 |-> base]
  <2>1. Upto(0, f)
    OBVIOUS
  <2> HIDE DEF f, Upto
  <2> QED
    BY <2>1
<1>2. ASSUME NEW m \in 0 .. n - 1, m \in G PROVE m + 1 \in G
  <2>1. PICK f : Upto(m, f)
    BY <1>2, Zenon
  <2> DEFINE last == step[<<m + 1, f[m]>>]
             g == [k \in 0 .. m + 1 |-> IF k = m + 1 THEN last ELSE f[k]]
  <2>2. last \in S
    BY <2>1
  <2>3. g \in [0 .. m + 1 -> S] /\ g[0] = base
    BY <2>1, <2>2
  <2>4. ASSUME NEW k \in 1 .. m + 1 PROVE g[k] = step[<<k, g[k - 1]>>]
    <3>1. CASE k = m + 1
      <4>1. g[k] = last /\ g[k - 1] = f[m] 
        BY <3>1
      <4> QED
        BY <3>1, <4>1, Zenon
    <3>2. CASE k # m + 1
      <4>1. k \in 1 .. m /\ g[k] = f[k] /\ g[k - 1] = f[k - 1]
        BY <3>2
      <4> QED
        BY <2>1, <4>1, Zenon
    <3> QED
      BY <3>1, <3>2, Zenon
  <2>5. Upto(m + 1, g)
    BY <2>3, <2>4, Zenon
  <2> HIDE DEF Upto
  <2> QED
    BY <2>5
<1>3. n \in G
  <2> HIDE DEF G
  <2>1. \A k \in 0 .. n : k \in G
    BY <1>1, <1>2, Rounds, Zenon
  <2> QED
    BY <2>1
<1> QED
  BY <1>3, Zenon DEF LoopValues

-----------------------------------------------------------------------------
(* Divisors *)

\* Division with remainder.
LEMMA Divided ==
  ASSUME NEW x \in Nat, NEW d \in Nat \ {0}
  PROVE  /\ x \div d \in Nat /\ (x % d) \in 0 .. d - 1
         /\ x = d * (x \div d) + (x % d)
  OBVIOUS

\* A number below the divisor is its own remainder.
LEMMA SmallRemainder ==
  ASSUME NEW x \in Nat, NEW d \in Nat, x < d
  PROVE  x % d = x
  OBVIOUS

-----------------------------------------------------------------------------
(* Powers of two *)

\* The doublings of Power.
LEMMA PowerLoop ==
  ASSUME NEW n \in Nat
  PROVE  \E f \in [0 .. n -> Nat \ {0}] :
           f[0] = 1 /\ (\A k \in 1 .. n : f[k] = 2 * f[k - 1]) /\ Power(n) = f[n]
<1> DEFINE Body(f) == [k \in 0 .. n |-> IF k = 0 THEN 1 ELSE 2 * f[k - 1]]
           loop == CHOOSE f : f = Body(f)
           S == Nat \ {0}
           turn == [q \in (1 .. n) \X S |-> 2 * q[2]]
<1>1. Power(n) = loop[n]
  BY Zenon DEF Power
<1>2. turn \in [(1 .. n) \X S -> S]
  OBVIOUS
<1>3. PICK f : LoopValues(f, n, S, 1, turn)
  <2> 1 \in S
    OBVIOUS
  <2> HIDE DEF turn, S
  <2> QED
    BY <1>2, LoopExists, Zenon
<1>4. f \in [0 .. n -> S] /\ f[0] = 1 /\ \A k \in 1 .. n : f[k] = 2 * f[k - 1]
  <2>1. ASSUME NEW k \in 1 .. n PROVE f[k] = 2 * f[k - 1]
    <3>1. k - 1 \in 0 .. n
      OBVIOUS
    <3>2. f[k - 1] \in S /\ f[k] = turn[<<k, f[k - 1]>>]
      <4> HIDE DEF turn, S
      <4> QED
        BY <1>3, <3>1, Zenon DEF LoopValues
    <3> QED
      BY <3>2, Zenon
  <2> QED
    BY <1>3, <2>1, Zenon DEF LoopValues
<1>5. \E g : g = Body(g)
  <2>1. f = Body(f)
    BY <1>4
  <2> QED
    BY <2>1, Zenon
<1>6. loop = Body(loop)
  BY <1>5, Zenon
<1> HIDE DEF loop
<1>7. loop[0] = 1 /\ \A k \in 1 .. n : loop[k] = 2 * loop[k - 1]
  BY <1>6
<1> DEFINE G == {k \in 0 .. n : loop[k] = f[k]}
<1>8. \A k \in 0 .. n : k \in G
  <2>1. 0 \in G
    BY <1>4, <1>7
  <2>2. ASSUME NEW k \in 0 .. n - 1, k \in G PROVE k + 1 \in G
    <3>1. k + 1 \in 1 .. n /\ k + 1 \in 0 .. n /\ (k + 1) - 1 = k
      OBVIOUS
    <3> QED
      BY <1>4, <1>7, <2>2, <3>1, Zenon
  <2> HIDE DEF G
  <2> QED
    BY <2>1, <2>2, Rounds, Zenon
<1>9. Power(n) = f[n]
  BY <1>1, <1>8
<1> HIDE DEF S
<1> QED
  BY <1>4, <1>9, Zenon DEF S

\* The doubling that Power computes.
LEMMA PowerFacts ==
  ASSUME NEW n \in Nat
  PROVE  /\ Power(n) \in Nat \ {0}
         /\ Power(0) = 1
         /\ Power(n + 1) = 2 * Power(n)
<1>1. PICK f \in [0 .. n -> Nat \ {0}] :
        f[0] = 1 /\ (\A k \in 1 .. n : f[k] = 2 * f[k - 1]) /\ Power(n) = f[n]
  BY PowerLoop, Zenon
<1>2. PICK g \in [0 .. n + 1 -> Nat \ {0}] :
        /\ g[0] = 1 /\ \A k \in 1 .. n + 1 : g[k] = 2 * g[k - 1]
        /\ Power(n + 1) = g[n + 1]
  <2>1. n + 1 \in Nat
    OBVIOUS
  <2> QED
    BY <2>1, PowerLoop, Zenon
<1>3. Power(0) = 1
  BY PowerLoop, Zenon
<1> DEFINE G == {k \in 0 .. n : f[k] = g[k]}
<1>4. \A k \in 0 .. n : k \in G
  <2>1. 0 \in G
    BY <1>1, <1>2
  <2>2. ASSUME NEW k \in 0 .. n - 1, k \in G PROVE k + 1 \in G
    <3>1. /\ k + 1 \in 1 .. n /\ k + 1 \in 0 .. n /\ (k + 1) - 1 = k
          /\ k + 1 \in 1 .. n + 1
      OBVIOUS
    <3> QED
      BY <1>1, <1>2, <2>2, <3>1, Zenon
  <2> HIDE DEF G
  <2> QED
    BY <2>1, <2>2, Rounds, Zenon
<1>5. f[n] = g[n] /\ g[n + 1] = 2 * g[n]
  <2>1. n + 1 \in 1 .. n + 1 /\ (n + 1) - 1 = n /\ n \in 0 .. n
    OBVIOUS
  <2> QED
    BY <1>2, <1>4, <2>1, Zenon
<1> QED
  BY <1>1, <1>2, <1>3, <1>5

\* Powers of two grow with the exponent, at least twofold.
LEMMA PowerGrows ==
  ASSUME NEW a \in Nat, NEW b \in Nat, a <= b
  PROVE  /\ Power(a) <= Power(b)
         /\ a < b => 2 * Power(a) <= Power(b)
<1> DEFINE G == {k \in 0 .. b : Power(a) <= Power(a + k)}
<1>1. \A k \in 0 .. b : k \in G
  <2>1. 0 \in G
    BY PowerFacts
  <2>2. ASSUME NEW k \in 0 .. b - 1, k \in G PROVE k + 1 \in G
    <3>1. Power(a + k) \in Nat /\ Power((a + k) + 1) = 2 * Power(a + k)
      <4>1. a + k \in Nat
        OBVIOUS
      <4> QED
        BY <4>1, PowerFacts, Zenon
    <3>2. (a + k) + 1 = a + (k + 1) /\ k + 1 \in 0 .. b
      OBVIOUS
    <3>3. Power(a) \in Nat /\ Power(a) <= Power(a + k)
      BY <2>2, PowerFacts, Zenon
    <3>4. Power(a) <= Power(a + (k + 1))
      BY <3>1, <3>2, <3>3
    <3> QED
      BY <3>2, <3>4, Zenon
  <2> HIDE DEF G
  <2> QED
    BY <2>1, <2>2, Rounds, Zenon
<1>2. Power(a) <= Power(b)
  <2>1. b - a \in 0 .. b /\ a + (b - a) = b
    OBVIOUS
  <2> QED
    BY <1>1, <2>1, Zenon
<1>3. ASSUME a < b PROVE 2 * Power(a) <= Power(b)
  <2> DEFINE k == b - 1 - a
  <2>1. k \in 0 .. b /\ a + k = b - 1 /\ b - 1 \in Nat /\ (b - 1) + 1 = b
    BY <1>3
  <2>2. Power(a) <= Power(b - 1)
    BY <1>1, <2>1, Zenon
  <2>3. Power(b) = 2 * Power(b - 1) /\ Power(b - 1) \in Nat /\ Power(a) \in Nat
    BY <2>1, PowerFacts, Zenon
  <2> QED
    BY <2>2, <2>3
<1> QED
  BY <1>2, <1>3, Zenon

-----------------------------------------------------------------------------
(* Least and greatest elements *)

\* A finite set of integers has a greatest element, and a least one.
LEMMA FiniteBounds ==
  ASSUME NEW S, IsFiniteSet(S), S # {}, S \subseteq Int
  PROVE  /\ \E x \in S : \A y \in S : x >= y
         /\ \E x \in S : \A y \in S : x <= y
<1> DEFINE Bounded(U) == /\ \E x \in U : \A y \in U : x >= y
                         /\ \E x \in U : \A y \in U : x <= y
           G == {n \in 0 .. Cardinality(S) :
                   \A U \in SUBSET S : Cardinality(U) = n /\ U # {} => Bounded(U)}
<1>1. Cardinality(S) \in Nat
  BY FS_CardinalityType, Zenon
<1>2. \A U \in SUBSET S : IsFiniteSet(U) /\ Cardinality(U) \in Nat
  BY FS_Subset, FS_CardinalityType, Zenon
<1>3. 0 \in G
  BY <1>1, <1>2, FS_EmptySet
<1>4. ASSUME NEW n \in 0 .. Cardinality(S) - 1, n \in G PROVE n + 1 \in G
  <2>1. ASSUME NEW U \in SUBSET S, Cardinality(U) = n + 1, U # {} PROVE Bounded(U)
    <3>1. PICK a \in U : TRUE
      BY <2>1, Zenon
    <3> DEFINE R == U \ {a}
    <3>2. R \in SUBSET S /\ Cardinality(R) = n
      <4>1. Cardinality(R) = Cardinality(U) - 1
        BY <1>2, <3>1, FS_RemoveElement, Zenon
      <4> QED
        BY <1>1, <2>1, <4>1
    <3>3. a \in Int /\ U = R \cup {a} /\ R \subseteq Int
      BY <3>1, Zenon
    <3>4. CASE R = {}
      BY <3>3, <3>4
    <3>5. CASE R # {}
      <4> HIDE DEF R, Bounded
      <4>1. Bounded(R)
        BY <1>4, <3>2, <3>5, Zenon
      <4>2. PICK x \in R : \A y \in R : x >= y
        BY <4>1, Zenon DEF Bounded
      <4>3. PICK z \in R : \A y \in R : z <= y
        BY <4>1, Zenon DEF Bounded
      <4>4. \E v \in U : \A y \in U : v >= y
        <5>1. CASE x >= a
          BY <3>3, <4>2, <5>1, Zenon
        <5>2. CASE a >= x
          BY <3>3, <4>2, <5>2
        <5> QED
          BY <3>3, <5>1, <5>2
      <4>5. \E v \in U : \A y \in U : v <= y
        <5>1. CASE z <= a
          BY <3>3, <4>3, <5>1, Zenon
        <5>2. CASE a <= z
          BY <3>3, <4>3, <5>2
        <5> QED
          BY <3>3, <5>1, <5>2
      <4> QED
        BY <4>4, <4>5, Zenon DEF Bounded
    <3> QED
      BY <3>4, <3>5, Zenon
  <2>2. n + 1 \in 0 .. Cardinality(S)
    BY <1>1
  <2> HIDE DEF Bounded
  <2> QED
    BY <2>1, <2>2, Zenon
<1>5. Cardinality(S) \in G
  <2> HIDE DEF G
  <2>1. \A k \in 0 .. Cardinality(S) : k \in G
    BY <1>1, <1>3, <1>4, Rounds, Zenon
  <2> QED
    BY <1>1, <2>1
<1> HIDE DEF Bounded
<1>6. Bounded(S)
  BY <1>5, Zenon
<1> QED
  BY <1>6, Zenon DEF Bounded

\* Min and Max choose the bounds of a finite, non-empty set of integers.
LEMMA MinMax ==
  ASSUME NEW S, IsFiniteSet(S), S # {}, S \subseteq Int
  PROVE  /\ Min(S) \in S /\ \A y \in S : Min(S) <= y
         /\ Max(S) \in S /\ \A y \in S : Max(S) >= y
<1>1. \E x \in S : \A y \in S : x >= y
  BY FiniteBounds, Zenon
<1>2. \E x \in S : \A y \in S : x =< y
  BY FiniteBounds, Zenon
<1>3. Max(S) \in S /\ \A y \in S : Max(S) >= y
  BY <1>1, Zenon DEF Max
<1>4. Min(S) \in S /\ \A y \in S : Min(S) =< y
  BY <1>2, Zenon DEF Min
<1> QED
  BY <1>3, <1>4, Zenon

\* Min and Max of two numbers, and Min of three.
LEMMA SmallSets ==
  ASSUME NEW a \in Int, NEW b \in Int, NEW c \in Int
  PROVE  /\ Min({a, b}) = IF a <= b THEN a ELSE b
         /\ Max({a, b}) = IF a >= b THEN a ELSE b
         /\ Min({a, b, c}) \in {a, b, c}
         /\ Min({a, b, c}) <= a /\ Min({a, b, c}) <= b /\ Min({a, b, c}) <= c
<1>1. IsFiniteSet({a}) /\ IsFiniteSet({a} \cup {b}) /\ IsFiniteSet(({a} \cup {b}) \cup {c})
  BY FS_Singleton, FS_AddElement, Zenon
<1>2. {a} \cup {b} = {a, b} /\ ({a} \cup {b}) \cup {c} = {a, b, c}
  BY Zenon
<1>3. IsFiniteSet({a, b}) /\ IsFiniteSet({a, b, c})
  BY <1>1, <1>2, Zenon
<1>4. /\ Min({a, b}) \in {a, b} /\ \A y \in {a, b} : Min({a, b}) <= y
      /\ Max({a, b}) \in {a, b} /\ \A y \in {a, b} : Max({a, b}) >= y
  BY <1>3, MinMax, Zenon
<1>5. Min({a, b, c}) \in {a, b, c} /\ \A y \in {a, b, c} : Min({a, b, c}) <= y
  BY <1>3, MinMax, Zenon
<1>6. Min({a, b}) = IF a <= b THEN a ELSE b
  BY <1>4
<1>7. Max({a, b}) = IF a >= b THEN a ELSE b
  BY <1>4
<1> QED
  BY <1>5, <1>6, <1>7, Zenon

\* jent_memsize() is a power of two.
LEMMA MemsizePower ==
  ASSUME NEW field \in Nat
  PROVE  /\ \E e \in Nat : Memsize(field) = Power(e)
         /\ Memsize(field) \in Nat \ {0}
<1> {MemsizeOffset, DefaultBits, MaxField} \subseteq Nat
  BY MemoryAssumption, Zenon
<1> DEFINE e == IF field = 0 THEN DefaultBits ELSE Min({field, MaxField}) + MemsizeOffset
<1>1. Min({field, MaxField}) \in Nat
  BY SmallSets
<1>2. e \in Nat
  BY <1>1
<1>3. Memsize(field) = Power(e)
  BY Zenon DEF Memsize
<1> HIDE DEF e
<1> QED
  BY <1>2, <1>3, PowerFacts, Zenon

\* The largest of one number, with zero for a negative one.
LEMMA LargestOne ==
  ASSUME NEW x \in Int
  PROVE  Largest({x}) = IF x >= 0 THEN x ELSE 0
<1>1. {x} \cup {0} = {x, 0}
  BY Zenon
<1>2. Max({x, 0}) = IF x >= 0 THEN x ELSE 0
  BY SmallSets
<1> QED
  BY <1>1, <1>2, Zenon DEF Largest

\* The field chosen from the cache size is a number.
LEMMA AutoFieldNat ==
  ASSUME NEW bits \in Nat, NEW all \in BOOLEAN
  PROVE  AutoField(bits, all) \in Nat
<1> {MemsizeOffset, DefaultBits, MaxField, MaxAuto} \subseteq Nat
  BY MemoryAssumption, Zenon
<1> DEFINE max == IF bits = 0 THEN DefaultBits ELSE IF all THEN bits ELSE bits + 2
           x == Largest({max - MemsizeOffset})
<1>1. max \in Nat
  OBVIOUS
<1>2. AutoField(bits, all) = Min({x, MaxAuto, MaxField})
  BY Zenon DEF AutoField
<1> HIDE DEF max
<1>3. x \in Nat
  BY <1>1, LargestOne
<1> HIDE DEF x
<1>4. x \in Int /\ MaxAuto \in Int /\ MaxField \in Int
  BY <1>3
<1>5. Min({x, MaxAuto, MaxField}) \in {x, MaxAuto, MaxField}
  BY <1>4, SmallSets, Zenon
<1> QED
  BY <1>2, <1>3, <1>5, Zenon

-----------------------------------------------------------------------------
(* What holds at all times *)

AllocStage ==
  {"idle", "state", "load_valid", "discover", "store_l1", "store_all",
   "store_valid", "load", "mem", "failed", "rest", "live"}

MemoryTypeOK ==
  /\ machine \in Machine
  /\ cached \in [BOOLEAN -> Nat]
  /\ pc \in [Thread -> AllocStage]
  /\ ask \in [Thread -> Ask]
  /\ extras \in [Thread -> BOOLEAN]
  /\ mem \in [Thread -> BOOLEAN]
  /\ mapped \in [Thread -> [state : Int, mem : Int]]
  /\ memmask \in [Thread -> Nat]
  /\ memlocation \in [Thread -> Nat]
  /\ walks \in [Thread -> Nat]
  /\ hits = [t \in Thread |-> hits[t]]

\* What is mapped for a thread, and who has the extras.
Accounted(t) ==
  /\ mapped[t].state = IF Holding(t) THEN Total(StateLen) ELSE 0
  /\ mapped[t].mem = IF mem[t] THEN Total(memmask[t] + 1) ELSE 0
  /\ mem[t] => pc[t] \in {"rest", "live"} /\ memmask[t] + 1 = RegionSize(t)
  /\ extras[t] => Holding(t)
  /\ Holding(t) /\ ask[t].force /\ machine.refusable => extras[t]

\* Accesses so far of the location the walk comes to in round r of w.
Visits(n, r, w) == (n + w - 1 - r) \div w

\* After n accesses of a region of w locations, the next one is where they have
\* led, and they have been to the locations in turn.
Turns(w, n, location, counts_of) ==
  /\ \E e \in Nat : w = Power(e)
  /\ location = (n * Stride) % w
  /\ DOMAIN counts_of = 0 .. w - 1
  /\ \A r \in 0 .. w - 1 : counts_of[(r * Stride) % w] = Visits(n, r, w)

InTurn(t) ==
  IF mem[t]
  THEN \E n \in Nat : Turns(memmask[t] + 1, n, memlocation[t], hits[t])
  ELSE memlocation[t] = 0 /\ walks[t] = 0 /\ DOMAIN hits[t] = {}

\* A size that jent_update_memsize() has derived is a power of two.
Sized(t) ==
  pc[t] = "mem" /\ ask[t].field = 0 => \E e \in Nat : memmask[t] + 1 = Power(e)

MemoryInv ==
  /\ MemoryTypeOK
  /\ \A t \in Thread : Accounted(t) /\ InTurn(t) /\ Sized(t)

-----------------------------------------------------------------------------
(* Allocating and freeing *)

\* A step of thread t leaves the collectors of the others alone.
Same(u) ==
  /\ pc'[u] = pc[u] /\ ask'[u] = ask[u] /\ extras'[u] = extras[u]
  /\ mem'[u] = mem[u] /\ mapped'[u] = mapped[u] /\ memmask'[u] = memmask[u]
  /\ memlocation'[u] = memlocation[u] /\ walks'[u] = walks[u] /\ hits'[u] = hits[u]

OthersSame(t) == machine' = machine /\ \A u \in Thread \ {t} : Same(u)

\* What is said of a thread still holds when a step leaves it alone.
LEMMA SameKeeps ==
  ASSUME NEW u, Same(u), machine' = machine
  PROVE  /\ Accounted(u) => Accounted(u)'
         /\ InTurn(u) => InTurn(u)'
         /\ Sized(u) => Sized(u)'
<1>1. Accounted(u) => Accounted(u)'
  BY Zenon DEF Same, Accounted, Holding, RegionSize
<1>2. InTurn(u) => InTurn(u)'
  BY Zenon DEF Same, InTurn
<1>3. Sized(u) => Sized(u)'
  BY Zenon DEF Same, Sized
<1> QED
  BY <1>1, <1>2, <1>3, Zenon

\* No thread holds anything at the start.
LEMMA MemoryInvInit == MemoryInit => MemoryInv
<1> SUFFICES ASSUME MemoryInit PROVE MemoryInv
  BY Zenon
<1>1. MemoryTypeOK
  <2>1. (CHOOSE a \in Ask : TRUE) \in Ask
    BY MemoryAssumption, Zenon
  <2> DEFINE some == CHOOSE a \in Ask : TRUE
  <2>2. ask \in [Thread -> Ask]
    <3>1. ask \in [Thread -> {some}] /\ some \in Ask
      BY <2>1, Zenon DEF MemoryInit
    <3> HIDE DEF some
    <3> QED
      BY <3>1, Zenon
  <2> QED
    BY <2>2 DEF MemoryInit, MemoryTypeOK, AllocStage
<1>2. ASSUME NEW t \in Thread PROVE Accounted(t) /\ InTurn(t) /\ Sized(t)
  <2>1. /\ pc[t] = "idle" /\ ~extras[t]
        /\ ~mem[t] /\ mapped[t] = [state |-> 0, mem |-> 0]
        /\ memlocation[t] = 0 /\ walks[t] = 0 /\ hits[t] = <<>>
    BY Zenon DEF MemoryInit
  <2>2. Accounted(t)
    BY <2>1 DEF Accounted, Holding
  <2>3. InTurn(t)
    BY <2>1 DEF InTurn
  <2>4. Sized(t)
    BY <2>1, Zenon DEF Sized
  <2> QED
    BY <2>2, <2>3, <2>4, Zenon
<1> QED
  BY <1>1, <1>2, Zenon DEF MemoryInv

\* The steps that leave what a collector has alone.
LEMMA QuietKeeps ==
  ASSUME MemoryTypeOK, NEW t \in Thread, Accounted(t), InTurn(t),
         UNCHANGED <<machine, ec_vars>>, cached' \in [BOOLEAN -> Nat],
         NEW stage \in AllocStage, pc' = [pc EXCEPT ![t] = stage],
         \/ UNCHANGED ask /\ (Holding(t) <=> stage \notin {"idle", "state"})
                          /\ (mem[t] => stage \in {"rest", "live"})
         \/ ~Holding(t) /\ stage = "state" /\ \E a \in Ask : ask' = [ask EXCEPT ![t] = a]
  PROVE  MemoryTypeOK' /\ OthersSame(t) /\ Accounted(t)' /\ InTurn(t)'
<1>1. /\ machine' = machine /\ extras' = extras /\ mapped' = mapped /\ mem' = mem
      /\ memmask' = memmask /\ memlocation' = memlocation
      /\ hits' = hits /\ walks' = walks
  BY Zenon DEF ec_vars
<1>2. pc' \in [Thread -> AllocStage] /\ ask' \in [Thread -> Ask]
  BY Zenon DEF MemoryTypeOK
<1>3. MemoryTypeOK'
  BY <1>1, <1>2, Zenon DEF MemoryTypeOK
<1>4. \A u \in Thread \ {t} : pc'[u] = pc[u] /\ ask'[u] = ask[u]
  BY Zenon DEF MemoryTypeOK
<1>5. OthersSame(t)
  BY <1>1, <1>4, Zenon DEF OthersSame, Same
<1>6. pc'[t] = stage
  BY Zenon DEF MemoryTypeOK
<1>7. Accounted(t)'
  <2>1. CASE /\ UNCHANGED ask /\ (Holding(t) <=> stage \notin {"idle", "state"})
             /\ (mem[t] => stage \in {"rest", "live"})
    BY <1>1, <1>6, <2>1, Zenon DEF Accounted, Holding, RegionSize
  <2>2. CASE ~Holding(t) /\ stage = "state"
    <3>1. ~Holding(t)' /\ ~mem[t]
      BY <1>6, <2>2, Zenon DEF Holding, Accounted
    <3> QED
      BY <1>1, <2>2, <3>1, Zenon DEF Accounted
  <2> QED
    BY <2>1, <2>2, Zenon
<1>8. InTurn(t)'
  BY <1>1, Zenon DEF InTurn
<1> QED
  BY <1>3, <1>5, <1>7, <1>8, Zenon

\* Allocating the state: it is accounted for, and the call goes on to the
\* stage its flags ask for.
LEMMA StateAllocatedKeeps ==
  ASSUME MemoryTypeOK, NEW t \in Thread, Accounted(t), InTurn(t),
         NEW answer \in Answers(t), StateAllocated(t, answer)
  PROVE  MemoryTypeOK' /\ OthersSame(t) /\ Accounted(t)' /\ InTurn(t)'
<1> StateLen \in Nat /\ Page \in Nat \ {0}
  BY MemoryAssumption, Zenon
<1> DEFINE stage == IF ~ask[t].memaccess THEN "rest"
                    ELSE IF ask[t].field = 0 THEN "load_valid" ELSE "mem"
           granted == machine.refusable /\ answer = "granted"
           total == Total(StateLen)
<1>1. /\ machine' = machine /\ ask' = ask /\ mem' = mem /\ memmask' = memmask
      /\ cached' = cached /\ memlocation' = memlocation
      /\ hits' = hits /\ walks' = walks
      /\ pc[t] = "state" /\ pc' = [pc EXCEPT ![t] = stage]
      /\ mapped' = [mapped EXCEPT ![t].state = total]
      /\ extras' = [extras EXCEPT ![t] = granted]
      /\ machine.refusable => ~FailsOn(answer, ask[t].force)
  BY Zenon DEF StateAllocated, memo_vars
<1>2. total \in Int /\ granted \in BOOLEAN /\ stage \in {"rest", "load_valid", "mem"}
  BY DEF Total
<1> HIDE DEF stage, granted, total
<1>3. /\ pc' \in [Thread -> AllocStage]
      /\ mapped' \in [Thread -> [state : Int, mem : Int]]
      /\ extras' \in [Thread -> BOOLEAN]
  BY <1>1, <1>2, Zenon DEF MemoryTypeOK, AllocStage
<1>4. MemoryTypeOK'
  BY <1>1, <1>3, Zenon DEF MemoryTypeOK
<1>5. \A u \in Thread \ {t} : pc'[u] = pc[u] /\ mapped'[u] = mapped[u] /\ extras'[u] = extras[u]
  BY <1>1, Zenon DEF MemoryTypeOK
<1>6. OthersSame(t)
  BY <1>1, <1>5, Zenon DEF OthersSame, Same
<1>7. /\ pc'[t] = stage /\ extras'[t] = granted /\ mapped'[t].state = total
      /\ mapped'[t].mem = mapped[t].mem
  BY <1>1, Zenon DEF MemoryTypeOK
<1>8. Holding(t)' /\ ~mem[t]
  BY <1>1, <1>2, <1>7, Zenon DEF Holding, Accounted
<1>9. ask[t].force /\ machine.refusable => granted
  BY <1>1, Zenon DEF FailsOn, granted, Answers
<1>10. mapped[t].mem = 0
  BY <1>8, Zenon DEF Accounted
<1>11. Accounted(t)'
  BY <1>1, <1>7, <1>8, <1>9, <1>10, Zenon DEF Accounted, total
<1>12. InTurn(t)'
  BY <1>1, Zenon DEF InTurn
<1> QED
  BY <1>4, <1>6, <1>11, <1>12, Zenon

\* An allocation of the state that fails or is refused leaves nothing mapped.
LEMMA StateRefusedKeeps ==
  ASSUME MemoryTypeOK, NEW t \in Thread, Accounted(t), InTurn(t),
         NEW answer, StateFails(t) \/ StateRefused(t, answer)
  PROVE  MemoryTypeOK' /\ OthersSame(t) /\ Accounted(t)' /\ InTurn(t)'
<1>1. /\ machine' = machine /\ ask' = ask /\ mem' = mem /\ memmask' = memmask
      /\ cached' = cached /\ memlocation' = memlocation /\ hits' = hits
      /\ walks' = walks /\ extras' = extras
      /\ pc[t] = "state" /\ pc' = [pc EXCEPT ![t] = "idle"]
      /\ mapped' = [mapped EXCEPT ![t].state = 0]
  BY Zenon DEF StateFails, StateRefused, GivenBack, memo_vars
<1>2. /\ pc' \in [Thread -> AllocStage]
      /\ mapped' \in [Thread -> [state : Int, mem : Int]]
  BY <1>1 DEF MemoryTypeOK, AllocStage
<1>3. MemoryTypeOK'
  BY <1>1, <1>2, Zenon DEF MemoryTypeOK
<1>4. \A u \in Thread \ {t} : pc'[u] = pc[u] /\ mapped'[u] = mapped[u]
  BY <1>1, Zenon DEF MemoryTypeOK
<1>5. OthersSame(t)
  BY <1>1, <1>4, Zenon DEF OthersSame, Same
<1>6. pc'[t] = "idle" /\ mapped'[t].state = 0 /\ mapped'[t].mem = mapped[t].mem
  BY <1>1, Zenon DEF MemoryTypeOK
<1>7. ~Holding(t)' /\ ~mem[t] /\ ~extras[t]
  BY <1>1, <1>6, Zenon DEF Holding, Accounted
<1>8. Accounted(t)'
  <2>1. mapped[t].mem = 0
    BY <1>7, Zenon DEF Accounted
  <2> QED
    BY <1>1, <1>6, <1>7, <2>1, Zenon DEF Accounted
<1>9. InTurn(t)'
  BY <1>1, Zenon DEF InTurn
<1> QED
  BY <1>3, <1>5, <1>8, <1>9, Zenon

\* Loading the memoized bits maps nothing.
LEMMA LoadKeeps ==
  ASSUME MemoryTypeOK, NEW t \in Thread, Accounted(t), InTurn(t), Load(t)
  PROVE  MemoryTypeOK' /\ OthersSame(t) /\ Accounted(t)' /\ InTurn(t)'
<1> DEFINE all == ask[t].all_caches
           size == Memsize(AutoField(cached[all], all))
<1>1. /\ machine' = machine /\ ask' = ask /\ mem' = mem /\ mapped' = mapped
      /\ cached' = cached /\ memlocation' = memlocation /\ hits' = hits
      /\ walks' = walks /\ extras' = extras
      /\ pc[t] = "load" /\ pc' = [pc EXCEPT ![t] = "mem"]
      /\ memmask' = [memmask EXCEPT ![t] = size - 1]
  BY Zenon DEF Load, memo_vars
<1>2. size - 1 \in Nat
  <2>1. all \in BOOLEAN /\ cached[all] \in Nat
    BY MemoryAssumption DEF MemoryTypeOK
  <2> HIDE DEF all
  <2>2. AutoField(cached[all], all) \in Nat
    BY <2>1, AutoFieldNat, Zenon
  <2>3. size \in Nat \ {0}
    BY <2>2, MemsizePower, Zenon
  <2> QED
    BY <2>3
<1> HIDE DEF size
<1>3. pc' \in [Thread -> AllocStage] /\ memmask' \in [Thread -> Nat]
  BY <1>1, <1>2, Zenon DEF MemoryTypeOK, AllocStage
<1>4. MemoryTypeOK'
  BY <1>1, <1>3, Zenon DEF MemoryTypeOK
<1>5. \A u \in Thread \ {t} : pc'[u] = pc[u] /\ memmask'[u] = memmask[u]
  BY <1>1, Zenon DEF MemoryTypeOK
<1>6. OthersSame(t)
  BY <1>1, <1>5, Zenon DEF OthersSame, Same
<1>7. pc'[t] = "mem" /\ Holding(t) /\ Holding(t)' /\ ~mem[t]
  BY <1>1, Zenon DEF MemoryTypeOK, Holding, Accounted
<1>8. Accounted(t)'
  BY <1>1, <1>7, Zenon DEF Accounted
<1>9. InTurn(t)'
  BY <1>1, <1>7, Zenon DEF InTurn
<1> QED
  BY <1>4, <1>6, <1>8, <1>9, Zenon

\* Allocating the memory region: it is accounted for under its mask.
LEMMA MemAllocatedKeeps ==
  ASSUME MemoryTypeOK, NEW t \in Thread, Accounted(t), InTurn(t),
         \E e \in Nat : RegionSize(t) = Power(e), MemAllocated(t)
  PROVE  MemoryTypeOK' /\ OthersSame(t) /\ Accounted(t)' /\ InTurn(t)'
<1> Page \in Nat \ {0} /\ BlockSize \in Nat \ {0}
  BY MemoryAssumption, Zenon
<1> DEFINE size == RegionSize(t)
           none == [i_1 \in 0 .. size - 1 |-> 0]
<1>1. /\ machine' = machine /\ ask' = ask /\ extras' = extras
      /\ cached' = cached /\ memlocation' = memlocation /\ walks' = walks
      /\ pc[t] = "mem" /\ pc' = [pc EXCEPT ![t] = "rest"]
      /\ mem' = [mem EXCEPT ![t] = TRUE]
      /\ mapped' = [mapped EXCEPT ![t].mem = Total(size)]
      /\ memmask' = [memmask EXCEPT ![t] = size - 1]
      /\ hits' = [hits EXCEPT ![t] = none]
  BY Zenon DEF MemAllocated, memo_vars
<1>2. PICK e \in Nat : size = Power(e)
  BY Zenon
<1>3. size \in Nat \ {0}
  BY <1>2, PowerFacts, Zenon
<1>4. /\ ask[t].field = 0 => RegionSize(t)' = memmask'[t] + 1
      /\ ask[t].field # 0 => RegionSize(t)' = RegionSize(t)
  BY <1>1, Zenon DEF RegionSize
<1> HIDE DEF size
<1>5. Total(size) \in Int
  BY <1>3 DEF Total
<1>6. /\ pc' \in [Thread -> AllocStage] /\ memmask' \in [Thread -> Nat]
      /\ mem' \in [Thread -> BOOLEAN]
      /\ mapped' \in [Thread -> [state : Int, mem : Int]]
  <2> DEFINE total == Total(size)
  <2>1. total \in Int /\ mapped' = [mapped EXCEPT ![t].mem = total] /\ size - 1 \in Nat
    BY <1>1, <1>3, <1>5
  <2> HIDE DEF total
  <2>2. mapped' \in [Thread -> [state : Int, mem : Int]]
    BY <2>1, Zenon DEF MemoryTypeOK
  <2>3. pc' \in [Thread -> AllocStage] /\ mem' \in [Thread -> BOOLEAN]
    BY <1>1, Zenon DEF MemoryTypeOK, AllocStage
  <2>4. memmask' \in [Thread -> Nat]
    BY <1>1, <2>1, Zenon DEF MemoryTypeOK
  <2> QED
    BY <2>2, <2>3, <2>4, Zenon
<1>7. hits' = [u \in Thread |-> hits'[u]]
  <2> HIDE DEF none
  <2> QED
    BY <1>1, Zenon DEF MemoryTypeOK
<1>8. MemoryTypeOK'
  BY <1>1, <1>6, <1>7, Zenon DEF MemoryTypeOK
<1>9. /\ pc'[t] = "rest" /\ mem'[t]
      /\ memmask'[t] = size - 1 /\ mapped'[t].mem = Total(size)
      /\ mapped'[t].state = mapped[t].state /\ hits'[t] = none
      /\ \A u \in Thread \ {t} : /\ pc'[u] = pc[u] /\ memmask'[u] = memmask[u]
                                /\ mem'[u] = mem[u] /\ mapped'[u] = mapped[u]
                                /\ hits'[u] = hits[u]
  <2> DEFINE total == Total(size)
  <2> HIDE DEF total, none
  <2> QED
    BY <1>1, Zenon DEF MemoryTypeOK, total
<1>10. OthersSame(t)
  BY <1>1, <1>9, Zenon DEF OthersSame, Same
<1>11. Holding(t) /\ Holding(t)' /\ ~mem[t]
  BY <1>1, <1>9, Zenon DEF Holding, Accounted
<1>12. memmask'[t] + 1 = size /\ RegionSize(t)' = size
  <2>1. memmask'[t] + 1 = size
    BY <1>3, <1>9
  <2> QED
    BY <1>4, <2>1, Zenon DEF size
<1>13. Accounted(t)'
  BY <1>1, <1>9, <1>11, <1>12 DEF Accounted
<1>14. Turns(size, 0, 0, none)
  <2>1. Stride \in Nat
    BY DEF Stride
  <2>2. 0 * Stride = 0 /\ 0 % size = 0
    BY <1>3, <2>1
  <2>3. DOMAIN none = 0 .. size - 1
    BY Zenon
  <2>4. ASSUME NEW r \in 0 .. size - 1
        PROVE  none[(r * Stride) % size] = Visits(0, r, size)
    <3>1. r * Stride \in Nat
      BY <1>3, <2>1
    <3>2. (r * Stride) % size \in 0 .. size - 1
      BY <1>3, <3>1
    <3>3. none[(r * Stride) % size] = 0
      BY <3>2, Zenon
    <3>4. Visits(0, r, size) = 0
      BY <1>3 DEF Visits
    <3> QED
      BY <3>3, <3>4, Zenon
  <2> HIDE DEF none
  <2> QED
    BY <1>2, <2>2, <2>3, <2>4, Zenon DEF Turns
<1>15. InTurn(t)'
  <2>1. memlocation[t] = 0 /\ walks[t] = 0
    BY <1>11, Zenon DEF InTurn
  <2> HIDE DEF none
  <2>2. /\ memmask'[t] + 1 = size /\ memlocation'[t] = 0
        /\ hits'[t] = none /\ mem'[t]
    BY <1>1, <1>9, <1>12, <2>1, Zenon
  <2>3. Turns(memmask'[t] + 1, 0, memlocation'[t], hits'[t]) /\ 0 \in Nat
    BY <1>14, <2>2
  <2> QED
    BY <2>2, <2>3, Zenon DEF InTurn
<1> QED
  BY <1>8, <1>10, <1>13, <1>15, Zenon

\* A region that cannot be allocated leaves nothing mapped, and no region.
LEMMA MemFailsKeeps ==
  ASSUME MemoryTypeOK, NEW t \in Thread, Accounted(t), InTurn(t), MemFails(t)
  PROVE  MemoryTypeOK' /\ OthersSame(t) /\ Accounted(t)' /\ InTurn(t)'
<1>1. /\ machine' = machine /\ ask' = ask /\ mem' = mem /\ memmask' = memmask
      /\ cached' = cached /\ memlocation' = memlocation /\ hits' = hits
      /\ walks' = walks /\ extras' = extras
      /\ pc[t] = "mem" /\ pc' = [pc EXCEPT ![t] = "failed"]
      /\ mapped' = [mapped EXCEPT ![t].mem = 0]
  BY Zenon DEF MemFails, GivenBack, memo_vars
<1>2. /\ pc' \in [Thread -> AllocStage]
      /\ mapped' \in [Thread -> [state : Int, mem : Int]]
  BY <1>1 DEF MemoryTypeOK, AllocStage
<1>3. MemoryTypeOK'
  BY <1>1, <1>2, Zenon DEF MemoryTypeOK
<1>4. \A u \in Thread \ {t} : pc'[u] = pc[u] /\ mapped'[u] = mapped[u]
  BY <1>1, Zenon DEF MemoryTypeOK
<1>5. OthersSame(t)
  BY <1>1, <1>4, Zenon DEF OthersSame, Same
<1>6. pc'[t] = "failed" /\ mapped'[t].mem = 0 /\ mapped'[t].state = mapped[t].state
  BY <1>1, Zenon DEF MemoryTypeOK
<1>7. Holding(t) /\ Holding(t)' /\ ~mem[t]
  BY <1>1, <1>6, Zenon DEF Holding, Accounted
<1>8. Accounted(t)'
  BY <1>1, <1>6, <1>7, Zenon DEF Accounted
<1>9. InTurn(t)'
  BY <1>1, Zenon DEF InTurn
<1> QED
  BY <1>3, <1>5, <1>8, <1>9, Zenon

\* Freeing unmaps exactly what the collector holds.
LEMMA FreedKeeps ==
  ASSUME MemoryTypeOK, NEW t \in Thread, Accounted(t), Holding(t), Freed(t)
  PROVE  MemoryTypeOK' /\ OthersSame(t) /\ Accounted(t)' /\ InTurn(t)'
<1> Page \in Nat \ {0} /\ StateLen \in Nat
  BY MemoryAssumption, Zenon
<1> DEFINE left == [state |-> mapped[t].state - Total(StateLen),
                    mem |-> IF mem[t] THEN mapped[t].mem - Total(memmask[t] + 1)
                                      ELSE mapped[t].mem]
<1>1. /\ machine' = machine /\ ask' = ask /\ cached' = cached
      /\ mapped' = [mapped EXCEPT ![t] = left]
      /\ extras' = [extras EXCEPT ![t] = FALSE]
      /\ mem' = [mem EXCEPT ![t] = FALSE]
      /\ memmask' = [memmask EXCEPT ![t] = 0]
      /\ memlocation' = [memlocation EXCEPT ![t] = 0]
      /\ hits' = [hits EXCEPT ![t] = <<>>]
      /\ walks' = [walks EXCEPT ![t] = 0]
      /\ pc' = [pc EXCEPT ![t] = "idle"]
  BY Zenon DEF Freed, memo_vars
<1>2. Total(StateLen) \in Int /\ Total(memmask[t] + 1) \in Int
  BY DEF Total, MemoryTypeOK
<1>3. left = [state |-> 0, mem |-> 0]
  BY <1>2 DEF Accounted
<1> HIDE DEF left
<1>4. MemoryTypeOK'
  <2>1. mapped' \in [Thread -> [state : Int, mem : Int]]
    BY <1>1, <1>3 DEF MemoryTypeOK
  <2>2. /\ extras' \in [Thread -> BOOLEAN] /\ mem' \in [Thread -> BOOLEAN]
        /\ pc' \in [Thread -> AllocStage]
    BY <1>1, Zenon DEF MemoryTypeOK, AllocStage
  <2>3. /\ memmask' \in [Thread -> Nat] /\ memlocation' \in [Thread -> Nat]
        /\ walks' \in [Thread -> Nat]
    BY <1>1, Zenon DEF MemoryTypeOK
  <2>4. hits' = [u \in Thread |-> hits'[u]]
    BY <1>1, Zenon DEF MemoryTypeOK
  <2> QED
    BY <1>1, <2>1, <2>2, <2>3, <2>4, Zenon DEF MemoryTypeOK
<1>5. \A u \in Thread \ {t} : Same(u)
  BY <1>1, Zenon DEF MemoryTypeOK, Same
<1>6. OthersSame(t)
  BY <1>1, <1>5, Zenon DEF OthersSame
<1>7. /\ pc'[t] = "idle" /\ ~mem'[t]
      /\ ~extras'[t] /\ mapped'[t] = [state |-> 0, mem |-> 0]
      /\ memlocation'[t] = 0 /\ walks'[t] = 0 /\ hits'[t] = <<>>
  BY <1>1, <1>3, Zenon DEF MemoryTypeOK
<1>8. Accounted(t)'
  BY <1>7 DEF Accounted, Holding
<1>9. InTurn(t)'
  BY <1>7 DEF InTurn
<1> QED
  BY <1>4, <1>6, <1>8, <1>9, Zenon

-----------------------------------------------------------------------------
(* The walk *)

\* An odd stride has an inverse modulo a power of two.
LEMMA OddInverse ==
  ASSUME NEW s \in Nat, s % 2 = 1, NEW e \in Nat
  PROVE  \E u \in Nat, q \in Int : s * u = 1 + q * Power(e)
<1> DEFINE G == {k \in 0 .. e : \E u \in Nat, q \in Int : s * u = 1 + q * Power(k)}
<1>1. 0 \in G
  <2>1. Power(0) = 1
    BY PowerFacts, Zenon
  <2>2. s * 1 = 1 + (s - 1) * 1 /\ s - 1 \in Int
    OBVIOUS
  <2> QED
    BY <2>1, <2>2
<1>2. ASSUME NEW k \in 0 .. e - 1, k \in G PROVE k + 1 \in G
  <2>0. k + 1 \in 0 .. e
    OBVIOUS
  <2> DEFINE p == Power(k)
  <2>1. p \in Nat /\ Power(k + 1) = 2 * p
    BY PowerFacts
  <2>2. PICK u \in Nat, q \in Int : s * u = 1 + q * p
    BY <1>2, Zenon
  <2> HIDE DEF p
  <2>3. CASE q % 2 = 0
    <3> DEFINE half == q \div 2
    <3>1. half \in Int /\ q = 2 * half
      BY <2>3
    <3> HIDE DEF half
    <3>2. q * p = half * (2 * p)
      BY <2>1, <3>1
    <3>3. s * u = 1 + half * Power(k + 1)
      BY <2>1, <2>2, <3>2, Zenon
    <3>4. \E v \in Nat, z \in Int : s * v = 1 + z * Power(k + 1)
      BY <3>1, <3>3, Zenon
    <3> QED
      BY <2>0, <3>4, Zenon
  <2>4. CASE q % 2 = 1
    <3> DEFINE half == (q + s) \div 2
    <3>1. half \in Int /\ q + s = 2 * half
      BY <2>4
    <3> HIDE DEF half
    <3>2. u + p \in Nat /\ s * (u + p) = s * u + s * p
      BY <2>1
    <3>3. q * p + s * p = (q + s) * p
      BY <2>1
    <3>4. (q + s) * p = half * (2 * p)
      BY <2>1, <3>1
    <3>5. s * (u + p) = 1 + half * Power(k + 1)
      <4> DEFINE x == s * u
                 y == s * p
                 z == q * p
                 v == half * (2 * p)
      <4>1. /\ x \in Int /\ y \in Int /\ z \in Int /\ v \in Int
            /\ s * (u + p) = x + y /\ x = 1 + z /\ z + y = v
        BY <2>1, <2>2, <3>1, <3>2, <3>3, <3>4
      <4> HIDE DEF x, y, z
      <4>2. s * (u + p) = 1 + v
        <5> HIDE DEF v
        <5> QED
          BY <4>1
      <4> QED
        BY <2>1, <4>2, Zenon
    <3>6. \E v \in Nat, z \in Int : s * v = 1 + z * Power(k + 1)
      BY <3>1, <3>2, <3>5, Zenon
    <3> QED
      BY <2>0, <3>6, Zenon
  <2> QED
    BY <2>3, <2>4
<1>3. e \in G
  <2> HIDE DEF G
  <2>1. \A k \in 0 .. e : k \in G
    BY <1>1, <1>2, Rounds, Zenon
  <2> QED
    BY <2>1
<1> QED
  BY <1>3, Zenon

Apart(x, y, m, w) == x = y + w * m

Congruent(x, y, w) == x % w = y % w

\* Numbers that differ by a multiple of w have the same remainder.
LEMMA SameRemainder ==
  ASSUME NEW x \in Nat, NEW y \in Nat, NEW m \in Int, NEW w \in Nat \ {0},
         Apart(x, y, m, w)
  PROVE  Congruent(x, y, w)
<1>0. x = y + w * m
  BY Zenon DEF Apart
<1> DEFINE a == x \div w
           b == y \div w
           c == x % w
           d == y % w
<1>1. a \in Nat /\ c \in 0 .. w - 1 /\ x = w * a + c
  BY Divided, Zenon
<1>2. b \in Nat /\ d \in 0 .. w - 1 /\ y = w * b + d
  BY Divided, Zenon
<1> HIDE DEF a, b, c, d
<1> DEFINE k == b + m - a
<1>3. k \in Int /\ w * k = w * b + w * m - w * a
  BY <1>1, <1>2
<1>4. c - d = w * k
  BY <1>0, <1>1, <1>2, <1>3
<1> HIDE DEF k
<1>5. k < 1 /\ k > -1
  <2>1. ASSUME k >= 1 PROVE FALSE
    <3>1. w * k >= w
      BY <1>3, <2>1
    <3> QED
      BY <1>1, <1>2, <1>3, <1>4, <3>1
  <2>2. ASSUME k <= -1 PROVE FALSE
    <3>1. w * k <= -w
      BY <1>3, <2>2
    <3> QED
      BY <1>1, <1>2, <1>3, <1>4, <3>1
  <2> QED
    BY <1>3, <2>1, <2>2
<1>6. k = 0
  BY <1>3, <1>5
<1>7. c = d
  BY <1>1, <1>2, <1>4, <1>6
<1> QED
  BY <1>7, Zenon DEF c, d, Congruent

\* Numbers with the same remainder differ by a multiple of w.
LEMMA RemainderApart ==
  ASSUME NEW x \in Nat, NEW y \in Nat, NEW w \in Nat \ {0}, x % w = y % w
  PROVE  \E m \in Int : x = y + w * m
<1> DEFINE a == x \div w
           b == y \div w
           c == x % w
<1>1. a \in Nat /\ c \in 0 .. w - 1 /\ x = w * a + c
  BY Divided, Zenon
<1>2. b \in Nat /\ y = w * b + c
  BY Divided, Zenon
<1> HIDE DEF a, b, c
<1>3. x = y + w * (a - b) /\ a - b \in Int
  BY <1>1, <1>2
<1> QED
  BY <1>3, Zenon

\* Modulo a power of two an odd stride leads from different numbers to different
\* locations.
LEMMA StrideApart ==
  ASSUME NEW s \in Nat, s % 2 = 1, NEW e \in Nat, NEW x \in Nat, NEW y \in Nat
  PROVE  Congruent(x * s, y * s, Power(e)) <=> Congruent(x, y, Power(e))
<1> DEFINE w == Power(e)
<1>1. w \in Nat \ {0}
  BY PowerFacts, Zenon
<1>2. PICK u \in Nat, q \in Int : s * u = 1 + q * w
  BY OddInverse, Zenon
<1> HIDE DEF w
<1>3. x * s \in Nat /\ y * s \in Nat
  OBVIOUS
<1>4. ASSUME (x * s) % w = (y * s) % w PROVE x % w = y % w
  <2>1. PICK m \in Int : x * s = y * s + w * m
    BY <1>1, <1>3, <1>4, RemainderApart, ZenonT(40)
  <2> DEFINE d == x - y
  <2>2. d \in Int /\ x = y + d /\ d * s = w * m
    BY <1>1, <2>1
  <2> HIDE DEF d
  <2>3. d * (s * u) = w * (m * u)
    <3>1. d * (s * u) = (d * s) * u
      BY <2>2
    <3>2. (w * m) * u = w * (m * u)
      BY <1>1
    <3> QED
      BY <2>2, <3>1, <3>2, Zenon
  <2>4. d * (1 + q * w) = d + w * (d * q)
    BY <1>1, <2>2
  <2> DEFINE k == m * u - d * q
  <2>5. k \in Int /\ w * k = w * (m * u) - w * (d * q)
    BY <1>1, <2>2
  <2>6. d = w * k
    <3> DEFINE f == w * (m * u)
               g == w * (d * q)
    <3>1. f \in Int /\ g \in Int /\ d + g = f /\ w * k = f - g
      BY <1>1, <1>2, <2>2, <2>3, <2>4, <2>5
    <3> HIDE DEF f, g, k
    <3> QED
      BY <2>2, <3>1
  <2>7. Apart(x, y, k, w)
    BY <2>2, <2>6, Zenon DEF Apart
  <2> HIDE DEF k
  <2>8. Congruent(x, y, w)
    BY <1>1, <2>5, <2>7, SameRemainder, Zenon
  <2> QED
    BY <2>8, Zenon DEF Congruent
<1>5. ASSUME x % w = y % w PROVE (x * s) % w = (y * s) % w
  <2>1. PICK m \in Int : x = y + w * m
    BY <1>1, <1>5, RemainderApart, Zenon
  <2>2. x * s = y * s + w * (m * s) /\ m * s \in Int
    BY <1>1, <2>1
  <2> DEFINE xs == x * s
             ys == y * s
             k == m * s
  <2>3. xs \in Nat /\ ys \in Nat /\ k \in Int /\ Apart(xs, ys, k, w)
    BY <1>3, <2>2, Zenon DEF Apart
  <2> HIDE DEF xs, ys, k
  <2>4. Congruent(xs, ys, w)
    BY <1>1, <2>3, SameRemainder, Zenon
  <2> QED
    BY <2>4, Zenon DEF xs, ys, Congruent
<1> QED
  BY <1>4, <1>5, Zenon DEF w, Congruent

\* ... and to every location.
LEMMA StrideReaches ==
  ASSUME NEW s \in Nat, s % 2 = 1, NEW e \in Nat, NEW l \in 0 .. Power(e) - 1
  PROVE  \E r \in 0 .. Power(e) - 1 : (r * s) % Power(e) = l
<1> DEFINE w == Power(e)
<1>1. w \in Nat \ {0}
  BY PowerFacts, Zenon
<1>2. PICK u \in Nat, q \in Int : s * u = 1 + q * w
  BY OddInverse, Zenon
<1> HIDE DEF w
<1>3. l \in Nat /\ l < w
  BY <1>1 DEF w
<1> DEFINE x == l * u
           r == x % w
<1>4. x \in Nat
  BY <1>3
<1> HIDE DEF x
<1>5. r \in 0 .. w - 1
  BY <1>1, <1>4
<1>6. r \in Nat /\ Congruent(r, x, w)
  BY <1>1, <1>4, <1>5, SmallRemainder DEF Congruent
<1> HIDE DEF r
<1>7. (r * s) % w = (x * s) % w
  <2>1. Congruent(r * s, x * s, w)
    BY <1>4, <1>6, StrideApart, Zenon DEF w
  <2> QED
    BY <2>1, Zenon DEF Congruent
<1>8. x * s = l + w * (l * q)
  <2>1. x * s = l * (s * u)
    BY <1>3 DEF x
  <2>2. l * (1 + q * w) = l + w * (l * q)
    BY <1>1, <1>3
  <2> QED
    BY <1>2, <2>1, <2>2, Zenon
<1>9. (x * s) % w = l % w
  <2> DEFINE xs == x * s
             k == l * q
  <2>1. xs \in Nat /\ k \in Int /\ Apart(xs, l, k, w)
    BY <1>3, <1>4, <1>8 DEF Apart
  <2> HIDE DEF xs, k
  <2>2. Congruent(xs, l, w)
    BY <1>1, <1>3, <2>1, SameRemainder, Zenon
  <2> QED
    BY <2>2, Zenon DEF xs, Congruent
<1>10. l % w = l
  BY <1>1, <1>3, SmallRemainder, Zenon
<1> QED
  BY <1>5, <1>7, <1>9, <1>10, Zenon DEF w

\* One more access is a visit of the location whose turn it is.
LEMMA VisitsOn ==
  ASSUME NEW n \in Nat, NEW w \in Nat \ {0}, NEW r \in 0 .. w - 1
  PROVE  /\ Visits(n, r, w) \in Nat
         /\ Visits(n, r, w) \in {n \div w, (n \div w) + 1}
         /\ Visits(n + 1, r, w) = Visits(n, r, w) + IF n % w = r THEN 1 ELSE 0
<1> DEFINE a == n \div w
           c == n % w
<1>1. a \in Nat /\ c \in 0 .. w - 1 /\ n = w * a + c
  BY Divided, Zenon
<1> HIDE DEF a, c
<1>2. ASSUME NEW b \in 0 .. w
      PROVE  (w * a + b + w - 1 - r) \div w = a + (IF b > r THEN 1 ELSE 0)
  <2> DEFINE x == w * a + b + w - 1 - r
             v == x \div w
             d == x % w
             k == v - a
  <2>1. x \in Nat
    BY <1>1
  <2>2. v \in Nat /\ d \in 0 .. w - 1 /\ x = w * v + d
    <3> HIDE DEF x
    <3> QED
      BY <2>1, Divided, Zenon
  <2> HIDE DEF v, d
  <2>3. k \in Int /\ w * k = w * v - w * a
    BY <1>1, <2>2
  <2>4. w * k = b + w - 1 - r - d
    BY <1>1, <2>2, <2>3
  <2> HIDE DEF k
  <2>5. w * k > -w /\ w * k < 2 * w
    BY <2>2, <2>4
  <2>6. k >= 0
    <3>1. ASSUME k <= -1 PROVE FALSE
      <4>1. w * k <= -w
        BY <2>3, <3>1
      <4> QED
        BY <2>3, <2>5, <4>1
    <3> QED
      BY <2>3, <3>1
  <2>7. k <= 1
    <3>1. ASSUME k >= 2 PROVE FALSE
      <4>1. w * k >= 2 * w
        BY <2>3, <3>1
      <4> QED
        BY <2>3, <2>5, <4>1
    <3> QED
      BY <2>3, <3>1
  <2>8. k = IF b > r THEN 1 ELSE 0
    <3>1. CASE k = 0
      BY <2>2, <2>4, <3>1
    <3>2. CASE k = 1
      BY <2>2, <2>4, <3>2
    <3> QED
      BY <2>3, <2>6, <2>7, <3>1, <3>2
  <2>9. v = a + k
    BY <1>1, <2>2 DEF k
  <2> QED
    BY <2>8, <2>9, Zenon DEF v
<1>3. Visits(n, r, w) = a + (IF c > r THEN 1 ELSE 0)
  BY <1>1, <1>2 DEF Visits
<1>4. Visits(n + 1, r, w) = a + (IF c + 1 > r THEN 1 ELSE 0)
  <2>1. c + 1 \in 0 .. w /\ n + 1 + w - 1 - r = w * a + (c + 1) + w - 1 - r
    BY <1>1
  <2> QED
    BY <1>2, <2>1, Zenon DEF Visits
<1>5. Visits(n, r, w) \in Nat /\ Visits(n, r, w) \in {a, a + 1}
  BY <1>1, <1>3
<1>6. Visits(n + 1, r, w) = Visits(n, r, w) + IF c = r THEN 1 ELSE 0
  BY <1>1, <1>3, <1>4
<1> QED
  BY <1>5, <1>6, Zenon DEF a, c

\* Which of m accesses, after n, come to the location of round r.
AccessesOf(n, w, r, m) == {p \in 0 .. m - 1 : (n + p) % w = r}

\* A walk of m accesses comes to a location as often as it is its turn.
LEMMA VisitsCounted ==
  ASSUME NEW n \in Nat, NEW w \in Nat \ {0}, NEW r \in 0 .. w - 1, NEW m \in Nat
  PROVE  Visits(n + m, r, w) = Visits(n, r, w) + Cardinality(AccessesOf(n, w, r, m))
<1> DEFINE A(k) == AccessesOf(n, w, r, k)
           G == {k \in 0 .. m : /\ IsFiniteSet(A(k))
                                /\ Cardinality(A(k)) \in Nat
                                /\ Visits(n + k, r, w) = Visits(n, r, w) + Cardinality(A(k))}
<1>0. Visits(n, r, w) \in Nat
  BY VisitsOn, Zenon
<1>1. 0 \in G
  <2>1. A(0) = {}
    BY DEF AccessesOf
  <2>2. IsFiniteSet(A(0)) /\ Cardinality(A(0)) = 0
    BY <2>1, FS_EmptySet, Zenon
  <2>3. n + 0 = n /\ Visits(n, r, w) = Visits(n, r, w) + 0
    BY <1>0
  <2> HIDE DEF A
  <2> QED
    BY <2>2, <2>3
<1>2. ASSUME NEW k \in 0 .. m - 1, k \in G PROVE k + 1 \in G
  <2>1. k \in Nat /\ n + k \in Nat /\ k + 1 \in 0 .. m
    OBVIOUS
  <2>2. /\ IsFiniteSet(A(k)) /\ Cardinality(A(k)) \in Nat
        /\ Visits(n + k, r, w) = Visits(n, r, w) + Cardinality(A(k))
    BY <1>2, Zenon
  <2>3. Visits(n + k + 1, r, w) = Visits(n + k, r, w) + IF (n + k) % w = r THEN 1 ELSE 0
    BY <2>1, VisitsOn, Zenon
  <2>4. n + (k + 1) = n + k + 1
    BY <2>1
  <2>5. CASE (n + k) % w = r
    <3>1. A(k + 1) = A(k) \cup {k} /\ k \notin A(k)
      BY <2>1, <2>5 DEF AccessesOf
    <3> HIDE DEF A
    <3>2. IsFiniteSet(A(k + 1)) /\ Cardinality(A(k + 1)) = Cardinality(A(k)) + 1
      BY <2>2, <3>1, FS_AddElement
    <3>3. Visits(n + (k + 1), r, w) = Visits(n, r, w) + Cardinality(A(k + 1))
      BY <1>0, <2>2, <2>3, <2>4, <2>5, <3>2
    <3> QED
      BY <2>1, <2>2, <3>2, <3>3
  <2>6. CASE (n + k) % w # r
    <3>1. A(k + 1) = A(k)
      BY <2>1, <2>6 DEF AccessesOf
    <3> HIDE DEF A
    <3>3. Visits(n + (k + 1), r, w) = Visits(n, r, w) + Cardinality(A(k + 1))
      BY <1>0, <2>2, <2>3, <2>4, <2>6, <3>1
    <3> QED
      BY <2>1, <2>2, <3>1, <3>3, Zenon
  <2> QED
    BY <2>5, <2>6, Zenon
<1>3. m \in G
  <2> HIDE DEF G
  <2>1. \A k \in 0 .. m : k \in G
    BY <1>1, <1>2, Rounds, Zenon
  <2> QED
    BY <2>1
<1> QED
  BY <1>3, Zenon

\* Where the walk is after p more accesses, and what it has counted at its end.
WalkedTo(w, location, p) == (location + p * Stride) % w

WalkedOn(w, location, counts_of, loops) ==
  [l \in DOMAIN counts_of |->
     counts_of[l]
       + Cardinality({p \in 0 .. loops - 1 : WalkedTo(w, location, p) = l})]

\* A walk goes on in turn.
LEMMA TurnsOn ==
  ASSUME NEW w, NEW n \in Nat, NEW location \in Nat, NEW counts_of, NEW loops \in Nat,
         Turns(w, n, location, counts_of)
  PROVE  Turns(w, n + loops, WalkedTo(w, location, loops),
               WalkedOn(w, location, counts_of, loops))
<1> DEFINE s == Stride
           at(p) == (location + p * s) % w
           on == [l \in DOMAIN counts_of |->
                    counts_of[l] + Cardinality({p \in 0 .. loops - 1 : at(p) = l})]
<1>1. s \in Nat /\ s % 2 = 1
  BY MemoryAssumption DEF Stride
<1>2. PICK e \in Nat : w = Power(e)
  BY Zenon DEF Turns
<1>3. w \in Nat \ {0}
  BY <1>2, PowerFacts, Zenon
<1>4. /\ location = (n * s) % w /\ DOMAIN counts_of = 0 .. w - 1
      /\ \A r \in 0 .. w - 1 : counts_of[(r * s) % w] = Visits(n, r, w)
  BY Zenon DEF Turns
<1>5. loops \in Nat
  BY Zenon
<1> HIDE DEF s
<1>6. ASSUME NEW p \in Nat PROVE at(p) = ((n + p) * s) % w
  <2> DEFINE ns == n * s
             si == p * s
             a == ns \div w
  <2>1. ns \in Nat /\ si \in Nat /\ (n + p) * s = ns + si
    BY <1>1
  <2>2. a \in Nat /\ location \in Nat /\ ns = w * a + location
    <3>1. location = ns % w
      BY <1>4, Zenon
    <3>2. ns \in Nat
      BY <2>1, Zenon
    <3> HIDE DEF ns, si
    <3>3. ns \div w \in Nat /\ ns = w * (ns \div w) + (ns % w)
      BY <1>3, <3>2, Divided, Zenon
    <3> HIDE DEF a
    <3>4. a = ns \div w
      BY Zenon DEF a
    <3> QED
      BY <3>1, <3>3, <3>4, Zenon
  <2> HIDE DEF a, ns, si
  <2>3. Apart(ns + si, location + si, a, w) /\ ns + si \in Nat /\ location + si \in Nat
    BY <1>3, <2>1, <2>2 DEF Apart
  <2>4. a \in Int
    BY <2>2
  <2>5. Congruent(ns + si, location + si, w)
    BY <1>3, <2>3, <2>4, SameRemainder, Zenon
  <2> QED
    BY <2>1, <2>5, Zenon DEF Congruent, si
<1>7. ASSUME NEW r \in 0 .. w - 1, NEW p \in Nat
      PROVE  at(p) = (r * s) % w <=> (n + p) % w = r
  <2>1. r \in Nat /\ n + p \in Nat /\ r % w = r
    BY <1>3, SmallRemainder
  <2>2. Congruent((n + p) * s, r * s, Power(e)) <=> Congruent(n + p, r, Power(e))
    BY <1>1, <2>1, StrideApart, Zenon
  <2>3. Congruent((n + p) * s, r * s, w) <=> Congruent(n + p, r, w)
    BY <1>2, <2>2, Zenon
  <2> HIDE DEF at
  <2> QED
    BY <1>6, <2>1, <2>3, Zenon DEF Congruent
<1>8. at(loops) = ((n + loops) * s) % w
  BY <1>5, <1>6, Zenon
<1>9. DOMAIN on = 0 .. w - 1
  BY <1>4, Zenon
<1>10. ASSUME NEW r \in 0 .. w - 1
       PROVE  on[(r * s) % w] = Visits(n + loops, r, w)
  <2> DEFINE l == (r * s) % w
             A == {p \in 0 .. loops - 1 : at(p) = l}
             B == AccessesOf(n, w, r, loops)
  <2>1. l \in 0 .. w - 1
    <3> DEFINE rs == r * s
    <3>1. rs \in Nat
      BY <1>1, <1>3
    <3> HIDE DEF rs
    <3>2. rs % w \in 0 .. w - 1
      BY <1>3, <3>1
    <3> QED
      BY <3>2, Zenon DEF rs
  <2>2. A = B
    <3>1. \A p \in 0 .. loops - 1 : p \in Nat
      BY <1>5
    <3>2. \A p \in 0 .. loops - 1 : at(p) = l <=> (n + p) % w = r
      BY <1>7, <3>1, Zenon
    <3> HIDE DEF at, l
    <3> QED
      BY <3>2, Zenon DEF AccessesOf
  <2>3. on[l] = counts_of[l] + Cardinality(A)
    <3> HIDE DEF at, l
    <3> QED
      BY <1>4, <2>1, Zenon
  <2>4. counts_of[l] = Visits(n, r, w)
    BY <1>4, Zenon
  <2>5. Visits(n + loops, r, w) = Visits(n, r, w) + Cardinality(B)
    BY <1>3, <1>5, VisitsCounted, Zenon
  <2> HIDE DEF A, B, at, on
  <2> QED
    BY <2>2, <2>3, <2>4, <2>5, Zenon
<1> HIDE DEF at, on
<1>11. Turns(w, n + loops, at(loops), on)
  BY <1>2, <1>8, <1>9, <1>10, Zenon DEF Turns, s
<1> QED
  BY <1>11, Zenon DEF at, on, s, WalkedTo, WalkedOn

\* jent_memaccess_deterministic(): the locations are come to in turn.
LEMMA WalkKeeps ==
  ASSUME NEW t \in Thread, MemoryTypeOK,
         \A u \in Thread : Accounted(u) /\ InTurn(u),
         NEW loops \in Nat, Walk(t, loops)
  PROVE  MemoryTypeOK' /\ \A u \in Thread : Accounted(u)' /\ InTurn(u)'
<1> DEFINE w == memmask[t] + 1
           at(p) == WalkedTo(w, memlocation[t], p)
           on == WalkedOn(w, memlocation[t], hits[t], loops)
<1>1. /\ pc[t] = "live" /\ mem[t]
      /\ walks' = [walks EXCEPT ![t] = @ + 1]
      /\ memlocation' = [memlocation EXCEPT ![t] = at(loops)]
      /\ hits' = [hits EXCEPT ![t] = on]
      /\ machine' = machine /\ cached' = cached /\ pc' = pc /\ ask' = ask
      /\ extras' = extras /\ mapped' = mapped /\ mem' = mem /\ memmask' = memmask
  BY Zenon DEF Walk, memo_vars, WalkedTo, WalkedOn
<1>2. /\ walks[t] \in Nat /\ memlocation[t] \in Nat /\ memmask[t] \in Nat
      /\ hits = [u \in Thread |-> hits[u]]
      /\ walks \in [Thread -> Nat] /\ memlocation \in [Thread -> Nat]
  BY MemoryAssumption, Zenon DEF MemoryTypeOK
<1>3. PICK n \in Nat : Turns(w, n, memlocation[t], hits[t])
  BY <1>1, Zenon DEF InTurn
<1>4. n + loops \in Nat
  OBVIOUS
<1>5. Turns(w, n + loops, at(loops), on)
  <2> HIDE DEF w
  <2> QED
    BY <1>2, <1>3, TurnsOn, Zenon
<1>6. at(loops) \in Nat
  <2> DEFINE x == memlocation[t] + loops * Stride
  <2>1. x \in Nat
    BY <1>2, MemoryAssumption DEF Stride
  <2> HIDE DEF x
  <2>2. x % w \in Nat
    BY <1>2, <2>1
  <2> QED
    BY <2>2, Zenon DEF x, WalkedTo
<1> HIDE DEF at, on
<1>7. /\ walks'[t] = walks[t] + 1 /\ memlocation'[t] = at(loops) /\ hits'[t] = on
      /\ \A u \in Thread \ {t} : /\ walks'[u] = walks[u]
                                 /\ memlocation'[u] = memlocation[u]
                                 /\ hits'[u] = hits[u]
  BY <1>1, <1>2, Zenon
<1>8. MemoryTypeOK'
  <2>1. /\ walks' \in [Thread -> Nat] /\ memlocation' \in [Thread -> Nat]
        /\ hits' = [u \in Thread |-> hits'[u]]
    BY <1>1, <1>2, <1>6
  <2> QED
    BY <1>1, <2>1, Zenon DEF MemoryTypeOK
<1>9. InTurn(t)'
  <2>1. Turns(memmask'[t] + 1, n + loops, memlocation'[t], hits'[t])
    BY <1>1, <1>5, <1>7, Zenon
  <2> QED
    BY <1>1, <1>4, <2>1, Zenon DEF InTurn
<1>10. ASSUME NEW u \in Thread \ {t} PROVE InTurn(u)'
  BY <1>1, <1>7, Zenon DEF InTurn
<1>11. ASSUME NEW u \in Thread PROVE Accounted(u)'
  BY <1>1, Zenon DEF Accounted, Holding, RegionSize
<1> QED
  BY <1>8, <1>9, <1>10, <1>11, Zenon

\* A walk makes a number of accesses.
LEMMA LoopsNat ==
  ASSUME NEW loop_cnt \in LoopCount, NEW startup \in BOOLEAN
  PROVE  Loops(loop_cnt, startup) \in Nat
<1>1. loop_cnt \in Nat /\ MemLoops \in Nat /\ LoopInit \in Nat
  BY MemoryAssumption, Zenon
<1> QED
  BY <1>1 DEF Loops

\* The number of bits of a size is a number.
LEMMA SizeBitsNat ==
  ASSUME NEW size
  PROVE  SizeBits(size) \in Nat
<1> DEFINE S == {b \in 1 .. SizeWidth - 1 : size >= Power(b)}
<1>1. IsFiniteSet(1 .. SizeWidth - 1)
  BY DiscoveryAssumption, FS_Interval
<1>2. S \subseteq 1 .. SizeWidth - 1
  BY Zenon
<1> HIDE DEF S
<1>3. IsFiniteSet(S)
  BY <1>1, <1>2, FS_Subset, Zenon
<1>4. Cardinality(S) \in Nat
  BY <1>3, FS_CardinalityType, Zenon
<1> QED
  BY <1>4, Zenon DEF S, SizeBits

\* The region about to be allocated is a power of two.
LEMMA RegionPower ==
  ASSUME MemoryTypeOK, NEW t \in Thread, Sized(t), pc[t] = "mem"
  PROVE  \E e \in Nat : RegionSize(t) = Power(e)
<1>1. CASE ask[t].field = 0
  BY <1>1, Zenon DEF Sized, RegionSize
<1>2. CASE ask[t].field # 0
  <2>1. ask[t].field \in Nat
    BY MemoryAssumption DEF MemoryTypeOK
  <2> QED
    BY <1>2, <2>1, MemsizePower, Zenon DEF RegionSize
<1> QED
  BY <1>1, <1>2, Zenon

\* What a step of thread t has to show.
StepKeeps(t) ==
  MemoryTypeOK' /\ OthersSame(t) /\ Accounted(t)' /\ InTurn(t)' /\ Sized(t)'

\* Every step keeps the invariant.
LEMMA MemoryInvStep == MemoryInv /\ [MemoryNext]_memory_vars => MemoryInv'
<1> SUFFICES ASSUME MemoryInv, [MemoryNext]_memory_vars PROVE MemoryInv'
  BY Zenon
<1>1. MemoryTypeOK /\ \A u \in Thread : Accounted(u) /\ InTurn(u) /\ Sized(u)
  BY Zenon DEF MemoryInv
<1>2. pc \in [Thread -> AllocStage] /\ cached \in [BOOLEAN -> Nat]
  BY <1>1, Zenon DEF MemoryTypeOK
<1>3. ASSUME NEW t \in Thread, StepKeeps(t) PROVE MemoryInv'
  <2>1. ASSUME NEW u \in Thread \ {t} PROVE Accounted(u)' /\ InTurn(u)' /\ Sized(u)'
    <3>1. Same(u) /\ machine' = machine
      BY <1>3, Zenon DEF StepKeeps, OthersSame
    <3> QED
      BY <1>1, <3>1, SameKeeps, Zenon
  <2> QED
    BY <1>3, <2>1, Zenon DEF StepKeeps, MemoryInv
<1>4. ASSUME NEW t \in Thread, NEW a \in Ask, AllocCall(t, a) PROVE MemoryInv'
  <2>1. /\ pc[t] = "idle" /\ pc' = [pc EXCEPT ![t] = "state"]
        /\ ask' = [ask EXCEPT ![t] = a] /\ UNCHANGED <<machine, ec_vars>>
        /\ cached' = cached
    BY <1>4, Zenon DEF AllocCall, memo_vars
  <2>2. MemoryTypeOK' /\ OthersSame(t) /\ Accounted(t)' /\ InTurn(t)'
    BY <1>1, <1>2, <2>1, QuietKeeps, Zenon DEF Holding, AllocStage
  <2>3. Sized(t)'
    BY <1>2, <2>1, Zenon DEF Sized
  <2> QED
    BY <1>3, <2>2, <2>3, Zenon DEF StepKeeps
<1>5. ASSUME NEW t \in Thread, NEW answer \in Answers(t), StateAllocated(t, answer)
      PROVE  MemoryInv'
  <2>1. MemoryTypeOK' /\ OthersSame(t) /\ Accounted(t)' /\ InTurn(t)'
    BY <1>1, <1>5, StateAllocatedKeeps, Zenon
  <2>2. Sized(t)'
    BY <1>2, <1>5, Zenon DEF Sized, StateAllocated
  <2> QED
    BY <1>3, <2>1, <2>2, Zenon DEF StepKeeps
<1>6. ASSUME NEW t \in Thread, NEW answer \in Answers(t), StateRefused(t, answer)
      PROVE  MemoryInv'
  <2>1. MemoryTypeOK' /\ OthersSame(t) /\ Accounted(t)' /\ InTurn(t)'
    BY <1>1, <1>6, StateRefusedKeeps, Zenon
  <2>2. Sized(t)'
    BY <1>2, <1>6, Zenon DEF Sized, StateRefused
  <2> QED
    BY <1>3, <2>1, <2>2, Zenon DEF StepKeeps
<1>7. ASSUME NEW t \in Thread, StateFails(t) PROVE MemoryInv'
  <2>1. MemoryTypeOK' /\ OthersSame(t) /\ Accounted(t)' /\ InTurn(t)'
    BY <1>1, <1>7, StateRefusedKeeps, Zenon
  <2>2. Sized(t)'
    BY <1>2, <1>7, Zenon DEF Sized, StateFails
  <2> QED
    BY <1>3, <2>1, <2>2, Zenon DEF StepKeeps
<1>8. ASSUME NEW t \in Thread,
             LoadValid(t) \/ StoreValid(t) \/ \E core \in Core : Discover(t, core)
      PROVE  MemoryInv'
  <2>1. PICK stage \in {"load", "discover", "store_l1"} :
          /\ pc[t] \in {"load_valid", "discover", "store_valid"}
          /\ pc' = [pc EXCEPT ![t] = stage]
          /\ ask' = ask /\ UNCHANGED <<machine, ec_vars>> /\ cached' = cached
    BY <1>8 DEF LoadValid, StoreValid, Discover, StoreOrder, memo_vars
  <2>2. ~mem[t]
    BY <1>1, <2>1, Zenon DEF Accounted
  <2>3. MemoryTypeOK' /\ OthersSame(t) /\ Accounted(t)' /\ InTurn(t)'
    BY <1>1, <1>2, <2>1, <2>2, QuietKeeps, Zenon DEF Holding, AllocStage
  <2>4. Sized(t)'
    BY <1>2, <2>1, Zenon DEF Sized
  <2> QED
    BY <1>3, <2>3, <2>4, Zenon DEF StepKeeps
<1>9. ASSUME NEW t \in Thread, Store(t) PROVE MemoryInv'
  <2>1. PICK stage \in {"store_all", "store_valid"} :
          /\ pc[t] \in {"store_l1", "store_all"} /\ pc' = [pc EXCEPT ![t] = stage]
          /\ ask' = ask /\ UNCHANGED <<machine, ec_vars>>
    <3>1. /\ pc[t] \in {"store_l1", "store_all"}
          /\ pc' = [pc EXCEPT ![t] = StoreOrder[pc[t]]]
          /\ ask' = ask /\ UNCHANGED <<machine, ec_vars>>
      BY <1>9, Zenon DEF Store
    <3>2. StoreOrder["store_l1"] = "store_all" /\ StoreOrder["store_all"] = "store_valid"
      BY Zenon DEF StoreOrder
    <3>3. StoreOrder[pc[t]] \in {"store_all", "store_valid"}
      BY <3>1, <3>2, Zenon
    <3> QED
      BY <3>1, <3>3, Zenon
  <2>2. cached' \in [BOOLEAN -> Nat]
    <3> DEFINE all == pc[t] = "store_all"
               bits == SizeBits(RoundupFromSizes(found[t], all))
    <3>1. bits \in Nat
      BY SizeBitsNat, Zenon
    <3>2. cached' = [cached EXCEPT ![all] = bits]
      BY <1>9, Zenon DEF Store
    <3> HIDE DEF bits, all
    <3> QED
      BY <1>2, <3>1, <3>2, Zenon
  <2>3. ~mem[t]
    BY <1>1, <2>1, Zenon DEF Accounted
  <2>4. MemoryTypeOK' /\ OthersSame(t) /\ Accounted(t)' /\ InTurn(t)'
    BY <1>1, <1>2, <2>1, <2>2, <2>3, QuietKeeps, Zenon DEF Holding, AllocStage
  <2>5. Sized(t)'
    BY <1>2, <2>1, Zenon DEF Sized
  <2> QED
    BY <1>3, <2>4, <2>5, Zenon DEF StepKeeps
<1>10. ASSUME NEW t \in Thread, Load(t) PROVE MemoryInv'
  <2> DEFINE all == ask[t].all_caches
             field == AutoField(cached[all], all)
             size == Memsize(field)
  <2>1. MemoryTypeOK' /\ OthersSame(t) /\ Accounted(t)' /\ InTurn(t)'
    BY <1>1, <1>10, LoadKeeps, Zenon
  <2>2. all \in BOOLEAN /\ cached[all] \in Nat
    BY <1>1, MemoryAssumption DEF MemoryTypeOK
  <2>3. field \in Nat
    BY <2>2, AutoFieldNat, Zenon
  <2> HIDE DEF field
  <2>4. size \in Nat /\ \E e \in Nat : size = Power(e)
    BY <2>3, MemsizePower, Zenon
  <2> HIDE DEF size
  <2>5. memmask' = [memmask EXCEPT ![t] = size - 1]
    BY <1>10, Zenon DEF Load, size, field
  <2>6. memmask'[t] + 1 = size
    BY <1>1, <2>4, <2>5 DEF MemoryTypeOK
  <2>7. Sized(t)'
    BY <2>4, <2>6, Zenon DEF Sized
  <2> QED
    BY <1>3, <2>1, <2>7, Zenon DEF StepKeeps
<1>11. ASSUME NEW t \in Thread, MemAllocated(t) PROVE MemoryInv'
  <2>1. \E e \in Nat : RegionSize(t) = Power(e)
    BY <1>1, <1>11, RegionPower, Zenon DEF MemAllocated
  <2>2. MemoryTypeOK' /\ OthersSame(t) /\ Accounted(t)' /\ InTurn(t)'
    BY <1>1, <1>11, <2>1, MemAllocatedKeeps, Zenon
  <2>3. pc' = [pc EXCEPT ![t] = "rest"]
    BY <1>11, Zenon DEF MemAllocated
  <2>4. Sized(t)'
    BY <1>2, <2>3, Zenon DEF Sized
  <2> QED
    BY <1>3, <2>2, <2>4, Zenon DEF StepKeeps
<1>12. ASSUME NEW t \in Thread, AllocFails(t) \/ Free(t) PROVE MemoryInv'
  <2>1. Freed(t) /\ Holding(t)
    BY <1>12, Zenon DEF AllocFails, Free, Holding
  <2>2. MemoryTypeOK' /\ OthersSame(t) /\ Accounted(t)' /\ InTurn(t)'
    BY <1>1, <2>1, FreedKeeps, Zenon
  <2>3. pc' = [pc EXCEPT ![t] = "idle"]
    BY <2>1, Zenon DEF Freed
  <2>4. Sized(t)'
    BY <1>2, <2>3, Zenon DEF Sized
  <2> QED
    BY <1>3, <2>2, <2>4, Zenon DEF StepKeeps
<1>13. ASSUME NEW t \in Thread, AllocDone(t) PROVE MemoryInv'
  <2>1. /\ pc[t] = "rest" /\ pc' = [pc EXCEPT ![t] = "live"]
        /\ ask' = ask /\ UNCHANGED <<machine, ec_vars>> /\ cached' = cached
    BY <1>13, Zenon DEF AllocDone, memo_vars
  <2>2. MemoryTypeOK' /\ OthersSame(t) /\ Accounted(t)' /\ InTurn(t)'
    BY <1>1, <1>2, <2>1, QuietKeeps, Zenon DEF Holding, AllocStage
  <2>3. Sized(t)'
    BY <1>2, <2>1, Zenon DEF Sized
  <2> QED
    BY <1>3, <2>2, <2>3, Zenon DEF StepKeeps
<1>14. ASSUME NEW t \in Thread, NEW loop_cnt \in LoopCount, NEW startup \in BOOLEAN,
              Walk(t, Loops(loop_cnt, startup))
       PROVE  MemoryInv'
  <2>1. MemoryTypeOK' /\ \A u \in Thread : Accounted(u)' /\ InTurn(u)'
    BY <1>1, <1>14, LoopsNat, WalkKeeps, Zenon
  <2>2. \A u \in Thread : Sized(u)'
    BY <1>1, <1>14, Zenon DEF Walk, Sized
  <2> QED
    BY <2>1, <2>2, Zenon DEF MemoryInv
<1>15. ASSUME NEW t \in Thread, MemFails(t) PROVE MemoryInv'
  <2>1. MemoryTypeOK' /\ OthersSame(t) /\ Accounted(t)' /\ InTurn(t)'
    BY <1>1, <1>15, MemFailsKeeps, Zenon
  <2>2. Sized(t)'
    BY <1>2, <1>15, Zenon DEF Sized, MemFails
  <2> QED
    BY <1>3, <2>1, <2>2, Zenon DEF StepKeeps
<1>16. CASE UNCHANGED memory_vars
  <2>1. /\ UNCHANGED <<machine, pc, ask, extras, mapped, mem, memmask, memlocation, hits, walks>>
        /\ cached' = cached
    BY <1>16, Zenon DEF memory_vars, ec_vars, memo_vars
  <2>2. \A u \in Thread : Same(u)
    BY <2>1, Zenon DEF Same
  <2>3. MemoryTypeOK'
    BY <1>1, <2>1, Zenon DEF MemoryTypeOK
  <2>4. \A u \in Thread : Accounted(u)' /\ InTurn(u)' /\ Sized(u)'
    BY <1>1, <2>1, <2>2, SameKeeps, Zenon
  <2> QED
    BY <2>3, <2>4, Zenon DEF MemoryInv
<1> QED
  BY <1>4, <1>5, <1>6, <1>7, <1>8, <1>9, <1>10, <1>11, <1>12, <1>13, <1>14, <1>15,
     <1>16, Zenon DEF MemoryNext

\* In every state of a run the pages of each thread are accounted for, its call
\* is in its turn, and the region it is about to map is a power of two
\* (jent_entropy_collector_alloc, jent_entropy_collector_free).
LEMMA MemoryInvAlways == MemorySpec => []MemoryInv
  BY MemoryInvInit, MemoryInvStep, PTL DEF MemorySpec

\* Every page is accounted for on every path of
\* jent_entropy_collector_alloc_internal() and jent_entropy_collector_free(),
\* whatever the platform refuses, for any number of threads.
THEOREM EveryPageAccounted == MemorySpec => []MemoryAccounted
<1>1. MemoryInv => MemoryAccounted
  <2> SUFFICES ASSUME MemoryInv, NEW t \in Thread
               PROVE  /\ mapped[t].state = IF Holding(t) THEN Total(StateLen) ELSE 0
                      /\ mapped[t].mem = IF mem[t] THEN Total(RegionSize(t)) ELSE 0
                      /\ mem[t] => Holding(t)
                      /\ extras[t] => Holding(t)
                      /\ Holding(t) /\ ask[t].force /\ machine.refusable => extras[t]
    BY Zenon DEF MemoryAccounted
  <2>1. Accounted(t)
    BY Zenon DEF MemoryInv
  <2>2. mem[t] => Holding(t)
    BY <2>1, Zenon DEF Accounted, Holding
  <2> QED
    BY <2>1, <2>2, Zenon DEF Accounted
<1> QED
  BY <1>1, MemoryInvAlways, PTL

\* The walk of jent_memaccess_deterministic() comes to every location of the
\* region before it comes to one again, for every size of the region that
\* jent_memsize() can give and every number of accesses of a measurement: the
\* stride is odd and the size a power of two.
THEOREM WalkHitsEvenly == MemorySpec => []HitEvenly
<1>1. MemoryInv => HitEvenly
  <2> SUFFICES ASSUME MemoryInv, NEW t \in Thread,
                      NEW k \in DOMAIN hits[t], NEW l \in DOMAIN hits[t]
               PROVE  hits[t][k] <= hits[t][l] + 1
    BY Zenon DEF HitEvenly
  <2> DEFINE w == memmask[t] + 1
  <2>1. InTurn(t) /\ MemoryTypeOK
    BY Zenon DEF MemoryInv
  <2>2. mem[t]
    BY <2>1, Zenon DEF InTurn
  <2>3. PICK n \in Nat : Turns(w, n, memlocation[t], hits[t])
    BY <2>1, <2>2, Zenon DEF InTurn
  <2> HIDE DEF w
  <2>4. PICK e \in Nat : w = Power(e)
    BY <2>3, Zenon DEF Turns
  <2>5. w \in Nat \ {0}
    BY <2>4, PowerFacts, Zenon
  <2>6. Stride \in Nat /\ Stride % 2 = 1
    BY MemoryAssumption DEF Stride
  <2>7. ASSUME NEW p \in DOMAIN hits[t]
        PROVE  hits[t][p] \in {n \div w, (n \div w) + 1}
    <3>1. p \in 0 .. Power(e) - 1
      BY <2>3, <2>4, Zenon DEF Turns
    <3>2. PICK r \in 0 .. Power(e) - 1 : (r * Stride) % Power(e) = p
      BY <2>6, <3>1, StrideReaches, Zenon
    <3>3. r \in 0 .. w - 1 /\ hits[t][p] = Visits(n, r, w)
      BY <2>3, <2>4, <3>2, Zenon DEF Turns
    <3>4. Visits(n, r, w) \in {n \div w, (n \div w) + 1}
      BY <2>3, <2>5, <3>3, VisitsOn, Zenon
    <3> QED
      BY <3>3, <3>4, Zenon
  <2>8. n \div w \in Nat
    BY <2>3, <2>5, Divided, Zenon
  <2> DEFINE a == n \div w
  <2>9. hits[t][k] \in {a, a + 1} /\ hits[t][l] \in {a, a + 1} /\ a \in Nat
    BY <2>7, <2>8, Zenon
  <2> HIDE DEF a
  <2>10. \A x, y \in {a, a + 1} : x <= y + 1
    <3>1. \A b \in Nat : \A x, y \in {b, b + 1} : x <= y + 1
      OBVIOUS
    <3> QED
      BY <2>9, <3>1, Zenon
  <2> QED
    BY <2>9, <2>10, Zenon
<1> QED
  BY <1>1, MemoryInvAlways, PTL

-----------------------------------------------------------------------------
(* The cascade of jent_cache_roundup_from_sizes() *)

\* The place of the highest bit that is set.
LEMMA HighestBit ==
  ASSUME NEW x \in Nat \ {0}, NEW n \in Nat, x < Power(n)
  PROVE  \E h \in 0 .. n - 1 : Power(h) <= x /\ x < Power(h + 1)
<1> DEFINE T == {k \in Nat : x < Power(k)}
<1>1. T \subseteq Nat /\ n \in T
  BY Zenon
<1>2. PICK k \in T : \A j \in T : k <= j
  <2> HIDE DEF T
  <2> QED
    BY <1>1, LeastExists, Zenon
<1>3. k # 0
  BY PowerFacts
<1> DEFINE h == k - 1
<1>4. h \in Nat /\ h + 1 = k /\ h \in 0 .. n - 1 /\ h \notin T
  BY <1>1, <1>2, <1>3
<1>5. Power(h) \in Nat /\ x < Power(h + 1)
  BY <1>2, <1>4, PowerFacts, Zenon
<1>6. Power(h) <= x
  BY <1>4, <1>5
<1> QED
  BY <1>4, <1>5, <1>6, Zenon

\* Of the bits up to h, the upper m at least are set, and no others.
Topped(bits, h, m) ==
  /\ bits \subseteq 0 .. h
  /\ \A b \in 0 .. h : b > h - m => b \in bits

\* The highest bit of a number between two powers of two.
LEMMA BitsTopped ==
  ASSUME NEW x \in Nat, NEW h \in 0 .. SizeWidth - 1, Power(h) <= x, x < Power(h + 1)
  PROVE  Topped(Bits(x), h, 1)
<1> SizeWidth \in Nat
  BY DiscoveryAssumption
<1>1. h \in Nat /\ Power(h) \in Nat \ {0} /\ Power(h + 1) = 2 * Power(h)
  BY PowerFacts
<1>2. x \div Power(h) = 1
  <2> DEFINE p == Power(h)
             v == x \div p
             d == x % p
  <2>1. v \in Nat /\ d \in 0 .. p - 1 /\ x = p * v + d
    BY <1>1, Divided, Zenon
  <2> HIDE DEF v, d
  <2>2. v # 0
    BY <1>1, <2>1
  <2>3. ~ (v >= 2)
    <3>1. ASSUME v >= 2 PROVE p * v >= p * 2
      BY <1>1, <2>1, <3>1
    <3> QED
      BY <1>1, <2>1, <3>1
  <2>4. v = 1
    BY <2>1, <2>2, <2>3
  <2> QED
    BY <2>4, Zenon DEF v
<1>3. h \in Bits(x)
  BY <1>2 DEF Bits
<1>4. ASSUME NEW b \in 0 .. SizeWidth - 1, b > h PROVE b \notin Bits(x)
  <2>1. Power(b) \in Nat \ {0} /\ Power(h + 1) <= Power(b)
    <3>1. b \in Nat /\ h + 1 \in Nat /\ h + 1 <= b
      BY <1>1, <1>4
    <3> QED
      BY <3>1, PowerFacts, PowerGrows, Zenon
  <2> DEFINE p == Power(b)
  <2>2. x < p /\ p \in Nat \ {0}
    BY <1>1, <2>1
  <2> HIDE DEF p
  <2>3. x \div p = 0
    BY <2>2
  <2>4. (x \div p) % 2 = 0
    BY <2>3
  <2> QED
    BY <2>4 DEF Bits, p
<1>5. Bits(x) \subseteq 0 .. h
  <2>1. Bits(x) \subseteq 0 .. SizeWidth - 1
    BY Zenon DEF Bits
  <2> QED
    BY <1>1, <1>4, <2>1
<1> QED
  BY <1>1, <1>3, <1>5 DEF Topped

\* sum |= (sum >> k) adds k bits to the upper ones that are set.
LEMMA OrShiftedTops ==
  ASSUME NEW bits, NEW h \in Nat, NEW k \in Nat, Topped(bits, h, k)
  PROVE  Topped(OrShifted(bits, k), h, 2 * k)
<1> DEFINE shifted == {b - k : b \in {c \in bits : c >= k}}
<1>1. bits \subseteq 0 .. h /\ \A b \in 0 .. h : b > h - k => b \in bits
  BY Zenon DEF Topped
<1>2. shifted \subseteq 0 .. h
  BY <1>1
<1>3. ASSUME NEW b \in 0 .. h, b > h - 2 * k PROVE b \in OrShifted(bits, k)
  <2>1. CASE b > h - k
    BY <1>1, <2>1, Zenon DEF OrShifted
  <2>2. CASE ~ (b > h - k)
    <3> DEFINE c == b + k
    <3>1. c \in 0 .. h /\ c > h - k /\ c >= k /\ c - k = b
      BY <1>3, <2>2
    <3>2. c \in bits
      BY <1>1, <3>1, Zenon
    <3> HIDE DEF c
    <3>3. c - k \in shifted
      BY <3>1, <3>2, Zenon
    <3>4. b \in shifted
      BY <3>1, <3>3, Zenon
    <3> QED
      BY <3>4, Zenon DEF OrShifted
  <2> QED
    BY <2>1, <2>2, Zenon
<1> QED
  BY <1>1, <1>2, <1>3, Zenon DEF Topped, OrShifted

\* The value of the bits up to h.
LEMMA ValueOnes ==
  ASSUME NEW h \in 0 .. SizeWidth - 1
  PROVE  Value(0 .. h) = Power(h + 1) - 1
<1> DEFINE n == SizeWidth
           bits == 0 .. h
           Body(f) == [b \in 0 .. n |->
                         IF b = 0 THEN 0
                         ELSE f[b - 1] + IF b - 1 \in bits THEN Power(b - 1) ELSE 0]
           loop == CHOOSE f : f = Body(f)
           least(b) == IF b <= h THEN b ELSE h + 1
           f == [b \in 0 .. n |-> Power(least(b)) - 1]
<1> n \in Nat /\ n >= 2
  BY DiscoveryAssumption
<1>1. Value(bits) = loop[n]
  BY Zenon DEF Value
<1> HIDE DEF n
<1>2. f = Body(f)
  <2>1. ASSUME NEW b \in 0 .. n PROVE f[b] = Body(f)[b]
    <3>1. CASE b = 0
      BY <3>1, PowerFacts
    <3>2. CASE b # 0
      <4> DEFINE c == b - 1
      <4>1. c \in Nat /\ c \in 0 .. n /\ b = c + 1
        BY <3>2
      <4>2. Body(f)[b] = f[c] + IF c \in bits THEN Power(c) ELSE 0
        BY <3>2, <4>1, Zenon
      <4>3. f[b] = Power(least(b)) - 1 /\ f[c] = Power(least(c)) - 1
        BY <4>1, Zenon
      <4>4. Power(c) \in Nat /\ Power(c + 1) = 2 * Power(c) /\ Power(h + 1) \in Nat
        BY <4>1, PowerFacts
      <4> HIDE DEF c
      <4>5. CASE c <= h
        <5>1. c \in bits
          BY <4>1, <4>5
        <5>2. least(c) = c
          BY <4>5, Zenon
        <5>3. least(b) = c + 1
          BY <4>1, <4>5
        <5> HIDE DEF f, bits
        <5>4. Body(f)[b] = f[c] + Power(c)
          BY <4>2, <5>1, Zenon
        <5>5. f[b] = Power(c + 1) - 1 /\ f[c] = Power(c) - 1
          BY <4>3, <5>2, <5>3, Zenon
        <5> QED
          BY <4>4, <5>4, <5>5
      <4>6. CASE ~ (c <= h)
        <5>1. c \notin bits
          BY <4>1, <4>6
        <5>2. least(c) = h + 1 /\ least(b) = h + 1
          BY <4>1, <4>6
        <5> HIDE DEF f, bits
        <5>3. Body(f)[b] = f[c] + 0
          BY <4>2, <5>1, Zenon
        <5> QED
          BY <4>3, <4>4, <5>2, <5>3
      <4> QED
        BY <4>5, <4>6, Zenon
    <3> QED
      BY <3>1, <3>2, Zenon
  <2>2. DOMAIN f = 0 .. n /\ DOMAIN Body(f) = 0 .. n
    BY Zenon
  <2>3. f = [b \in 0 .. n |-> f[b]] /\ Body(f) = [b \in 0 .. n |-> Body(f)[b]]
    OBVIOUS
  <2> HIDE DEF f, Body
  <2> QED
    BY <2>1, <2>3, Zenon
<1>3. loop = Body(loop)
  BY <1>2, Zenon
<1> HIDE DEF loop, f
<1> DEFINE G == {b \in 0 .. n : loop[b] = f[b]}
<1>4. \A b \in 0 .. n : b \in G
  <2>1. 0 \in G
    BY <1>2, <1>3
  <2>2. ASSUME NEW b \in 0 .. n - 1, b \in G PROVE b + 1 \in G
    <3>1. b + 1 \in 0 .. n /\ b + 1 # 0 /\ (b + 1) - 1 = b
      OBVIOUS
    <3> DEFINE more == IF b \in bits THEN Power(b) ELSE 0
    <3>2. loop[b + 1] = loop[b] + more
      BY <1>3, <3>1, Zenon
    <3>3. f[b + 1] = f[b] + more
      BY <1>2, <3>1, Zenon
    <3> HIDE DEF more
    <3> QED
      BY <2>2, <3>1, <3>2, <3>3, Zenon
  <2> HIDE DEF G
  <2> QED
    BY <2>1, <2>2, Rounds, Zenon
<1>5. loop[n] = f[n]
  BY <1>4
<1>6. f[n] = Power(h + 1) - 1
  BY DEF f, n
<1> QED
  BY <1>1, <1>5, <1>6, Zenon

\* The six shifts reach every bit of a size of up to 64 bits.
LEMMA SmearedOnes ==
  ASSUME NEW x \in Nat, NEW h \in 0 .. SizeWidth - 1, Power(h) <= x, x < Power(h + 1)
  PROVE  Smeared(x) = Power(h + 1) - 1
<1> SizeWidth \in 2 .. 64
  BY DiscoveryAssumption, Zenon
<1> DEFINE b0 == Bits(x)
           b1 == OrShifted(b0, 1)
           b2 == OrShifted(b1, 2)
           b3 == OrShifted(b2, 4)
           b4 == OrShifted(b3, 8)
           b5 == OrShifted(b4, 16)
           b6 == OrShifted(b5, 32)
<1>0. h \in Nat /\ {1, 2, 4, 8, 16, 32} \subseteq Nat
  OBVIOUS
<1>1. Smeared(x) = Value(b6)
  BY Zenon DEF Smeared
<1>2. Topped(b0, h, 1)
  BY BitsTopped, Zenon
<1> HIDE DEF b0
<1>3. Topped(b1, h, 2)
  <2>1. Topped(b1, h, 2 * 1)
    BY <1>0, <1>2, OrShiftedTops, Zenon
  <2>2. 2 * 1 = 2
    OBVIOUS
  <2> QED
    BY <2>1, <2>2, Zenon
<1> HIDE DEF b1
<1>4. Topped(b2, h, 4)
  <2>1. Topped(b2, h, 2 * 2)
    BY <1>0, <1>3, OrShiftedTops, Zenon
  <2>2. 2 * 2 = 4
    OBVIOUS
  <2> QED
    BY <2>1, <2>2, Zenon
<1> HIDE DEF b2
<1>5. Topped(b3, h, 8)
  <2>1. Topped(b3, h, 2 * 4)
    BY <1>0, <1>4, OrShiftedTops, Zenon
  <2>2. 2 * 4 = 8
    OBVIOUS
  <2> QED
    BY <2>1, <2>2, Zenon
<1> HIDE DEF b3
<1>6. Topped(b4, h, 16)
  <2>1. Topped(b4, h, 2 * 8)
    BY <1>0, <1>5, OrShiftedTops, Zenon
  <2>2. 2 * 8 = 16
    OBVIOUS
  <2> QED
    BY <2>1, <2>2, Zenon
<1> HIDE DEF b4
<1>7. Topped(b5, h, 32)
  <2>1. Topped(b5, h, 2 * 16)
    BY <1>0, <1>6, OrShiftedTops, Zenon
  <2>2. 2 * 16 = 32
    OBVIOUS
  <2> QED
    BY <2>1, <2>2, Zenon
<1> HIDE DEF b5
<1>8. Topped(b6, h, 64)
  <2>1. Topped(b6, h, 2 * 32)
    BY <1>0, <1>7, OrShiftedTops, Zenon
  <2>2. 2 * 32 = 64
    OBVIOUS
  <2> QED
    BY <2>1, <2>2, Zenon
<1> HIDE DEF b6
<1>9. b6 = 0 .. h
  <2>1. \A b \in 0 .. h : b > h - 64
    OBVIOUS
  <2>2. b6 \subseteq 0 .. h /\ \A b \in 0 .. h : b > h - 64 => b \in b6
    BY <1>8, Zenon DEF Topped
  <2> QED
    BY <2>1, <2>2, Zenon
<1> QED
  BY <1>1, <1>9, ValueOnes, Zenon

\* jent_cache_size_bits() of a power of two.
LEMMA SizeBitsPower ==
  ASSUME NEW k \in 1 .. SizeWidth - 1
  PROVE  SizeBits(Power(k)) = k
<1> SizeWidth \in Nat
  BY DiscoveryAssumption
<1>1. ASSUME NEW b \in 1 .. SizeWidth - 1 PROVE Power(k) >= Power(b) <=> b <= k
  <2>1. Power(k) \in Nat \ {0} /\ Power(b) \in Nat \ {0} /\ k \in Nat /\ b \in Nat
    BY PowerFacts
  <2>2. CASE b <= k
    BY <2>1, <2>2, PowerGrows, Zenon
  <2>3. CASE k < b
    <3>1. 2 * Power(k) <= Power(b)
      BY <2>1, <2>3, PowerGrows
    <3> QED
      BY <2>1, <2>3, <3>1
  <2> QED
    BY <2>1, <2>2, <2>3
<1>2. {b \in 1 .. SizeWidth - 1 : Power(k) >= Power(b)} = 1 .. k
  BY <1>1
<1>3. Cardinality(1 .. k) = k
  BY FS_Interval
<1> QED
  BY <1>2, <1>3, Zenon DEF SizeBits

\* What jent_cache_size_bits() makes of what jent_cache_roundup_from_sizes()
\* returns for a sum.
RoundsUp(sum, bits) ==
  \/ sum = 0 /\ bits = 0
  \/ bits = SizeWidth - 1
  \/ /\ sum > 0 /\ bits \in 1 .. SizeWidth - 1
     /\ sum < Power(bits) /\ Power(bits) <= 2 * sum

\* jent_cache_size_roundup() yields the bits that RoundsUp describes.
LEMMA RoundupBits ==
  ASSUME NEW s, NEW all \in BOOLEAN, SizeSum(s, all) \in Nat
  PROVE  RoundsUp(SizeSum(s, all), SizeBits(RoundupFromSizes(s, all)))
<1> DEFINE sum == SizeSum(s, all)
           up == RoundupFromSizes(s, all)
           top == SizeWidth - 1
<1> sum \in Nat /\ top \in Nat \ {0} /\ SizeWidth \in 2 .. 64
  BY DiscoveryAssumption
<1>1. up = IF sum = 0 THEN 0 ELSE IF sum >= Power(top) THEN Power(top)
           ELSE Smeared(sum) + 1
  BY Zenon DEF RoundupFromSizes
<1> HIDE DEF up, sum
<1>2. CASE sum = 0
  <2>1. up = 0
    BY <1>1, <1>2, Zenon
  <2>2. {b \in 1 .. SizeWidth - 1 : 0 >= Power(b)} = {}
    BY PowerFacts
  <2>3. SizeBits(0) = 0
    BY <2>2, FS_EmptySet, Zenon DEF SizeBits
  <2> QED
    BY <1>2, <2>1, <2>3, Zenon DEF RoundsUp, up, sum
<1>3. CASE sum # 0 /\ sum >= Power(top)
  <2>1. up = Power(top)
    BY <1>1, <1>3, Zenon
  <2>2. SizeBits(up) = top
    BY <2>1, SizeBitsPower
  <2> QED
    BY <2>2, Zenon DEF RoundsUp, up, sum
<1>4. CASE sum # 0 /\ ~ (sum >= Power(top))
  <2>1. Power(top) \in Nat
    BY PowerFacts, Zenon
  <2>2. PICK h \in 0 .. top - 1 : Power(h) <= sum /\ sum < Power(h + 1)
    <3>1. sum \in Nat \ {0} /\ top \in Nat /\ sum < Power(top)
      BY <1>4, <2>1
    <3> HIDE DEF top
    <3> QED
      BY <3>1, HighestBit, Zenon
  <2>3. h \in 0 .. SizeWidth - 1 /\ h \in Nat /\ h + 1 \in 1 .. SizeWidth - 1
    OBVIOUS
  <2>4. Smeared(sum) = Power(h + 1) - 1
    BY <2>2, <2>3, SmearedOnes, Zenon
  <2>5. Power(h + 1) \in Nat /\ Power(h + 1) = 2 * Power(h) /\ Power(h) \in Nat
    BY <2>3, PowerFacts
  <2>6. up = Power(h + 1)
    BY <1>1, <1>4, <2>4, <2>5
  <2>7. SizeBits(up) = h + 1
    BY <2>3, <2>6, SizeBitsPower, Zenon
  <2>8. Power(h + 1) <= 2 * sum /\ sum > 0
    BY <1>4, <2>2, <2>5
  <2>9. RoundsUp(sum, h + 1)
    BY <2>2, <2>3, <2>8, Zenon DEF RoundsUp
  <2> QED
    BY <2>7, <2>9, Zenon DEF up, sum
<1> QED
  BY <1>2, <1>3, <1>4, Zenon

\* What jent_update_memsize() and jent_memsize() make of an exponent.
AutoSize(bits, all) ==
  \/ Memsize(AutoField(bits, all)) = Memsize(MaxAuto)
  \/ LET max == IF bits = 0 THEN DefaultBits ELSE IF all THEN bits ELSE bits + 2
     IN  /\ max - MemsizeOffset < MaxAuto
         /\ \/ max <= MemsizeOffset /\ Memsize(AutoField(bits, all)) = Power(DefaultBits)
            \/ Memsize(AutoField(bits, all)) = Power(max)

\* jent_update_memsize() sizes the region as AutoSize describes.
LEMMA AutoSizes ==
  ASSUME NEW bits \in Nat, NEW all \in BOOLEAN
  PROVE  AutoSize(bits, all)
<1> {MemsizeOffset, DefaultBits, MaxField, MaxAuto} \subseteq Nat /\ MaxAuto <= MaxField
  BY MemoryAssumption, Zenon
<1> DEFINE max == IF bits = 0 THEN DefaultBits ELSE IF all THEN bits ELSE bits + 2
           x == Largest({max - MemsizeOffset})
           field == Min({x, MaxAuto, MaxField})
<1>1. max \in Nat
  OBVIOUS
<1>2. AutoField(bits, all) = field
  BY Zenon DEF AutoField
<1> HIDE DEF max
<1>3. x = IF max - MemsizeOffset >= 0 THEN max - MemsizeOffset ELSE 0
  BY <1>1, LargestOne
<1>4. x \in Nat
  BY <1>1, <1>3
<1> HIDE DEF x
<1>5. field \in {x, MaxAuto, MaxField} /\ field <= x /\ field <= MaxAuto
  <2>1. x \in Int /\ MaxAuto \in Int /\ MaxField \in Int
    BY <1>4
  <2> QED
    BY <2>1, SmallSets, Zenon
<1>6. field = IF x < MaxAuto THEN x ELSE MaxAuto
  BY <1>4, <1>5
<1> HIDE DEF field
<1>7. CASE ~ (x < MaxAuto)
  BY <1>2, <1>6, <1>7, Zenon DEF AutoSize
<1>8. CASE x < MaxAuto
  <2>1. field = x /\ max - MemsizeOffset < MaxAuto
    BY <1>1, <1>3, <1>6, <1>8
  <2>2. CASE x = 0
    <3>1. Memsize(field) = Power(DefaultBits)
      BY <2>1, <2>2, Zenon DEF Memsize
    <3>2. max <= MemsizeOffset
      BY <1>1, <1>3, <2>2
    <3> QED
      BY <1>2, <2>1, <3>1, <3>2, Zenon DEF AutoSize, max
  <2>3. CASE x # 0
    <3>1. Min({field, MaxField}) = x
      BY <1>4, <1>8, <2>1, SmallSets
    <3>2. x + MemsizeOffset = max
      BY <1>1, <1>3, <2>3
    <3>3. Memsize(field) = Power(max)
      BY <2>1, <2>3, <3>1, <3>2, Zenon DEF Memsize
    <3> QED
      BY <1>2, <2>1, <3>3, Zenon DEF AutoSize, max
  <2> QED
    BY <2>2, <2>3, Zenon
<1> QED
  BY <1>7, <1>8, Zenon

\* A region of automatic size exceeds the caches it was derived from.
LEMMA RegionExceeds ==
  ASSUME NEW s \in [Level -> Nat], NEW all \in BOOLEAN
  PROVE  Exceeds(Memsize(AutoField(SizeBits(RoundupFromSizes(s, all)), all)), s, all)
<1> {MemsizeOffset, DefaultBits, MaxAuto} \subseteq Nat /\ MemsizeOffset <= DefaultBits
  BY MemoryAssumption, Zenon
<1>0. SizeWidth \in 2 .. 64 /\ MaxAuto + MemsizeOffset < SizeWidth
  BY DiscoveryAssumption, MemoryAssumption, Zenon
<1> DEFINE sum == SizeSum(s, all)
           bits == SizeBits(RoundupFromSizes(s, all))
           size == Memsize(AutoField(bits, all))
           max == IF bits = 0 THEN DefaultBits ELSE IF all THEN bits ELSE bits + 2
           caches == IF all THEN s[1] + s[2] + s[3] ELSE 4 * s[1]
<1>1. s[1] \in Nat /\ s[2] \in Nat /\ s[3] \in Nat
  BY DEF Level
<1>2. AllOnes \in Nat /\ AllOnes >= Power(SizeWidth - 1)
  <2> DEFINE top == SizeWidth - 1
  <2>1. top \in Nat /\ top + 1 = SizeWidth
    BY <1>0
  <2>2. Power(top) \in Nat \ {0} /\ Power(top + 1) = 2 * Power(top)
    BY <2>1, PowerFacts, Zenon
  <2> QED
    BY <2>1, <2>2 DEF AllOnes
<1>3. sum \in Nat /\ (sum < AllOnes => caches = IF all THEN sum ELSE 4 * sum)
  <2>1. CASE all
    <3> DEFINE two == SizeAdd(s[1], s[2])
    <3>1. sum = SizeAdd(two, s[3])
      BY <2>1, Zenon DEF SizeSum
    <3>2. two \in Nat /\ (two = s[1] + s[2] \/ two = AllOnes)
      BY <1>1, <1>2 DEF SizeAdd
    <3> HIDE DEF two
    <3>3. sum \in Nat /\ (sum < AllOnes => sum = two + s[3] /\ two # AllOnes)
      BY <1>1, <1>2, <3>1, <3>2 DEF SizeAdd
    <3> HIDE DEF sum
    <3> QED
      BY <1>1, <2>1, <3>2, <3>3, Zenon
  <2>2. CASE ~all
    <3>1. sum = s[1]
      BY <2>2, Zenon DEF SizeSum
    <3> HIDE DEF sum
    <3> QED
      BY <1>1, <2>2, <3>1, Zenon
  <2> QED
    BY <2>1, <2>2, Zenon
<1>4. RoundsUp(sum, bits)
  BY <1>3, RoundupBits, Zenon
<1>5. bits \in Nat
  BY SizeBitsNat, Zenon
<1> HIDE DEF sum, bits
<1>6. AutoSize(bits, all)
  BY <1>5, AutoSizes, Zenon
<1>7. Exceeds(size, s, all) <=>
        \/ size = Memsize(MaxAuto)
        \/ size = Power(DefaultBits) /\ (caches = 0 \/ size > caches)
        \/ caches > 0 /\ size > caches /\ size <= 2 * caches
  BY Zenon DEF Exceeds
<1>8. CASE size = Memsize(MaxAuto)
  BY <1>7, <1>8, Zenon DEF bits
<1>9. CASE size # Memsize(MaxAuto)
  <2>1. /\ max - MemsizeOffset < MaxAuto
        /\ (max <= MemsizeOffset /\ size = Power(DefaultBits)) \/ size = Power(max)
    BY <1>6, <1>9, Zenon DEF AutoSize
  <2>2. max \in Nat
    BY <1>5
  <2>3. bits < SizeWidth - 1
    BY <1>0, <1>5, <2>1, <1>4 DEF RoundsUp
  <2>4. CASE sum = 0 /\ bits = 0
    <3>1. caches = 0
      BY <1>2, <1>3, <2>4, PowerFacts, <1>0
    <3>2. size = Power(DefaultBits)
      BY <2>1, <2>4, Zenon
    <3> QED
      BY <1>7, <3>1, <3>2, Zenon DEF bits
  <2>5. CASE /\ sum > 0 /\ bits \in 1 .. SizeWidth - 1
             /\ sum < Power(bits) /\ Power(bits) <= 2 * sum
    <3>1. Power(bits) \in Nat /\ Power(bits) <= Power(SizeWidth - 1)
      <4>1. SizeWidth - 1 \in Nat /\ bits <= SizeWidth - 1
        BY <1>0, <2>5
      <4> QED
        BY <1>5, <4>1, PowerFacts, PowerGrows, Zenon
    <3>2. Power(SizeWidth - 1) \in Nat
      BY <1>0, PowerFacts
    <3>3. caches = IF all THEN sum ELSE 4 * sum
      BY <1>2, <1>3, <2>5, <3>1, <3>2
    <3>4. caches \in Nat /\ caches > 0
      BY <1>3, <2>5, <3>3
    <3>5. Power(max) = IF all THEN Power(bits) ELSE 4 * Power(bits)
      <4>1. CASE all
        BY <2>5, <4>1
      <4>2. CASE ~all
        <5>1. max = (bits + 1) + 1 /\ bits + 1 \in Nat
          BY <1>5, <2>5, <4>2
        <5>2. Power(bits + 1) = 2 * Power(bits) /\ Power((bits + 1) + 1) = 2 * Power(bits + 1)
          BY <1>5, <5>1, PowerFacts, Zenon
        <5> QED
          BY <3>1, <4>2, <5>1, <5>2
      <4> QED
        BY <4>1, <4>2, Zenon
    <3> HIDE DEF caches
    <3>6. Power(max) \in Nat /\ Power(max) > caches /\ Power(max) <= 2 * caches
      <4>1. CASE all
        BY <1>3, <2>5, <3>1, <3>3, <3>5, <4>1, Zenon
      <4>2. CASE ~all
        BY <1>3, <2>5, <3>1, <3>3, <3>5, <4>2
      <4> QED
        BY <4>1, <4>2, Zenon
    <3>7. CASE size = Power(max)
      BY <1>7, <3>4, <3>6, <3>7, Zenon DEF bits
    <3>8. CASE max <= MemsizeOffset /\ size = Power(DefaultBits)
      <4> HIDE DEF max, size
      <4>1. max <= DefaultBits
        BY <2>2, <3>8
      <4>2. Power(DefaultBits) \in Nat /\ Power(max) <= Power(DefaultBits)
        BY <2>2, <4>1, PowerFacts, PowerGrows, Zenon
      <4>3. size > caches
        BY <3>4, <3>6, <3>8, <4>2
      <4> QED
        BY <1>7, <3>8, <4>3, Zenon DEF bits, size
    <3> QED
      BY <2>1, <3>7, <3>8, Zenon
  <2> QED
    BY <1>4, <1>5, <2>3, <2>4, <2>5, <1>0 DEF RoundsUp
<1> QED
  BY <1>8, <1>9, Zenon

-----------------------------------------------------------------------------
(* The sources of the discovery *)

\* The largest of a finite set bounds it.
LEMMA LargestBounds ==
  ASSUME NEW S, IsFiniteSet(S), S \subseteq Int
  PROVE  Largest(S) \in Nat /\ \A x \in S : x <= Largest(S)
<1>1. IsFiniteSet(S \cup {0}) /\ S \cup {0} # {} /\ S \cup {0} \subseteq Int
  BY FS_AddElement
<1> DEFINE U == S \cup {0}
<1>2. 0 \in U /\ \A x \in S : x \in U
  BY Zenon
<1> HIDE DEF U
<1>3. Max(U) \in U /\ \A y \in U : Max(U) >= y
  BY <1>1, MinMax, Zenon DEF U
<1>4. Max(U) \in Int /\ \A y \in U : y \in Int
  BY <1>1, <1>3, Zenon DEF U
<1>5. Max(U) \in Nat /\ \A x \in S : x <= Max(U)
  BY <1>2, <1>3, <1>4
<1> QED
  BY <1>5, Zenon DEF Largest, U

\* The image of a finite set is finite.
LEMMA ImageFinite ==
  ASSUME NEW S, IsFiniteSet(S), NEW f
  PROVE  IsFiniteSet({f[x] : x \in S})
<1> DEFINE T == {f[x] : x \in S}
           g == [x \in S |-> f[x]]
<1>1. g \in Surjection(S, T)
  BY Zenon DEF Surjection
<1> QED
  BY <1>1, FS_Surjection, Zenon

\* A size that a sequence of caches names is the one of a data cache in it.
LEMMA NamedAt ==
  ASSUME NEW caches, NEW l, NEW size \in Named(caches, l)
  PROVE  \E p \in DOMAIN caches : DataCache(caches[p], l) /\ size = caches[p].size
  BY Zenon DEF Named, Range

\* The size a CPUID leaf yields for a level: one of a cache the leaf lists,
\* and the only one when it lists one.
LEMMA CpuidLeafSizes ==
  ASSUME NEW caches \in Seq(CacheRecord), NEW l \in Level
  PROVE  /\ CpuidLeaf(caches)[l] \in Nat
         /\ CpuidLeaf(caches)[l] # 0 => Named(caches, l) # {}
         /\ \A p \in DOMAIN caches :
              DataCache(caches[p], l) /\ InReach(caches) =>
                /\ CpuidLeaf(caches)[l] > 0
                /\ OneOfLevel(caches) => CpuidLeaf(caches)[l] = caches[p].size
<1> MaxIndex \in Nat
  BY DiscoveryAssumption, Zenon
<1> DEFINE n == Min({MaxIndex, Len(caches)})
           of == {k \in 1 .. n : DataCache(caches[k], l)}
           size == CpuidLeaf(caches)[l]
<1>0. Len(caches) \in Nat
  OBVIOUS
<1>1. Len(caches) \in Nat /\ DOMAIN caches = 1 .. Len(caches)
      /\ \A k \in 1 .. Len(caches) : caches[k] \in CacheRecord
  OBVIOUS
<1>2. n \in Nat /\ n <= Len(caches) /\ (n = MaxIndex \/ n = Len(caches))
  <2>1. n = IF MaxIndex <= Len(caches) THEN MaxIndex ELSE Len(caches)
    BY <1>0, SmallSets
  <2> HIDE DEF n
  <2> QED
    BY <1>0, <2>1
<1>3. size = IF of = {} THEN 0 ELSE caches[Min(of)].size
  <2>1. of = {k \in 1 .. n : /\ caches[k].level = l /\ caches[k].size > 0
                             /\ IsData(caches[k]) /\ (l = 1 => caches[k].type = "data")}
    BY Zenon DEF DataCache
  <2> QED
    BY <2>1, Zenon DEF CpuidLeaf
<1> HIDE DEF n
<1>4. of \subseteq Int /\ of \subseteq 1 .. Len(caches) /\ IsFiniteSet(of)
  <2>1. of \subseteq 1 .. n /\ IsFiniteSet(1 .. n)
    BY <1>2, FS_Interval
  <2> HIDE DEF of
  <2>2. IsFiniteSet(of)
    BY <2>1, FS_Subset, Zenon
  <2>3. 1 .. n \subseteq Int /\ 1 .. n \subseteq 1 .. Len(caches)
    BY <1>0, <1>2
  <2> QED
    BY <2>1, <2>2, <2>3, Zenon
<1>5. ASSUME of # {} PROVE Min(of) \in of
  <2> HIDE DEF of
  <2> QED
    BY <1>4, <1>5, MinMax, Zenon
<1> HIDE DEF size
<1>6. size \in Nat
  <2>1. CASE of = {}
    BY <1>3, <2>1, Zenon
  <2>2. CASE of # {}
    <3>1. caches[Min(of)] \in CacheRecord
      BY <1>1, <1>4, <1>5, <2>2, Zenon
    <3> QED
      BY <1>3, <2>2, <3>1, Zenon DEF CacheRecord
  <2> QED
    BY <2>1, <2>2, Zenon
<1>7. ASSUME NEW p \in DOMAIN caches, DataCache(caches[p], l), InReach(caches)
      PROVE  size > 0 /\ (OneOfLevel(caches) => size = caches[p].size)
  <2>1. p <= MaxIndex /\ p \in 1 .. Len(caches)
    BY <1>1, <1>7, Zenon DEF InReach
  <2>2. p \in 1 .. n
    BY <1>0, <1>2, <2>1
  <2>3. p \in of
    BY <1>7, <2>2, Zenon
  <2> DEFINE j == Min(of)
  <2>4. j \in of /\ size = caches[j].size
    BY <1>3, <1>5, <2>3, Zenon
  <2>5. DataCache(caches[j], l) /\ j \in DOMAIN caches
    BY <1>1, <1>4, <2>4, Zenon
  <2> HIDE DEF j
  <2>6. size > 0
    BY <2>4, <2>5, Zenon DEF DataCache
  <2>7. OneOfLevel(caches) => p = j
    BY <1>7, <2>5, Zenon DEF OneOfLevel
  <2> QED
    BY <2>4, <2>6, <2>7, Zenon
<1>8. ASSUME size # 0 PROVE Named(caches, l) # {}
  <2> DEFINE j == Min(of)
  <2>1. j \in of
    BY <1>3, <1>5, <1>8, Zenon
  <2>2. DataCache(caches[j], l) /\ j \in DOMAIN caches
    BY <1>1, <1>4, <2>1, Zenon
  <2> HIDE DEF j
  <2> QED
    BY <2>2, Zenon DEF Named, Range
<1> QED
  BY <1>6, <1>7, <1>8, Zenon DEF size

\* A machine of the model.
LEMMA MachineFacts ==
  ASSUME NEW m \in Machine, NEW core \in Core
  PROVE  /\ Described(m)
         /\ m.leaf4[core] \in Seq(CacheRecord) /\ m.leaf_ext[core] \in Seq(CacheRecord)
         /\ m.clidr[core] \in Seq(CacheRecord) /\ DOMAIN m.leaf4 = Core
         /\ InReach(m.leaf4[core]) /\ InReach(m.leaf_ext[core])
         /\ OneOfLevel(m.leaf4[core]) /\ OneOfLevel(m.leaf_ext[core])
         /\ InOrder(m.clidr[core])
<1>1. Described(m)
  BY MachineAssumption, Zenon
<1>2. {m.leaf4, m.leaf_ext, m.clidr} \subseteq [Core -> Seq(CacheRecord)]
  BY <1>1, Zenon DEF Described
<1> HIDE DEF CacheRecord
<1>3. /\ m.leaf4 \in [Core -> Seq(CacheRecord)]
      /\ m.leaf_ext \in [Core -> Seq(CacheRecord)]
      /\ m.clidr \in [Core -> Seq(CacheRecord)]
  BY <1>2, Zenon
<1> QED
  BY <1>1, <1>3, MachineAssumption, Zenon

\* jent_cache_sizes_cpuid(): the size the leaf that counts names.
LEMMA CpuidSizes ==
  ASSUME NEW m \in Machine, NEW core \in Core, NEW l \in Level
  PROVE  /\ Cpuid(m, core)[l] \in Nat
         /\ \A size \in LeafNames(m, core, l) : Cpuid(m, core)[l] = size /\ size > 0
<1> DEFINE four == m.leaf4[core]
           ext == m.leaf_ext[core]
           intel == \E k \in Level : Named(four, k) # {}
<1>1. /\ four \in Seq(CacheRecord) /\ ext \in Seq(CacheRecord)
      /\ InReach(four) /\ InReach(ext) /\ OneOfLevel(four) /\ OneOfLevel(ext)
  BY MachineFacts, Zenon
<1>2. LeafNames(m, core, l) = IF intel THEN Named(four, l) ELSE Named(ext, l)
  BY Zenon DEF LeafNames
<1>3. Cpuid(m, core) = IF CpuidLeaf(four) # NoSizes THEN CpuidLeaf(four) ELSE CpuidLeaf(ext)
  BY Zenon DEF Cpuid
<1> HIDE DEF four, ext
<1>4. CpuidLeaf(four)[l] \in Nat /\ CpuidLeaf(ext)[l] \in Nat
  BY <1>1, CpuidLeafSizes, Zenon
<1>5. ASSUME NEW caches \in {four, ext}, NEW k \in Level, NEW size \in Named(caches, k)
      PROVE  CpuidLeaf(caches)[k] = size /\ size > 0
  <2>1. PICK p \in DOMAIN caches : DataCache(caches[p], k) /\ size = caches[p].size
    BY <1>5, NamedAt
  <2>2. CpuidLeaf(caches)[k] > 0 /\ CpuidLeaf(caches)[k] = size
    BY <1>1, <2>1, CpuidLeafSizes, Zenon
  <2> QED
    BY <2>2, Zenon
<1>6. ASSUME intel PROVE CpuidLeaf(four) # NoSizes
  <2>1. PICK k \in Level : Named(four, k) # {}
    BY <1>6, Zenon
  <2>2. CpuidLeaf(four)[k] \in Nat /\ CpuidLeaf(four)[k] > 0
    BY <1>1, <1>5, <2>1, CpuidLeafSizes, Zenon
  <2>3. NoSizes[k] = 0
    BY Zenon DEF NoSizes
  <2> QED
    BY <2>2, <2>3
<1>7. ASSUME ~intel PROVE CpuidLeaf(four) = NoSizes
  <2>1. \A k \in Level : CpuidLeaf(four)[k] = 0
    BY <1>1, <1>7, CpuidLeafSizes, Zenon
  <2>2. CpuidLeaf(four) = [k \in Level |-> CpuidLeaf(four)[k]]
    BY Zenon DEF CpuidLeaf
  <2> QED
    BY <2>1, <2>2, Zenon DEF NoSizes
<1> HIDE DEF intel
<1>8. Cpuid(m, core) = IF intel THEN CpuidLeaf(four) ELSE CpuidLeaf(ext)
  BY <1>3, <1>6, <1>7, Zenon
<1> QED
  BY <1>2, <1>4, <1>5, <1>8, Zenon

\* jent_cache_sizes_merge() never lowers a level.
LEMMA MergeSizes ==
  ASSUME NEW s, NEW later, NEW l \in Level, s[l] \in Int, later[l] \in Int
  PROVE  /\ Merge(s, later)[l] \in Nat
         /\ Merge(s, later)[l] >= s[l] /\ Merge(s, later)[l] >= later[l]
         /\ s[l] = 0 /\ later[l] = 0 => Merge(s, later)[l] = 0
<1> DEFINE S == {s[l], later[l]}
<1>1. Merge(s, later)[l] = Largest(S)
  BY Zenon DEF Merge
<1>2. S \subseteq Int /\ s[l] \in S /\ later[l] \in S
  BY Zenon
<1>3. IsFiniteSet(S)
  <2>1. IsFiniteSet({s[l]}) /\ IsFiniteSet({s[l]} \cup {later[l]})
    BY FS_Singleton, FS_AddElement, Zenon
  <2>2. S = {s[l]} \cup {later[l]}
    BY Zenon
  <2> QED
    BY <2>1, <2>2, Zenon
<1> HIDE DEF S
<1>4. Largest(S) \in Nat /\ \A x \in S : x <= Largest(S)
  BY <1>2, <1>3, LargestBounds, Zenon
<1>5. ASSUME s[l] = 0, later[l] = 0 PROVE Largest(S) = 0
  <2>1. S = {0}
    BY <1>5, Zenon DEF S
  <2> QED
    BY <2>1, LargestOne
<1> QED
  BY <1>1, <1>2, <1>4, <1>5, Zenon

\* jent_cpuinfo_arm_line() over the file: no part that it lists is missed.
LEMMA CpuinfoSizes ==
  ASSUME NEW lines \in Seq([key : STRING, value : Nat])
  PROVE  /\ Cpuinfo(lines) \in [Level -> Nat]
         /\ \A l \in Level : \A size \in PartNames(lines, l) : Cpuinfo(lines)[l] >= size
<1>0. /\ Len(lines) \in Nat /\ DOMAIN lines = 1 .. Len(lines)
      /\ \A k \in 1 .. Len(lines) : lines[k] \in [key : STRING, value : Nat]
  <2> DEFINE L == [key : STRING, value : Nat]
  <2>1. lines \in Seq(L)
    BY Zenon
  <2> HIDE DEF L
  <2>2. /\ Len(lines) \in Nat /\ DOMAIN lines = 1 .. Len(lines)
        /\ \A k \in 1 .. Len(lines) : lines[k] \in L
    BY <2>1
  <2> QED
    BY <2>2, Zenon DEF L
<1> DEFINE n == Len(lines)
           S == [implementer : Nat \cup {Absent}, sizes : [Level -> Nat]]
           line(acc, k) ==
             IF k.key = "processor" THEN [acc EXCEPT !.implementer = Absent]
             ELSE IF k.key = "implementer" THEN [acc EXCEPT !.implementer = k.value]
             ELSE IF <<acc.implementer, k.value>> \in DOMAIN ArmCores
               THEN [acc EXCEPT !.sizes =
                       Merge(acc.sizes, ArmCores[<<acc.implementer, k.value>>])]
               ELSE acc
           opens(k) == lines[k].key \in {"processor", "implementer"}
           known(acc, k) == <<acc.implementer, lines[k].value>> \in DOMAIN ArmCores
           start == [implementer |-> Absent, sizes |-> NoSizes]
           Body(f) == [k \in 0 .. n |-> IF k = 0 THEN start ELSE line(f[k - 1], lines[k])]
           file == CHOOSE f : f = Body(f)
           turn == [q \in (1 .. n) \X S |-> line(q[2], lines[q[1]])]
<1>1. Cpuinfo(lines) = file[n].sizes
  BY Zenon DEF Cpuinfo
<1>2. /\ n \in Nat /\ DOMAIN lines = 1 .. n
      /\ \A k \in 1 .. n : lines[k] \in [key : STRING, value : Nat]
  BY <1>0, Zenon
<1> HIDE DEF n
<1>3. start \in S
  BY Zenon DEF NoSizes
<1>4. ASSUME NEW acc \in S, NEW k \in 1 .. n
      PROVE  /\ line(acc, lines[k]) \in S
             /\ lines[k].key = "implementer" =>
                  line(acc, lines[k]).implementer = lines[k].value
             /\ ~opens(k) => line(acc, lines[k]).implementer = acc.implementer
             /\ \A l \in Level :
                  /\ line(acc, lines[k]).sizes[l] >= acc.sizes[l]
                  /\ ~opens(k) /\ known(acc, k) =>
                       line(acc, lines[k]).sizes[l] >=
                         ArmCores[<<acc.implementer, lines[k].value>>][l]
  <2>1. lines[k].value \in Nat
    BY <1>2, Zenon
  <2> DEFINE v == lines[k].value
             key == lines[k].key
             merged == Merge(acc.sizes, ArmCores[<<acc.implementer, v>>])
  <2> HIDE DEF v, key, merged
  <2>2. [acc EXCEPT !.implementer = Absent] \in S /\ [acc EXCEPT !.implementer = v] \in S
    BY <2>1, Zenon DEF v
  <2>3. ASSUME <<acc.implementer, v>> \in DOMAIN ArmCores
        PROVE  /\ [acc EXCEPT !.sizes = merged] \in S
               /\ \A l \in Level : /\ merged[l] >= acc.sizes[l]
                                   /\ merged[l] >= ArmCores[<<acc.implementer, v>>][l]
    <3> DEFINE sizes == ArmCores[<<acc.implementer, v>>]
    <3>1. sizes \in [Level -> Nat] /\ acc.sizes \in [Level -> Nat]
      BY <2>3, MachineAssumption, Zenon
    <3> HIDE DEF sizes
    <3>2. ASSUME NEW l \in Level
          PROVE  merged[l] \in Nat /\ merged[l] >= acc.sizes[l] /\ merged[l] >= sizes[l]
      <4>1. acc.sizes[l] \in Int /\ sizes[l] \in Int
        BY <3>1
      <4> QED
        BY <4>1, MergeSizes, Zenon DEF merged, sizes
    <3>3. merged \in [Level -> Nat]
      <4>1. merged = [l \in Level |-> merged[l]]
        BY Zenon DEF merged, Merge
      <4> QED
        BY <3>2, <4>1, Zenon
    <3> QED
      BY <3>2, <3>3, Zenon DEF sizes
  <2>4. line(acc, lines[k]) =
          IF key = "processor" THEN [acc EXCEPT !.implementer = Absent]
          ELSE IF key = "implementer" THEN [acc EXCEPT !.implementer = v]
          ELSE IF <<acc.implementer, v>> \in DOMAIN ArmCores
               THEN [acc EXCEPT !.sizes = merged] ELSE acc
    BY Zenon DEF v, key, merged
  <2>5. \A x : /\ [acc EXCEPT !.implementer = x].implementer = x
               /\ [acc EXCEPT !.implementer = x].sizes = acc.sizes
               /\ [acc EXCEPT !.sizes = x].implementer = acc.implementer
               /\ [acc EXCEPT !.sizes = x].sizes = x
    BY Zenon
  <2>6. \A l \in Level : acc.sizes[l] >= acc.sizes[l]
    <3>1. \A l \in Level : acc.sizes[l] \in Nat
      BY Zenon
    <3>2. \A x \in Nat : x >= x
      OBVIOUS
    <3> HIDE DEF S
    <3> QED
      BY <3>1, <3>2, Zenon
  <2> DEFINE next == line(acc, lines[k])
  <2> HIDE DEF line, S, next
  <2>7. CASE key = "processor"
    <3>1. next = [acc EXCEPT !.implementer = Absent] /\ key # "implementer"
      BY <2>4, <2>7, Zenon DEF next
    <3>2. opens(k) /\ lines[k].key # "implementer"
      BY <2>7, <3>1, Zenon DEF key
    <3>3. next \in S /\ next.sizes = acc.sizes
      BY <2>2, <2>5, <3>1, Zenon
    <3> QED
      BY <2>6, <3>2, <3>3, Zenon DEF next
  <2>8. CASE key = "implementer"
    <3>1. next = [acc EXCEPT !.implementer = v]
      BY <2>4, <2>8 DEF next
    <3> QED
      BY <2>2, <2>5, <2>6, <2>8, <3>1, Zenon DEF next, key, v
  <2>9. CASE key \notin {"processor", "implementer"} /\ known(acc, k)
    <3>1. next = [acc EXCEPT !.sizes = merged] /\ key # "implementer"
      BY <2>4, <2>9, Zenon DEF next, v
    <3>2. <<acc.implementer, v>> \in DOMAIN ArmCores
      BY <2>9, Zenon DEF v
    <3> QED
      BY <2>3, <2>5, <2>9, <3>1, <3>2, Zenon DEF next, key, v
  <2>10. CASE key \notin {"processor", "implementer"} /\ ~known(acc, k)
    <3>1. next = acc /\ key # "implementer"
      BY <2>4, <2>10, Zenon DEF next, v
    <3> QED
      BY <2>6, <2>10, <3>1, Zenon DEF next, key
  <2> QED
    BY <2>7, <2>8, <2>9, <2>10, Zenon
<1> HIDE DEF line, S, start
<1>5. turn \in [(1 .. n) \X S -> S]
  BY <1>4, Zenon
<1>6. PICK f : LoopValues(f, n, S, start, turn)
  <2> HIDE DEF turn
  <2> QED
    BY <1>2, <1>3, <1>5, LoopExists, Zenon
<1>7. f \in [0 .. n -> S] /\ f[0] = start /\ \A k \in 1 .. n : f[k] = line(f[k - 1], lines[k])
  <2>1. ASSUME NEW k \in 1 .. n PROVE f[k] = line(f[k - 1], lines[k])
    <3>1. k - 1 \in 0 .. n
      BY <1>2
    <3>2. f[k - 1] \in S /\ f[k] = turn[<<k, f[k - 1]>>]
      <4> HIDE DEF turn
      <4> QED
        BY <1>6, <3>1, Zenon DEF LoopValues
    <3> QED
      BY <3>2, Zenon
  <2> QED
    BY <1>6, <2>1, Zenon DEF LoopValues
<1>8. \E g : g = Body(g)
  <2>1. f = Body(f)
    BY <1>2, <1>7
  <2> QED
    BY <2>1, Zenon
<1>9. file = Body(file)
  BY <1>8, Zenon
<1> HIDE DEF file
<1>10. file[0] = start /\ \A k \in 1 .. n : file[k] = line(file[k - 1], lines[k])
  BY <1>2, <1>9
<1> DEFINE G == {k \in 0 .. n : file[k] = f[k]}
<1>11. \A k \in 0 .. n : k \in G
  <2>1. 0 \in G
    BY <1>2, <1>7, <1>10
  <2>2. ASSUME NEW k \in 0 .. n - 1, k \in G PROVE k + 1 \in G
    <3>1. k + 1 \in 1 .. n /\ k + 1 \in 0 .. n /\ (k + 1) - 1 = k
      BY <1>2
    <3> QED
      BY <1>7, <1>10, <2>2, <3>1, Zenon
  <2> HIDE DEF G
  <2> QED
    BY <1>2, <2>1, <2>2, Rounds, Zenon
<1>12. file[n] \in S
  <2>1. n \in 0 .. n
    BY <1>2
  <2> QED
    BY <1>7, <1>11, <2>1, Zenon
<1>13. Cpuinfo(lines) = f[n].sizes /\ \A k \in 0 .. n : f[k].sizes \in [Level -> Nat]
  <2>1. n \in 0 .. n
    BY <1>2
  <2> QED
    BY <1>1, <1>7, <1>11, <2>1, Zenon DEF S
<1>14. ASSUME NEW k \in 1 .. n
       PROVE  /\ lines[k].key = "implementer" => f[k].implementer = lines[k].value
              /\ ~opens(k) => f[k].implementer = f[k - 1].implementer
              /\ \A l \in Level :
                   /\ f[k].sizes[l] >= f[k - 1].sizes[l]
                   /\ ~opens(k) /\ known(f[k - 1], k) =>
                        f[k].sizes[l] >=
                          ArmCores[<<f[k - 1].implementer, lines[k].value>>][l]
  <2>1. k - 1 \in 0 .. n
    BY <1>2
  <2>2. f[k - 1] \in S /\ f[k] = line(f[k - 1], lines[k])
    BY <1>7, <2>1, Zenon
  <2> DEFINE acc == f[k - 1]
             next == line(acc, lines[k])
  <2> HIDE DEF opens, known, acc
  <2>3. /\ lines[k].key = "implementer" => next.implementer = lines[k].value
        /\ ~opens(k) => next.implementer = acc.implementer
        /\ \A l \in Level :
             /\ next.sizes[l] >= acc.sizes[l]
             /\ ~opens(k) /\ known(acc, k) =>
                  next.sizes[l] >= ArmCores[<<acc.implementer, lines[k].value>>][l]
    BY <1>4, <2>2, Zenon DEF acc
  <2>4. f[k] = next
    BY <2>2, Zenon DEF acc
  <2> HIDE DEF next
  <2> QED
    BY <2>3, <2>4, Zenon DEF acc
<1>15. ASSUME NEW l \in Level, NEW size \in PartNames(lines, l) PROVE Cpuinfo(lines)[l] >= size
  <2>1. PICK i \in 1 .. n, j \in 1 .. n :
          /\ InBlockOf(lines, i, j) /\ <<lines[i].value, lines[j].value>> \in DOMAIN ArmCores
          /\ size = ArmCores[<<lines[i].value, lines[j].value>>][l]
    BY <1>2, <1>15, Zenon DEF PartNames
  <2>2. /\ i < j /\ lines[i].key = "implementer" /\ i \in Nat /\ j \in Nat
        /\ \A k \in i + 1 .. j : ~opens(k)
    BY <2>1 DEF InBlockOf
  <2> HIDE DEF opens
  <2> DEFINE G1 == {d \in 0 .. j - 1 - i : f[i + d].implementer = lines[i].value}
             G2 == {d \in 0 .. n - j : f[j + d].sizes[l] >= size}
  <2>3. f[j - 1].implementer = lines[i].value
    <3>1. 0 \in G1
      <4>1. f[i].implementer = lines[i].value
        BY <1>14, <2>2, Zenon
      <4>2. i + 0 = i /\ 0 \in 0 .. j - 1 - i
        BY <2>2
      <4> QED
        BY <4>1, <4>2, Zenon
    <3>2. ASSUME NEW d \in 0 .. j - 1 - i - 1, d \in G1 PROVE d + 1 \in G1
      <4>1. /\ i + (d + 1) \in 1 .. n /\ i + (d + 1) \in i + 1 .. j
            /\ (i + (d + 1)) - 1 = i + d /\ d + 1 \in 0 .. j - 1 - i
        BY <1>2, <2>2
      <4>2. f[i + (d + 1)].implementer = f[i + d].implementer
        BY <1>14, <2>2, <4>1, Zenon
      <4> QED
        BY <3>2, <4>1, <4>2, Zenon
    <3>3. j - 1 - i \in Nat /\ j - 1 - i \in 0 .. j - 1 - i /\ i + (j - 1 - i) = j - 1
      BY <2>2
    <3> HIDE DEF G1
    <3>4. \A d \in 0 .. j - 1 - i : d \in G1
      BY <3>1, <3>2, <3>3, Rounds, Zenon
    <3>5. f[i + (j - 1 - i)].implementer = lines[i].value
      BY <3>3, <3>4, Zenon DEF G1
    <3> QED
      BY <3>3, <3>5
  <2>4. f[j].sizes[l] >= size
    <3>1. ~opens(j)
      BY <2>2
    <3>2. known(f[j - 1], j) /\ ArmCores[<<f[j - 1].implementer, lines[j].value>>][l] = size
      BY <2>1, <2>3, Zenon
    <3> QED
      BY <1>14, <3>1, <3>2, Zenon
  <2>5. size \in Nat
    BY <2>1, MachineAssumption, Zenon
  <2>6. f[n].sizes[l] >= size
    <3>1. 0 \in G2
      <4>1. j + 0 = j /\ 0 \in 0 .. n - j
        BY <1>2
      <4> QED
        BY <2>4, <4>1, Zenon
    <3>2. ASSUME NEW d \in 0 .. n - j - 1, d \in G2 PROVE d + 1 \in G2
      <4>1. /\ j + (d + 1) \in 1 .. n /\ (j + (d + 1)) - 1 = j + d
            /\ j + d \in 0 .. n /\ j + (d + 1) \in 0 .. n /\ d + 1 \in 0 .. n - j
        BY <1>2, <2>2
      <4> DEFINE x == f[j + d].sizes[l]
                 y == f[j + (d + 1)].sizes[l]
      <4>2. y >= x /\ x >= size
        BY <1>14, <3>2, <4>1, Zenon
      <4>3. x \in Nat /\ y \in Nat
        BY <1>13, <4>1, Zenon
      <4> HIDE DEF x, y
      <4>4. y >= size
        BY <2>5, <4>2, <4>3
      <4> QED
        BY <4>1, <4>4, Zenon DEF y
    <3>3. n - j \in Nat /\ n - j \in 0 .. n - j /\ j + (n - j) = n
      BY <1>2, <2>2
    <3> HIDE DEF G2
    <3>4. \A d \in 0 .. n - j : d \in G2
      BY <3>1, <3>2, <3>3, Rounds, Zenon
    <3> QED
      BY <3>3, <3>4, Zenon DEF G2
  <2> QED
    BY <1>13, <2>6, Zenon
<1> QED
  BY <1>1, <1>12, <1>15, Zenon DEF S

\* What a thread on a core asks last.
LEMMA LastSourceSizes ==
  ASSUME NEW m \in Machine, NEW core \in Core, NEW l \in Level
  PROVE  /\ LastSource(m, core)[l] \in Nat
         /\ \A size \in IF m.arch = "arm" THEN PartNames(m.cpuinfo, l)
                                           ELSE LeafNames(m, core, l) :
              /\ LastSource(m, core)[l] >= size
              /\ size > 0 => LastSource(m, core)[l] > 0
<1>1. CASE m.arch = "arm"
  <2> DEFINE lines == m.cpuinfo
             sizes == Cpuinfo(lines)
  <2>1. lines \in Seq([key : STRING, value : Nat])
    BY MachineFacts, Zenon DEF Described
  <2>2. LastSource(m, core) = sizes
    BY <1>1, Zenon DEF LastSource
  <2> HIDE DEF lines
  <2>3. /\ sizes \in [Level -> Nat]
        /\ \A size \in PartNames(lines, l) : sizes[l] >= size
    BY <2>1, CpuinfoSizes, Zenon
  <2> HIDE DEF sizes
  <2>4. ASSUME NEW size \in PartNames(lines, l), size > 0 PROVE sizes[l] > 0
    <3>1. PICK part \in DOMAIN ArmCores : size = ArmCores[part][l]
      BY <2>4, Zenon DEF PartNames
    <3>2. size \in Nat /\ sizes[l] \in Nat /\ sizes[l] >= size
      BY <2>3, <2>4, <3>1, MachineAssumption, Zenon
    <3> QED
      BY <2>4, <3>2
  <2> QED
    BY <1>1, <2>2, <2>3, <2>4, Zenon DEF lines
<1>2. CASE m.arch # "arm"
  <2> DEFINE x == Cpuid(m, core)[l]
  <2>1. x \in Nat /\ \A size \in LeafNames(m, core, l) : x = size /\ size > 0
    BY CpuidSizes, Zenon
  <2>2. LastSource(m, core)[l] = x
    BY <1>2, Zenon DEF LastSource
  <2>3. x >= x
    BY <2>1
  <2> HIDE DEF x
  <2> QED
    BY <1>2, <2>1, <2>2, <2>3, Zenon
<1> QED
  BY <1>1, <1>2, Zenon

\* jent_get_cachesize_sysfs_dir() covers the configured CPUs.
LEMMA SysfsSizes ==
  ASSUME NEW m \in Machine, NEW core \in Core, NEW l \in Level
  PROVE  /\ Sysfs(m)[l] \in Nat
         /\ \A c \in 1 .. Min({m.conf, Len(m.sysfs)}) :
              m.sysfs[c] # Absent =>
                \A size \in Named(m.sysfs[c], l) : Sysfs(m)[l] >= size
<1> DEFINE dirs == m.sysfs
           count == Len(dirs)
           n(c) == Min({MaxIndex, Len(dirs[c])})
           at(c) == {dirs[c][p] : p \in 1 .. n(c)}
           all == UNION {at(c) : c \in Walked(m)}
           these == {c \in Read(m) : c.level = l}
           sizes == {c.size : c \in these}
<1>0. MaxIndex \in Nat /\ MaxCpus \in Nat \ {0} /\ m.conf \in Int /\ m.conf <= MaxCpus
      /\ dirs \in Seq(Seq(CacheRecord) \cup {Absent})
  BY DiscoveryAssumption, MachineAssumption, MachineFacts, Zenon DEF Described
<1>1. count \in Nat /\ DOMAIN dirs = 1 .. count
      /\ \A c \in 1 .. count : dirs[c] # Absent => dirs[c] \in Seq(CacheRecord)
  <2> HIDE DEF dirs, CacheRecord
  <2> DEFINE R == Seq(CacheRecord)
  <2>1. dirs \in Seq(R \cup {Absent})
    BY <1>0, Zenon
  <2> HIDE DEF R
  <2>2. count \in Nat /\ DOMAIN dirs = 1 .. count /\ \A c \in 1 .. count : dirs[c] \in R \cup {Absent}
    BY <2>1
  <2> QED
    BY <2>2, Zenon DEF R
<1> HIDE DEF dirs, count
<1>2. ASSUME NEW c \in 1 .. count, dirs[c] # Absent
      PROVE  /\ n(c) \in Nat /\ n(c) <= Len(dirs[c])
             /\ \A p \in DOMAIN dirs[c] : p <= MaxIndex => p \in 1 .. n(c)
             /\ \A p \in 1 .. n(c) : dirs[c][p] \in CacheRecord
  <2>1. dirs[c] \in Seq(CacheRecord)
    BY <1>1, <1>2, Zenon
  <2> DEFINE caches == dirs[c]
  <2> HIDE DEF CacheRecord, caches
  <2>2. /\ Len(caches) \in Nat /\ DOMAIN caches = 1 .. Len(caches)
        /\ \A p \in 1 .. Len(caches) : caches[p] \in CacheRecord
    BY <2>1 DEF caches
  <2> DEFINE k == Min({MaxIndex, Len(caches)})
  <2>3. k = IF MaxIndex <= Len(caches) THEN MaxIndex ELSE Len(caches)
    BY <1>0, <2>2, SmallSets
  <2>4. /\ k \in Nat /\ k <= Len(caches)
        /\ \A p \in DOMAIN caches : p <= MaxIndex => p \in 1 .. k
    <3>1. MaxIndex \in Nat /\ Len(caches) \in Nat /\ DOMAIN caches = 1 .. Len(caches)
      BY <1>0, <2>2, Zenon
    <3> DEFINE len == Len(caches)
    <3>2. len \in Nat /\ k = IF MaxIndex <= len THEN MaxIndex ELSE len
      BY <2>3, <3>1, Zenon
    <3> HIDE DEF k, len
    <3>3. k \in Nat /\ k <= len /\ \A p \in 1 .. len : p <= MaxIndex => p \in 1 .. k
      BY <3>1, <3>2
    <3> QED
      BY <3>1, <3>3, Zenon DEF len
  <2>5. \A p \in 1 .. k : caches[p] \in CacheRecord
    <3> HIDE DEF k
    <3>1. \A p \in 1 .. k : p \in 1 .. Len(caches)
      BY <2>2, <2>4
    <3> QED
      BY <2>2, <3>1, Zenon
  <2> QED
    BY <2>4, <2>5, Zenon DEF caches
<1> DEFINE conf == IF m.conf <= 0 THEN 1 ELSE Min({m.conf, MaxCpus})
<1>3. conf \in Nat /\ conf >= 1 /\ (m.conf > 0 => conf = m.conf)
  <2>1. Min({m.conf, MaxCpus}) = m.conf
    BY <1>0, SmallSets
  <2> QED
    BY <1>0, <2>1
<1>4. Walked(m) = {c \in 1 .. MaxCpus :
                    \/ c <= conf /\ (c <= count /\ dirs[c] # Absent)
                    \/ c > conf /\ \A k \in conf + 1 .. c : k <= count /\ dirs[k] # Absent}
  BY Zenon DEF Walked, dirs, count
<1> HIDE DEF conf
<1>5. Walked(m) \subseteq 1 .. MaxCpus
      /\ \A c \in Walked(m) : c \in 1 .. count /\ dirs[c] # Absent
  <2>1. ASSUME NEW c \in Walked(m) PROVE c \in 1 .. MaxCpus /\ c <= count /\ dirs[c] # Absent
    <3>1. CASE c <= conf
      BY <1>3, <1>4, <3>1
    <3>2. CASE c > conf
      <4>1. c \in 1 .. MaxCpus /\ \A k \in conf + 1 .. c : k <= count /\ dirs[k] # Absent
        BY <1>0, <1>3, <1>4, <3>2
      <4>2. c \in conf + 1 .. c
        BY <1>3, <3>2, <4>1
      <4> QED
        BY <4>1, <4>2, Zenon
    <3> QED
      BY <1>0, <1>3, <1>4, <3>1, <3>2, Zenon
  <2> QED
    BY <1>1, <2>1
<1>6. IsFiniteSet(all) /\ all \subseteq CacheRecord
  <2> DEFINE f == [c \in Walked(m) |-> at(c)]
  <2>1. IsFiniteSet(Walked(m))
    <3>1. IsFiniteSet(1 .. MaxCpus)
      BY <1>0, FS_Interval
    <3> QED
      BY <1>5, <3>1, FS_Subset, Zenon
  <2>2. {at(c) : c \in Walked(m)} = {f[c] : c \in Walked(m)}
    <3> HIDE DEF at
    <3> QED
      BY Zenon
  <2>3. IsFiniteSet({f[c] : c \in Walked(m)})
    <3> HIDE DEF f
    <3> QED
      BY <2>1, ImageFinite, Zenon
  <2>4. ASSUME NEW c \in Walked(m) PROVE IsFiniteSet(at(c)) /\ at(c) \subseteq CacheRecord
    <3>1. n(c) \in Nat /\ \A p \in 1 .. n(c) : dirs[c][p] \in CacheRecord
      BY <1>2, <1>5, Zenon
    <3> DEFINE I == 1 .. n(c)
               caches == dirs[c]
    <3> HIDE DEF n
    <3>2. IsFiniteSet(I)
      BY <3>1, FS_Interval
    <3> HIDE DEF I, caches
    <3>3. IsFiniteSet({caches[p] : p \in I})
      BY <3>2, ImageFinite, Zenon
    <3> QED
      BY <3>1, <3>3, Zenon DEF I, caches
  <2> HIDE DEF at, f
  <2> DEFINE U == {at(c) : c \in Walked(m)}
  <2>5. IsFiniteSet(U)
    BY <2>2, <2>3, Zenon
  <2>6. \A T \in U : IsFiniteSet(T) /\ T \subseteq CacheRecord
    BY <2>4, Zenon
  <2> HIDE DEF U
  <2>7. IsFiniteSet(UNION U) /\ UNION U \subseteq CacheRecord
    <3>1. IsFiniteSet(UNION U)
      BY <2>5, <2>6, FS_UNION, Zenon
    <3> QED
      BY <2>6, <3>1, Zenon
  <2> QED
    BY <2>7, Zenon DEF U
<1>7. Read(m) = {c \in all : IsData(c) /\ c.level \in Level /\ c.size > 0}
  BY Zenon DEF Read, dirs
<1>8. IsFiniteSet(sizes) /\ sizes \subseteq Int
  <2>1. these \subseteq all
    BY <1>7, Zenon
  <2> HIDE DEF these, all
  <2>2. IsFiniteSet(these) /\ \A c \in these : c \in CacheRecord
    BY <1>6, <2>1, FS_Subset, Zenon
  <2> DEFINE f == [c \in these |-> c.size]
  <2>3. IsFiniteSet({f[c] : c \in these})
    <3> HIDE DEF f
    <3> QED
      BY <2>2, ImageFinite, Zenon
  <2>4. sizes = {f[c] : c \in these}
    BY Zenon
  <2>5. \A c \in these : c.size \in Int
    BY <2>2 DEF CacheRecord
  <2> QED
    BY <2>3, <2>4, <2>5, Zenon
<1>9. Sysfs(m)[l] = Largest(sizes)
  BY Zenon DEF Sysfs
<1>10. Largest(sizes) \in Nat /\ \A x \in sizes : x <= Largest(sizes)
  <2> HIDE DEF sizes
  <2> QED
    BY <1>8, LargestBounds, Zenon
<1>11. ASSUME NEW c \in 1 .. Min({m.conf, Len(m.sysfs)}), m.sysfs[c] # Absent,
              NEW size \in Named(m.sysfs[c], l)
       PROVE  size \in sizes
  <2>1. c \in 1 .. m.conf /\ c \in 1 .. count /\ c <= conf /\ c \in 1 .. MaxCpus
    <3>1. Min({m.conf, count}) = IF m.conf <= count THEN m.conf ELSE count
      <4>1. m.conf \in Int /\ count \in Int
        BY <1>0, <1>1
      <4> HIDE DEF count
      <4> QED
        BY <4>1, SmallSets, Zenon
    <3>2. c \in 1 .. Min({m.conf, count})
      BY Zenon DEF dirs, count
    <3> QED
      BY <1>0, <1>1, <1>3, <3>1, <3>2
  <2>2. dirs[c] # Absent /\ size \in Named(dirs[c], l)
    BY <1>11, Zenon DEF dirs
  <2>3. c \in Walked(m)
    BY <1>4, <2>1, <2>2
  <2>4. PICK p \in DOMAIN dirs[c] : DataCache(dirs[c][p], l) /\ size = dirs[c][p].size
    BY <2>2, NamedAt
  <2>5. InReach(dirs[c])
    BY <1>1, <2>1, <2>2, MachineAssumption, Zenon DEF dirs
  <2>6. p <= MaxIndex
    BY <2>4, <2>5, Zenon DEF InReach
  <2>7. p \in 1 .. n(c)
    BY <1>2, <2>1, <2>2, <2>4, <2>6, Zenon
  <2> DEFINE cache == dirs[c][p]
  <2>8. cache \in at(c)
    BY <2>7, Zenon
  <2> HIDE DEF at, cache
  <2>9. cache \in all
    BY <2>3, <2>8, Zenon
  <2> HIDE DEF all
  <2>10. cache \in Read(m) /\ cache.level = l
    BY <1>7, <2>4, <2>9, Zenon DEF DataCache, cache
  <2> QED
    BY <2>4, <2>10, Zenon DEF cache
<1> HIDE DEF sizes
<1> QED
  BY <1>9, <1>10, <1>11, Zenon

-----------------------------------------------------------------------------
(* The discovery covers the caches of the machine *)

\* jent_get_cachesize_uncached() of Linux.
LEMMA UserSizes ==
  ASSUME NEW m \in Machine, NEW core \in Core, NEW l \in Level
  PROVE  /\ UncachedUser(m, core)[l] \in Nat
         /\ UncachedUser(m, core)[l] >= Sysfs(m)[l]
         /\ m.sysconf[l] > 0 => UncachedUser(m, core)[l] > 0
         /\ LastSource(m, core)[l] > 0 => UncachedUser(m, core)[l] > 0
         /\ Sysfs(m)[l] = 0 /\ m.sysconf[l] <= 0 =>
              UncachedUser(m, core)[l] = LastSource(m, core)[l]
<1> DEFINE sysfs == Sysfs(m)
           sysconf == Sysconf(m)
           merged == IF Complete(sysfs) THEN sysfs ELSE Merge(sysfs, sysconf)
           last == LastSource(m, core)
           user == UncachedUser(m, core)
<1>1. sysfs[l] \in Nat /\ last[l] \in Nat /\ m.sysconf[l] \in Int
  <2>1. m.sysconf \in [Level -> Int]
    BY MachineFacts, Zenon DEF Described
  <2> QED
    BY <2>1, SysfsSizes, LastSourceSizes, Zenon
<1>2. sysconf[l] = IF m.sysconf[l] >= 0 THEN m.sysconf[l] ELSE 0
  BY <1>1, LargestOne, Zenon DEF Sysconf
<1>3. user = IF Complete(merged) THEN merged ELSE Completed(merged, last)
  BY Zenon DEF UncachedUser
<1> HIDE DEF sysfs, sysconf, last, user
<1>4. /\ merged[l] \in Nat /\ merged[l] >= sysfs[l]
      /\ (m.sysconf[l] > 0 => merged[l] > 0)
      /\ (sysfs[l] = 0 /\ m.sysconf[l] <= 0 => merged[l] = 0)
  <2>1. CASE Complete(sysfs)
    <3>1. sysfs[l] # 0 /\ merged = sysfs
      BY <2>1, Zenon DEF Complete
    <3> HIDE DEF merged
    <3> QED
      BY <1>1, <3>1
  <2>2. CASE ~Complete(sysfs)
    <3>1. merged = Merge(sysfs, sysconf)
      BY <2>2, Zenon
    <3>2. sysconf[l] \in Int /\ sysfs[l] \in Int
      BY <1>1, <1>2
    <3>3. /\ merged[l] \in Nat /\ merged[l] >= sysfs[l] /\ merged[l] >= sysconf[l]
          /\ sysfs[l] = 0 /\ sysconf[l] = 0 => merged[l] = 0
      BY <3>1, <3>2, MergeSizes, Zenon
    <3> HIDE DEF merged
    <3> QED
      BY <1>1, <1>2, <3>2, <3>3
  <2> QED
    BY <2>1, <2>2, Zenon
<1> HIDE DEF merged
<1>5. user[l] = IF merged[l] = 0 THEN last[l] ELSE merged[l]
  <2>1. CASE Complete(merged)
    BY <1>3, <2>1, Zenon DEF Complete
  <2>2. CASE ~Complete(merged)
    BY <1>3, <2>2, Zenon DEF Completed
  <2> QED
    BY <2>1, <2>2, Zenon
<1>6. /\ user[l] \in Nat /\ user[l] >= sysfs[l]
      /\ m.sysconf[l] > 0 => user[l] > 0
      /\ last[l] > 0 => user[l] > 0
      /\ sysfs[l] = 0 /\ m.sysconf[l] <= 0 => user[l] = last[l]
  BY <1>1, <1>4, <1>5
<1> QED
  BY <1>6, Zenon DEF user, sysfs, last

\* jent_cache_sizes_worker() on one core.
LEMMA WorkerSizes ==
  ASSUME NEW m \in Machine, NEW core \in Core, NEW l \in Level
  PROVE  /\ Worker(m, core)[l] \in Nat
         /\ \A size \in CoreNames(m, core, l) : Worker(m, core)[l] = size
<1>1. CASE m.arch = "arm"
  <2> DEFINE levels == m.clidr[core]
             here == /\ l <= Len(levels) /\ IsData(levels[l])
                     /\ \A k \in 1 .. l : levels[k].type # "none"
                     /\ levels[l].size >= Arm64Min
  <2>1. levels \in Seq(CacheRecord) /\ InOrder(levels)
    BY MachineFacts, Zenon
  <2> HIDE DEF levels
  <2>2. Worker(m, core)[l] = IF here THEN levels[l].size ELSE 0
    BY <1>1, Zenon DEF Worker, Arm64, levels
  <2>3. /\ Len(levels) \in Nat /\ DOMAIN levels = 1 .. Len(levels)
        /\ \A k \in 1 .. Len(levels) : levels[k] \in CacheRecord
    <3> HIDE DEF CacheRecord
    <3> QED
      BY <2>1
  <2>4. l \in Nat /\ l >= 1
    BY DEF Level
  <2> HIDE DEF here
  <2>5. Worker(m, core)[l] \in Nat
    <3>1. CASE here
      <4>1. l \in 1 .. Len(levels)
        BY <2>3, <2>4, <3>1 DEF here
      <4>2. levels[l].size \in Nat
        BY <2>3, <4>1, Zenon DEF CacheRecord
      <4> QED
        BY <2>2, <3>1, <4>2, Zenon
    <3>2. CASE ~here
      BY <2>2, <3>2
    <3> QED
      BY <3>1, <3>2, Zenon
  <2>6. ASSUME NEW size \in CoreNames(m, core, l) PROVE Worker(m, core)[l] = size
    <3>1. size \in Named(levels, l) /\ size >= Arm64Min
      BY <1>1, <2>6, Zenon DEF CoreNames, levels
    <3>2. PICK p \in DOMAIN levels : DataCache(levels[p], l) /\ size = levels[p].size
      BY <3>1, NamedAt
    <3>3. p = l /\ IsData(levels[p]) /\ \A k \in 1 .. p : levels[k].type # "none"
      BY <2>1, <3>2, Zenon DEF InOrder, DataCache
    <3>4. l <= Len(levels)
      BY <2>3, <3>2, <3>3
    <3>5. here
      BY <3>1, <3>2, <3>3, <3>4, Zenon DEF here
    <3> QED
      BY <2>2, <3>2, <3>3, <3>5, Zenon
  <2> QED
    BY <2>5, <2>6, Zenon
<1>2. CASE m.arch # "arm"
  BY <1>2, CpuidSizes, Zenon DEF Worker, CoreNames
<1> QED
  BY <1>1, <1>2, Zenon

\* jent_get_cachesize_uncached() of the Linux kernel.
LEMMA KernelSizes ==
  ASSUME NEW m \in Machine, NEW core \in Core, NEW l \in Level
  PROVE  /\ UncachedKernel(m)[l] \in Nat
         /\ \A size \in CoreNames(m, core, l) : UncachedKernel(m)[l] >= size
<1> DEFINE f == [c \in Core |-> Worker(m, c)[l]]
           sizes == {f[c] : c \in Core}
<1>1. UncachedKernel(m)[l] = Largest(sizes)
  <2>1. DOMAIN m.leaf4 = Core
    BY MachineFacts, Zenon
  <2>2. {Worker(m, c)[l] : c \in Core} = sizes
    BY Zenon
  <2>3. UncachedKernel(m)[l] = Largest({Worker(m, c)[l] : c \in DOMAIN m.leaf4})
    BY Zenon DEF UncachedKernel
  <2> QED
    BY <2>1, <2>2, <2>3, Zenon
<1>2. \A c \in Core : f[c] \in Nat
  BY WorkerSizes, Zenon
<1> HIDE DEF f
<1>3. IsFiniteSet(sizes) /\ sizes \subseteq Int
  <2>1. IsFiniteSet(sizes)
    BY ImageFinite, MachineAssumption, Zenon
  <2> QED
    BY <1>2, <2>1
<1>4. f[core] \in sizes
  BY Zenon
<1> HIDE DEF sizes
<1>5. Largest(sizes) \in Nat /\ f[core] <= Largest(sizes)
  BY <1>3, <1>4, LargestBounds, Zenon
<1>6. ASSUME NEW size \in CoreNames(m, core, l) PROVE f[core] = size
  BY WorkerSizes, Zenon DEF f
<1> QED
  BY <1>1, <1>2, <1>5, <1>6, Zenon

\* jent_get_cachesize_uncached() of Windows.
LEMMA WindowsSizes ==
  ASSUME NEW m \in Machine, NEW core \in Core, NEW l \in Level
  PROVE  /\ Windows(m)[l] \in Nat
         /\ \A c \in Records(m) : c.size \in Named(<<c>>, l) => Windows(m)[l] >= c.size
<1> DEFINE entries == m.records
           good == {k \in DOMAIN entries : \A n \in 1 .. k : entries[n] # Malformed}
           here == {k \in good : entries[k].relation = "cache"}
           these == {c \in Records(m) : c.level = l /\ IsData(c) /\ (l = 1 => c.type = "data")}
           sizes == {c.size : c \in these}
           Entry == [relation : STRING, cache : CacheRecord]
<1>1. /\ Len(entries) \in Nat /\ DOMAIN entries = 1 .. Len(entries)
      /\ \A k \in DOMAIN entries : entries[k] \in Entry \cup {Malformed}
  <2>1. entries \in Seq(Entry \cup {Malformed})
    BY MachineFacts, Zenon DEF Described
  <2> HIDE DEF entries, Entry
  <2> QED
    BY <2>1
<1>2. Records(m) = {entries[k].cache : k \in here}
  BY Zenon DEF Records
<1> HIDE DEF entries
<1>3. ASSUME NEW k \in good PROVE entries[k] \in Entry
  <2>1. k \in DOMAIN entries /\ \A n \in 1 .. k : entries[n] # Malformed
    BY Zenon
  <2>2. k \in 1 .. k
    BY <1>1, <2>1
  <2>3. entries[k] # Malformed
    BY <2>1, <2>2, Zenon
  <2> HIDE DEF Entry
  <2> QED
    BY <1>1, <2>1, <2>3, Zenon
<1>4. IsFiniteSet(Records(m)) /\ Records(m) \subseteq CacheRecord
  <2>1. IsFiniteSet(DOMAIN entries)
    BY <1>1, FS_Interval
  <2>2. here \subseteq DOMAIN entries /\ here \subseteq good
    BY Zenon
  <2>3. \A k \in here : entries[k].cache \in CacheRecord
    <3> HIDE DEF good, CacheRecord
    <3> QED
      BY <1>3, Zenon
  <2> HIDE DEF here
  <2>4. IsFiniteSet(here)
    BY <2>1, <2>2, FS_Subset, Zenon
  <2> DEFINE f == [k \in here |-> entries[k].cache]
  <2>5. IsFiniteSet({f[k] : k \in here})
    <3> HIDE DEF f
    <3> QED
      BY <2>4, ImageFinite, Zenon
  <2>6. Records(m) = {f[k] : k \in here}
    BY <1>2, Zenon
  <2> HIDE DEF CacheRecord
  <2> QED
    BY <2>3, <2>5, <2>6, Zenon
<1>5. IsFiniteSet(sizes) /\ sizes \subseteq Int
  <2>1. these \subseteq Records(m)
    BY Zenon
  <2> HIDE DEF these
  <2>2. IsFiniteSet(these) /\ \A c \in these : c \in CacheRecord
    BY <1>4, <2>1, FS_Subset, Zenon
  <2> DEFINE f == [c \in these |-> c.size]
  <2>3. IsFiniteSet({f[c] : c \in these})
    <3> HIDE DEF f
    <3> QED
      BY <2>2, ImageFinite, Zenon
  <2>4. sizes = {f[c] : c \in these}
    BY Zenon
  <2>5. \A c \in these : c.size \in Int
    BY <2>2 DEF CacheRecord
  <2> QED
    BY <2>3, <2>4, <2>5, Zenon
<1>6. Windows(m)[l] = Largest(sizes)
  BY Zenon DEF Windows
<1>7. Largest(sizes) \in Nat /\ \A x \in sizes : x <= Largest(sizes)
  <2> HIDE DEF sizes
  <2> QED
    BY <1>5, LargestBounds, Zenon
<1>8. ASSUME NEW c \in Records(m), c.size \in Named(<<c>>, l) PROVE c.size \in sizes
  <2>1. PICK p \in DOMAIN <<c>> : DataCache(<<c>>[p], l)
    BY <1>8, NamedAt, Zenon
  <2>2. <<c>>[p] = c
    BY <2>1
  <2>3. DataCache(c, l)
    BY <2>1, <2>2, Zenon
  <2>4. c \in these
    BY <2>3, Zenon DEF DataCache
  <2> HIDE DEF these
  <2> QED
    BY <2>4, Zenon
<1> HIDE DEF sizes
<1>9. \A c \in Records(m) : c.size \in Named(<<c>>, l) => c.size \in Int
  BY <1>5, <1>8, Zenon
<1>10. ASSUME NEW c \in Records(m), c.size \in Named(<<c>>, l) PROVE Largest(sizes) >= c.size
  BY <1>7, <1>8, <1>9, <1>10, Zenon
<1> QED
  BY <1>6, <1>7, <1>10, Zenon

\* The sizes a discovery returns.
LEMMA UncachedSizes ==
  ASSUME NEW m \in Machine, NEW core \in Core
  PROVE  Uncached(m, core) \in [Level -> Nat]
<1> DEFINE s == Uncached(m, core)
<1>1. m.build \in {"linux", "kernel", "apple", "windows", "bsd", "aix"}
  BY MachineFacts, Zenon DEF Described
<1>2. CASE m.build = "linux"
  <2>1. s = UncachedUser(m, core)
    BY <1>2, Zenon DEF Uncached
  <2>2. \A l \in Level : UncachedUser(m, core)[l] \in Nat
    BY UserSizes, Zenon
  <2>3. UncachedUser(m, core) = [l \in Level |-> UncachedUser(m, core)[l]]
    BY Zenon DEF UncachedUser, Completed, Merge, Sysfs
  <2> QED
    BY <2>1, <2>2, <2>3, Zenon
<1>3. CASE m.build = "kernel"
  <2>1. s = UncachedKernel(m)
    BY <1>3, Zenon DEF Uncached
  <2>2. \A l \in Level : UncachedKernel(m)[l] \in Nat
    BY KernelSizes, Zenon
  <2>3. UncachedKernel(m) = [l \in Level |-> UncachedKernel(m)[l]]
    BY Zenon DEF UncachedKernel
  <2> QED
    BY <2>1, <2>2, <2>3, Zenon
<1>4. CASE m.build = "apple"
  <2>1. s = Sysctl(m)
    BY <1>4, Zenon DEF Uncached
  <2>2. m.sysctl.perflevel0 \in [Level -> Nat] /\ m.sysctl.flat \in [Level -> Nat]
    BY MachineFacts, Zenon DEF Described
  <2> QED
    BY <2>1, <2>2, Zenon DEF Sysctl
<1>5. CASE m.build = "windows"
  <2>1. s = Windows(m)
    BY <1>5, Zenon DEF Uncached
  <2>2. \A l \in Level : Windows(m)[l] \in Nat
    BY WindowsSizes, Zenon
  <2>3. Windows(m) = [l \in Level |-> Windows(m)[l]]
    BY Zenon DEF Windows
  <2> QED
    BY <2>1, <2>2, <2>3, Zenon
<1>6. CASE m.build = "bsd"
  <2>1. s = Cpuid(m, core)
    BY <1>6, Zenon DEF Uncached
  <2>2. \A l \in Level : Cpuid(m, core)[l] \in Nat
    BY CpuidSizes, Zenon
  <2>3. Cpuid(m, core) = [l \in Level |-> Cpuid(m, core)[l]]
    BY Zenon DEF Cpuid, CpuidLeaf
  <2> QED
    BY <2>1, <2>2, <2>3, Zenon
<1>7. CASE m.build = "aix"
  <2>1. s = Aix(m)
    BY <1>7, Zenon DEF Uncached
  <2>2. m.sysconfig \in [1 .. 2 -> Int]
    BY MachineFacts, Zenon DEF Described
  <2>3. \A x \in Int : Largest({x}) \in Nat
    BY LargestOne
  <2> QED
    BY <2>1, <2>2, <2>3 DEF Aix, Level
<1> QED
  BY <1>1, <1>2, <1>3, <1>4, <1>5, <1>6, <1>7, Zenon

\* What jent_get_cachesize_uncached() finds covers the caches of the machine.
LEMMA UncachedCovers ==
  ASSUME NEW m \in Machine, NEW core \in Core
  PROVE  Covers(m, core, Uncached(m, core))
<1> DEFINE s == Uncached(m, core)
           dirs(l) == {k \in 1 .. Min({m.conf, Len(m.sysfs)}) : m.sysfs[k] # Absent}
           shown(l) == UNION {Named(m.sysfs[c], l) : c \in dirs(l)}
           last(l) == IF m.arch = "arm" THEN PartNames(m.cpuinfo, l)
                                        ELSE LeafNames(m, core, l)
           asked(l) == shown(l) \cup {m.sysconf[l]} \cup last(l)
           kernel(l) == \A c \in Core : \A size \in CoreNames(m, c, l) : s[l] >= size
           linux(l) == /\ \A size \in shown(l) : s[l] >= size
                       /\ (\E size \in asked(l) : size > 0) => s[l] > 0
                       /\ Sysfs(m)[l] = 0 /\ m.sysconf[l] <= 0 =>
                            \A size \in last(l) : s[l] >= size
           apple(l) == /\ s[l] >= m.sysctl.perflevel0[l]
                       /\ m.sysctl.flat[l] > 0 => s[l] > 0
           windows(l) == \A c \in Records(m) : c.size \in Named(<<c>>, l) => s[l] >= c.size
           bsd(l) == \A size \in LeafNames(m, core, l) : s[l] >= size
           aix(l) == l < 3 => s[l] >= m.sysconfig[l]
           covered(l) == CASE m.build = "kernel" -> kernel(l)
                           [] m.build = "linux" -> linux(l)
                           [] m.build = "apple" -> apple(l)
                           [] m.build = "windows" -> windows(l)
                           [] m.build = "bsd" -> bsd(l)
                           [] m.build = "aix" -> aix(l)
<1>1. Covers(m, core, s) <=> \A l \in Level : covered(l)
  BY Zenon DEF Covers
<1> SUFFICES ASSUME NEW l \in Level PROVE covered(l)
  BY <1>1, Zenon
<1>2. m.build \in {"linux", "kernel", "apple", "windows", "bsd", "aix"}
  BY MachineFacts, Zenon DEF Described
<1>3. s[l] \in Nat
  BY UncachedSizes, Zenon
<1>4. CASE m.build = "kernel"
  <2>1. s = UncachedKernel(m)
    BY <1>4, Zenon DEF Uncached
  <2>2. kernel(l)
    BY <2>1, KernelSizes, Zenon
  <2> HIDE DEF kernel, linux, apple, windows, bsd, aix
  <2> QED
    BY <1>4, <2>2, Zenon
<1>5. CASE m.build = "linux"
  <2>1. s = UncachedUser(m, core)
    BY <1>5, Zenon DEF Uncached
  <2> DEFINE user == UncachedUser(m, core)[l]
  <2>2. /\ user \in Nat /\ Sysfs(m)[l] \in Nat /\ user >= Sysfs(m)[l]
        /\ m.sysconf[l] > 0 => user > 0
        /\ LastSource(m, core)[l] > 0 => user > 0
        /\ Sysfs(m)[l] = 0 /\ m.sysconf[l] <= 0 => user = LastSource(m, core)[l]
    BY UserSizes, SysfsSizes, Zenon
  <2>2a. ASSUME NEW size \in last(l)
         PROVE  /\ LastSource(m, core)[l] >= size
                /\ size > 0 => LastSource(m, core)[l] > 0
    BY <2>2a, LastSourceSizes, Zenon
  <2> HIDE DEF user
  <2>3. ASSUME NEW size \in shown(l) PROVE user >= size /\ (size > 0 => user > 0)
    <3>1. PICK c \in dirs(l) : size \in Named(m.sysfs[c], l)
      BY <2>3, Zenon
    <3>2. Sysfs(m)[l] >= size
      BY <3>1, SysfsSizes, Zenon
    <3>3. size \in Nat
      <4>1. PICK p \in DOMAIN m.sysfs[c] : size = m.sysfs[c][p].size
        BY <3>1, NamedAt
      <4>2. m.sysfs[c] \in Seq(CacheRecord)
        <5> DEFINE R == Seq(CacheRecord)
                   all == m.sysfs
        <5>1. all \in Seq(R \cup {Absent}) /\ m.conf \in Int
          BY MachineFacts, Zenon DEF Described
        <5> HIDE DEF R, all
        <5>2. Len(all) \in Nat /\ \A k \in 1 .. Len(all) : all[k] \in R \cup {Absent}
          BY <5>1
        <5>3. c \in 1 .. Len(all)
          <6>1. Min({m.conf, Len(all)}) = IF m.conf <= Len(all) THEN m.conf ELSE Len(all)
            <7>1. m.conf \in Int /\ Len(all) \in Int
              BY <5>1, <5>2
            <7> QED
              BY <7>1, SmallSets, Zenon
          <6>2. c \in 1 .. Min({m.conf, Len(all)})
            BY Zenon DEF all
          <6> QED
            BY <5>1, <5>2, <6>1, <6>2
        <5>4. all[c] \in R
          BY <5>2, <5>3, Zenon DEF all
        <5> QED
          BY <5>4, Zenon DEF R, all
      <4> DEFINE caches == m.sysfs[c]
      <4> HIDE DEF caches
      <4>3. caches[p] \in CacheRecord
        <5> HIDE DEF CacheRecord
        <5> QED
          BY <4>1, <4>2 DEF caches
      <4> QED
        BY <4>1, <4>3, Zenon DEF CacheRecord, caches
    <3> QED
      BY <2>2, <3>2, <3>3
  <2>4. ASSUME NEW size \in asked(l), size > 0 PROVE user > 0
    <3>1. CASE size \in shown(l)
      BY <2>3, <2>4, <3>1, Zenon
    <3>2. CASE size = m.sysconf[l]
      BY <2>2, <2>4, <3>2, Zenon
    <3>3. CASE size \in last(l)
      BY <2>2, <2>2a, <2>4, <3>3, Zenon
    <3> HIDE DEF shown, last
    <3> QED
      BY <2>4, <3>1, <3>2, <3>3, Zenon
  <2>5. linux(l)
    <3> HIDE DEF shown, asked, last
    <3> QED
      BY <2>1, <2>2, <2>2a, <2>3, <2>4, Zenon DEF user
  <2> HIDE DEF kernel, linux, apple, windows, bsd, aix
  <2> QED
    BY <1>5, <2>5, Zenon
<1>6. CASE m.build = "apple"
  <2>1. s = Sysctl(m)
    BY <1>6, Zenon DEF Uncached
  <2>2. m.sysctl.perflevel0 \in [Level -> Nat] /\ m.sysctl.flat \in [Level -> Nat]
    BY MachineFacts, Zenon DEF Described
  <2>3. apple(l)
    <3>1. m.sysctl.perflevel0[l] \in Nat /\ m.sysctl.flat[l] \in Nat
      BY <2>2, Zenon
    <3>2. /\ m.sysctl.perflevel0[l] # 0 => s[l] = m.sysctl.perflevel0[l]
          /\ m.sysctl.perflevel0[l] = 0 => s[l] = m.sysctl.flat[l]
      BY <2>1, Zenon DEF Sysctl
    <3> HIDE DEF s
    <3> QED
      BY <1>3, <3>1, <3>2
  <2> HIDE DEF kernel, linux, apple, windows, bsd, aix
  <2> QED
    BY <1>6, <2>3, Zenon
<1>7. CASE m.build = "windows"
  <2>1. s = Windows(m)
    BY <1>7, Zenon DEF Uncached
  <2>2. windows(l)
    BY <2>1, WindowsSizes, Zenon
  <2> HIDE DEF kernel, linux, apple, windows, bsd, aix
  <2> QED
    BY <1>7, <2>2, Zenon
<1>8. CASE m.build = "bsd"
  <2>1. s = Cpuid(m, core)
    BY <1>8, Zenon DEF Uncached
  <2>2. ASSUME NEW size \in LeafNames(m, core, l) PROVE Cpuid(m, core)[l] >= size
    <3>1. Cpuid(m, core)[l] = size /\ Cpuid(m, core)[l] \in Nat
      BY CpuidSizes, Zenon
    <3> QED
      BY <3>1
  <2>3. bsd(l)
    BY <2>1, <2>2, Zenon
  <2> HIDE DEF kernel, linux, apple, windows, bsd, aix
  <2> QED
    BY <1>8, <2>3, Zenon
<1>9. CASE m.build = "aix"
  <2>1. s = Aix(m)
    BY <1>9, Zenon DEF Uncached
  <2>2. m.sysconfig \in [1 .. 2 -> Int]
    BY MachineFacts, Zenon DEF Described
  <2>3. aix(l)
    <3>1. ASSUME l < 3 PROVE s[l] >= m.sysconfig[l]
      <4>1. l \in 1 .. 2 /\ l # 3
        BY <3>1 DEF Level
      <4>2. m.sysconfig[l] \in Int
        BY <2>2, <4>1, Zenon
      <4>3. s[l] = Largest({m.sysconfig[l]})
        BY <2>1, <4>1, Zenon DEF Aix
      <4>4. s[l] = IF m.sysconfig[l] >= 0 THEN m.sysconfig[l] ELSE 0
        BY <4>2, <4>3, LargestOne, Zenon
      <4> HIDE DEF s
      <4> QED
        BY <4>2, <4>4
    <3> QED
      BY <3>1, Zenon
  <2> HIDE DEF kernel, linux, apple, windows, bsd, aix
  <2> QED
    BY <1>9, <2>3, Zenon
<1> QED
  BY <1>2, <1>4, <1>5, <1>6, <1>7, <1>8, <1>9, Zenon

-----------------------------------------------------------------------------
(* The memo of jent_cache_size_roundup() *)

\* Exponents that come from a discovery.
Stems(bits, all) ==
  \E d \in discovered : bits = SizeBits(RoundupFromSizes(d.sizes, all))

\* What a thread has found and stored, and the size it has derived.
MemoOf(t) ==
  /\ pc[t] \in {"store_l1", "store_all", "store_valid"} =>
       \E d \in discovered : found[t] = d.sizes
  /\ pc[t] \in {"store_all", "store_valid", "load"} => Stems(cached[FALSE], FALSE)
  /\ pc[t] \in {"store_valid", "load"} => Stems(cached[TRUE], TRUE)
  /\ (pc[t] = "mem" \/ mem[t]) /\ ask[t].field = 0 =>
       \E bits : /\ Stems(bits, ask[t].all_caches)
                 /\ memmask[t] + 1 = Memsize(AutoField(bits, ask[t].all_caches))

MemoKept ==
  /\ found = [t \in Thread |-> found[t]]
  /\ \A d \in discovered : d.core \in Core /\ d.sizes = Uncached(machine, d.core)
  /\ cached_valid => Stems(cached[FALSE], FALSE) /\ Stems(cached[TRUE], TRUE)
  /\ \A t \in Thread : MemoOf(t)

\* What was discovered and the exponents that are stored stay good.
Grows ==
  /\ discovered \subseteq discovered'
  /\ Stems(cached[FALSE], FALSE) => Stems(cached[FALSE], FALSE)'
  /\ Stems(cached[TRUE], TRUE) => Stems(cached[TRUE], TRUE)'

\* A discovery that was recorded stays recorded.
LEMMA StemsOn ==
  ASSUME discovered \subseteq discovered', NEW bits, NEW all, Stems(bits, all)
  PROVE  \E d \in discovered' : bits = SizeBits(RoundupFromSizes(d.sizes, all))
  BY Zenon DEF Stems

Untouched(u) ==
  /\ pc'[u] = pc[u] /\ ask'[u] = ask[u] /\ found'[u] = found[u]
  /\ mem'[u] = mem[u] /\ memmask'[u] = memmask[u]

\* What is memoized for a thread is kept by the steps of the others.
LEMMA MemoOthers ==
  ASSUME NEW u, MemoOf(u), Untouched(u), Grows
  PROVE  MemoOf(u)'
<1>1. discovered \subseteq discovered'
  BY Zenon DEF Grows
<1>2. pc'[u] \in {"store_l1", "store_all", "store_valid"} =>
        \E d \in discovered' : found'[u] = d.sizes
  BY <1>1, Zenon DEF MemoOf, Untouched
<1>3. /\ pc'[u] \in {"store_all", "store_valid", "load"} => Stems(cached[FALSE], FALSE)'
      /\ pc'[u] \in {"store_valid", "load"} => Stems(cached[TRUE], TRUE)'
  BY Zenon DEF MemoOf, Untouched, Grows
<1>4. ASSUME pc'[u] = "mem" \/ mem'[u], ask'[u].field = 0
      PROVE  \E bits : /\ \E d \in discovered' :
                            bits = SizeBits(RoundupFromSizes(d.sizes, ask'[u].all_caches))
                       /\ memmask'[u] + 1 = Memsize(AutoField(bits, ask'[u].all_caches))
  <2>1. PICK bits : /\ Stems(bits, ask[u].all_caches)
                    /\ memmask[u] + 1 = Memsize(AutoField(bits, ask[u].all_caches))
    BY <1>4, Zenon DEF MemoOf, Untouched
  <2>2. \E d \in discovered' : bits = SizeBits(RoundupFromSizes(d.sizes, ask[u].all_caches))
    BY <1>1, <2>1, StemsOn, Zenon
  <2>3. ask'[u] = ask[u] /\ memmask'[u] = memmask[u]
    BY Zenon DEF Untouched
  <2> QED
    BY <2>1, <2>2, <2>3, Zenon
<1> QED
  BY <1>2, <1>3, <1>4, Zenon DEF MemoOf, Stems

\* A thread outside of the discovery that has no region of automatic size, or
\* keeps the one it has.
LEMMA MemoQuiet ==
  ASSUME NEW t, MemoOf(t), Grows,
         pc'[t] \in {"idle", "state", "load_valid", "discover", "mem", "failed",
                    "rest", "live"},
         \/ pc'[t] # "mem" /\ ~mem'[t]
         \/ ask'[t].field # 0
         \/ /\ pc[t] = "mem" \/ mem[t]
            /\ ask'[t] = ask[t] /\ memmask'[t] + 1 = memmask[t] + 1
  PROVE  MemoOf(t)'
<1>1. discovered \subseteq discovered'
  BY Zenon DEF Grows
<1>2. pc'[t] \notin {"store_l1", "store_all", "store_valid", "load"}
  BY Zenon
<1>3. ASSUME pc'[t] = "mem" \/ mem'[t], ask'[t].field = 0
      PROVE  \E bits : /\ \E d \in discovered' :
                            bits = SizeBits(RoundupFromSizes(d.sizes, ask'[t].all_caches))
                       /\ memmask'[t] + 1 = Memsize(AutoField(bits, ask'[t].all_caches))
  <2>1. /\ pc[t] = "mem" \/ mem[t]
        /\ ask'[t] = ask[t] /\ memmask'[t] + 1 = memmask[t] + 1
    BY <1>3, Zenon
  <2>2. PICK bits : /\ Stems(bits, ask[t].all_caches)
                    /\ memmask[t] + 1 = Memsize(AutoField(bits, ask[t].all_caches))
    BY <1>3, <2>1, Zenon DEF MemoOf
  <2>3. \E d \in discovered' : bits = SizeBits(RoundupFromSizes(d.sizes, ask[t].all_caches))
    BY <1>1, <2>2, StemsOn, Zenon
  <2> QED
    BY <2>1, <2>2, <2>3, Zenon
<1> QED
  BY <1>2, <1>3, Zenon DEF MemoOf, Stems

\* The steps that neither discover nor store.
MemoUntouched ==
  UNCHANGED <<machine, cached, cached_valid, discovered>>

\* So it is by a step that leaves the memo alone.
LEMMA MemoStill ==
  ASSUME MemoKept, MemoUntouched, NEW t \in Thread, found' = [u \in Thread |-> found'[u]],
         \A u \in Thread \ {t} : Untouched(u),
         Grows => MemoOf(t)'
  PROVE  MemoKept'
<1>1. machine' = machine /\ cached' = cached /\ cached_valid' = cached_valid
      /\ discovered' = discovered
  BY Zenon DEF MemoUntouched
<1>2. /\ Stems(cached[FALSE], FALSE) <=> Stems(cached[FALSE], FALSE)'
      /\ Stems(cached[TRUE], TRUE) <=> Stems(cached[TRUE], TRUE)'
  BY <1>1, Zenon DEF Stems
<1>3. Grows
  BY <1>1, <1>2, Zenon DEF Grows
<1>4. \A u \in Thread : MemoOf(u)'
  BY <1>3, MemoOthers, Zenon DEF MemoKept
<1> QED
  BY <1>1, <1>2, <1>4, Zenon DEF MemoKept

\* Nothing is memoized at the start.
LEMMA MemoInit == MemoryInit => MemoKept
<1> SUFFICES ASSUME MemoryInit PROVE MemoKept
  BY Zenon
<1>1. \A t \in Thread : pc[t] = "idle" /\ ~mem[t]
  BY Zenon DEF MemoryInit
<1>2. \A t \in Thread : MemoOf(t)
  BY <1>1, Zenon DEF MemoOf
<1> QED
  BY <1>2, Zenon DEF MemoryInit, MemoKept

\* Every step keeps it.
LEMMA MemoStep == MemoryInv /\ MemoKept /\ [MemoryNext]_memory_vars => MemoKept'
<1> SUFFICES ASSUME MemoryInv, MemoKept, [MemoryNext]_memory_vars PROVE MemoKept'
  BY Zenon
<1>1. /\ pc = [u \in Thread |-> pc[u]] /\ ask = [u \in Thread |-> ask[u]]
      /\ mem = [u \in Thread |-> mem[u]] /\ memmask = [u \in Thread |-> memmask[u]]
      /\ found = [u \in Thread |-> found[u]]
  BY Zenon DEF MemoryInv, MemoryTypeOK, MemoKept
<1>2. \A u \in Thread : MemoOf(u) /\ (mem[u] => pc[u] \in {"rest", "live"})
  BY Zenon DEF MemoryInv, Accounted, MemoKept
<1>3. ASSUME NEW t \in Thread, NEW a \in Ask, AllocCall(t, a) PROVE MemoKept'
  <2>1. /\ pc[t] = "idle" /\ pc' = [pc EXCEPT ![t] = "state"]
        /\ ask' = [ask EXCEPT ![t] = a]
        /\ MemoUntouched /\ found' = found /\ mem' = mem /\ memmask' = memmask
    BY <1>3, Zenon DEF AllocCall, memo_vars, ec_vars, MemoUntouched
  <2>2. \A u \in Thread \ {t} : Untouched(u)
    BY <1>1, <2>1, Zenon DEF Untouched
  <2>3. pc'[t] = "state" /\ ~mem'[t]
    BY <1>1, <1>2, <2>1, Zenon
  <2>4. Grows => MemoOf(t)'
    BY <1>2, <2>3, MemoQuiet, Zenon
  <2> QED
    BY <1>1, <2>1, <2>2, <2>4, MemoStill, Zenon
<1>4. ASSUME NEW t \in Thread, NEW answer, StateAllocated(t, answer) PROVE MemoKept'
  <2> DEFINE stage == IF ~ask[t].memaccess THEN "rest"
                      ELSE IF ask[t].field = 0 THEN "load_valid" ELSE "mem"
  <2>1. /\ pc[t] = "state" /\ pc' = [pc EXCEPT ![t] = stage]
        /\ MemoUntouched /\ found' = found /\ mem' = mem
        /\ memmask' = memmask /\ ask' = ask
    BY <1>4, Zenon DEF StateAllocated, memo_vars, MemoUntouched
  <2>2. \A u \in Thread \ {t} : Untouched(u)
    BY <1>1, <2>1, Zenon DEF Untouched
  <2>3. pc'[t] = stage /\ ~mem'[t] /\ ask'[t] = ask[t]
    BY <1>1, <1>2, <2>1, Zenon
  <2>4. Grows => MemoOf(t)'
    BY <1>2, <2>3, MemoQuiet, Zenon
  <2> QED
    BY <1>1, <2>1, <2>2, <2>4, MemoStill, Zenon
<1>5. ASSUME NEW t \in Thread, StateFails(t) \/ \E answer : StateRefused(t, answer)
      PROVE  MemoKept'
  <2>1. /\ pc[t] = "state" /\ pc' = [pc EXCEPT ![t] = "idle"]
        /\ MemoUntouched /\ found' = found /\ mem' = mem
        /\ memmask' = memmask /\ ask' = ask
    BY <1>5, Zenon DEF StateFails, StateRefused, memo_vars, ec_vars, MemoUntouched
  <2>2. \A u \in Thread \ {t} : Untouched(u)
    BY <1>1, <2>1, Zenon DEF Untouched
  <2>3. pc'[t] = "idle" /\ ~mem'[t]
    BY <1>1, <1>2, <2>1, Zenon
  <2>4. Grows => MemoOf(t)'
    BY <1>2, <2>3, MemoQuiet, Zenon
  <2> QED
    BY <1>1, <2>1, <2>2, <2>4, MemoStill, Zenon
<1>6. ASSUME NEW t \in Thread, LoadValid(t) PROVE MemoKept'
  <2> DEFINE stage == IF cached_valid THEN "load" ELSE "discover"
  <2>1. /\ pc[t] = "load_valid" /\ pc' = [pc EXCEPT ![t] = stage]
        /\ MemoUntouched /\ found' = found /\ mem' = mem
        /\ memmask' = memmask /\ ask' = ask
    BY <1>6, Zenon DEF LoadValid, memo_vars, ec_vars, MemoUntouched
  <2>2. \A u \in Thread \ {t} : Untouched(u)
    BY <1>1, <2>1, Zenon DEF Untouched
  <2>3. pc'[t] = stage /\ ~mem'[t]
    BY <1>1, <1>2, <2>1, Zenon
  <2>4. Grows => MemoOf(t)'
    <3>1. CASE cached_valid
      <4>1. pc'[t] = "load"
        BY <2>3, <3>1, Zenon
      <4>2. Stems(cached[FALSE], FALSE) /\ Stems(cached[TRUE], TRUE)
        BY <3>1, Zenon DEF MemoKept
      <4> QED
        BY <2>3, <4>1, <4>2, Zenon DEF Grows, MemoOf
    <3>2. CASE ~cached_valid
      BY <1>2, <2>3, <3>2, MemoQuiet, Zenon
    <3> QED
      BY <3>1, <3>2, Zenon
  <2> QED
    BY <1>1, <2>1, <2>2, <2>4, MemoStill, Zenon
<1>7. ASSUME NEW t \in Thread, NEW core \in Core, Discover(t, core) PROVE MemoKept'
  <2> DEFINE sizes == Uncached(machine, core)
             new == [core |-> core, sizes |-> sizes]
  <2>1. /\ pc[t] = "discover" /\ pc' = [pc EXCEPT ![t] = "store_l1"]
        /\ found' = [found EXCEPT ![t] = sizes]
        /\ discovered' = discovered \cup {[core |-> core, sizes |-> found'[t]]}
        /\ machine' = machine /\ cached' = cached /\ cached_valid' = cached_valid
        /\ mem' = mem /\ memmask' = memmask /\ ask' = ask
    BY <1>7, Zenon DEF Discover, StoreOrder, memo_vars, ec_vars
  <2> HIDE DEF sizes
  <2>2. found'[t] = sizes /\ found' = [u \in Thread |-> found'[u]]
    BY <1>1, <2>1, Zenon
  <2>3. discovered' = discovered \cup {new}
    BY <2>1, <2>2, Zenon
  <2>4. new.core = core /\ new.sizes = sizes
    BY Zenon
  <2> HIDE DEF new
  <2>5. Grows
    <3>1. discovered \subseteq discovered'
      BY <2>3, Zenon
    <3> QED
      BY <2>1, <3>1, Zenon DEF Grows, Stems
  <2>6. \A u \in Thread \ {t} : Untouched(u)
    BY <1>1, <2>1, Zenon DEF Untouched
  <2>7. pc'[t] = "store_l1" /\ ~mem'[t]
    BY <1>1, <1>2, <2>1, Zenon
  <2>8. MemoOf(t)'
    <3>1. \E d \in discovered' : found'[t] = d.sizes
      BY <2>2, <2>3, <2>4, Zenon
    <3> QED
      BY <2>7, <3>1, Zenon DEF MemoOf
  <2>9. \A u \in Thread : MemoOf(u)'
    BY <1>2, <2>5, <2>6, <2>8, MemoOthers, Zenon
  <2>10. \A d \in discovered' : d.core \in Core /\ d.sizes = Uncached(machine', d.core)
    <3>1. new.core \in Core /\ new.sizes = Uncached(machine', new.core)
      BY <2>1, <2>4, Zenon DEF sizes
    <3> QED
      BY <2>1, <2>3, <3>1, Zenon DEF MemoKept
  <2>11. cached_valid' => Stems(cached[FALSE], FALSE)' /\ Stems(cached[TRUE], TRUE)'
    BY <2>1, <2>5, Zenon DEF MemoKept, Grows
  <2> QED
    BY <2>2, <2>9, <2>10, <2>11, Zenon DEF MemoKept
<1>8. ASSUME NEW t \in Thread, Store(t) PROVE MemoKept'
  <2> DEFINE all == pc[t] = "store_all"
             bits == SizeBits(RoundupFromSizes(found[t], all))
  <2>1. /\ pc[t] \in {"store_l1", "store_all"}
        /\ cached' = [cached EXCEPT ![all] = bits]
        /\ pc' = [pc EXCEPT ![t] = StoreOrder[pc[t]]]
        /\ machine' = machine /\ cached_valid' = cached_valid
        /\ discovered' = discovered
        /\ found' = found /\ mem' = mem /\ memmask' = memmask /\ ask' = ask
    BY <1>8, Zenon DEF Store, ec_vars
  <2>2. PICK d \in discovered : found[t] = d.sizes
    BY <1>2, <2>1, Zenon DEF MemoOf
  <2>3. bits = SizeBits(RoundupFromSizes(d.sizes, all))
    BY <2>2, Zenon
  <2>4. cached \in [BOOLEAN -> Nat] /\ all \in BOOLEAN
    BY Zenon DEF MemoryInv, MemoryTypeOK
  <2> HIDE DEF bits, all
  <2>5. cached'[all] = bits /\ \A b \in BOOLEAN : b # all => cached'[b] = cached[b]
    BY <2>1, <2>4, Zenon
  <2>6. ASSUME NEW b \in BOOLEAN, Stems(cached[b], b) \/ b = all PROVE Stems(cached[b], b)'
    <3>1. CASE b = all
      <4>1. cached'[b] = SizeBits(RoundupFromSizes(d.sizes, b)) /\ d \in discovered'
        BY <2>1, <2>2, <2>3, <2>5, <3>1, Zenon
      <4> QED
        BY <4>1, Zenon DEF Stems
    <3>2. CASE b # all
      BY <2>1, <2>5, <2>6, <3>2, Zenon DEF Stems
    <3> QED
      BY <3>1, <3>2, Zenon
  <2>7. Grows
    BY <2>1, <2>6, Zenon DEF Grows
  <2>8. \A u \in Thread \ {t} : Untouched(u)
    BY <1>1, <2>1, Zenon DEF Untouched
  <2>9. ~mem'[t] /\ pc'[t] = StoreOrder[pc[t]] /\ found'[t] = d.sizes /\ d \in discovered'
    BY <1>1, <1>2, <2>1, <2>2, Zenon
  <2>10. StoreOrder["store_l1"] = "store_all" /\ StoreOrder["store_all"] = "store_valid"
    BY Zenon DEF StoreOrder
  <2>11. MemoOf(t)'
    <3>1. CASE pc[t] = "store_l1"
      <4>1. all = FALSE /\ pc'[t] = "store_all"
        BY <2>9, <2>10, <3>1, Zenon DEF all
      <4>2. Stems(cached[FALSE], FALSE)'
        BY <2>6, <4>1, Zenon
      <4> QED
        BY <2>9, <4>1, <4>2, Zenon DEF MemoOf
    <3>2. CASE pc[t] = "store_all"
      <4>1. all = TRUE /\ pc'[t] = "store_valid"
        BY <2>9, <2>10, <3>2, Zenon DEF all
      <4>2. Stems(cached[FALSE], FALSE)
        BY <1>2, <3>2, Zenon DEF MemoOf
      <4>3. Stems(cached[FALSE], FALSE)' /\ Stems(cached[TRUE], TRUE)'
        BY <2>6, <4>1, <4>2, Zenon
      <4> QED
        BY <2>9, <4>1, <4>3, Zenon DEF MemoOf
    <3> QED
      BY <2>1, <3>1, <3>2, Zenon
  <2>12. \A u \in Thread : MemoOf(u)'
    BY <1>2, <2>7, <2>8, <2>11, MemoOthers, Zenon
  <2>13. cached_valid' => Stems(cached[FALSE], FALSE)' /\ Stems(cached[TRUE], TRUE)'
    BY <2>1, <2>7, Zenon DEF MemoKept, Grows
  <2> QED
    BY <2>1, <2>12, <2>13, Zenon DEF MemoKept
<1>9. ASSUME NEW t \in Thread, StoreValid(t) PROVE MemoKept'
  <2>1. /\ pc[t] = "store_valid" /\ pc' = [pc EXCEPT ![t] = "load"]
        /\ machine' = machine /\ cached' = cached /\ discovered' = discovered
        /\ found' = found /\ mem' = mem /\ memmask' = memmask /\ ask' = ask
    BY <1>9 DEF StoreValid, StoreOrder, ec_vars
  <2>2. Stems(cached[FALSE], FALSE) /\ Stems(cached[TRUE], TRUE)
    BY <1>2, <2>1, Zenon DEF MemoOf
  <2>3. Stems(cached[FALSE], FALSE)' /\ Stems(cached[TRUE], TRUE)'
    BY <2>1, <2>2, Zenon DEF Stems
  <2>4. Grows
    BY <2>1, <2>3, Zenon DEF Grows
  <2>5. \A u \in Thread \ {t} : Untouched(u)
    BY <1>1, <2>1, Zenon DEF Untouched
  <2>6. pc'[t] = "load" /\ ~mem'[t]
    BY <1>1, <1>2, <2>1, Zenon
  <2>7. MemoOf(t)'
    BY <2>3, <2>6, Zenon DEF MemoOf
  <2>8. \A u \in Thread : MemoOf(u)'
    BY <1>2, <2>4, <2>5, <2>7, MemoOthers, Zenon
  <2> QED
    BY <2>1, <2>3, <2>8, Zenon DEF MemoKept
<1>10. ASSUME NEW t \in Thread, Load(t) PROVE MemoKept'
  <2> DEFINE all == ask[t].all_caches
             bits == cached[all]
             size == Memsize(AutoField(bits, all))
  <2>1. /\ pc[t] = "load" /\ pc' = [pc EXCEPT ![t] = "mem"]
        /\ memmask' = [memmask EXCEPT ![t] = size - 1]
        /\ found' = [found EXCEPT ![t] = NoSizes]
        /\ MemoUntouched /\ mem' = mem /\ ask' = ask
    BY <1>10, Zenon DEF Load, memo_vars, MemoUntouched
  <2>2. all \in BOOLEAN /\ bits \in Nat
    BY MemoryAssumption DEF MemoryInv, MemoryTypeOK
  <2>3. Stems(bits, all)
    <3>1. Stems(cached[FALSE], FALSE) /\ Stems(cached[TRUE], TRUE)
      BY <1>2, <2>1, Zenon DEF MemoOf
    <3>2. all = TRUE \/ all = FALSE
      BY <2>2, Zenon
    <3> QED
      BY <3>1, <3>2, Zenon
  <2>4. size \in Nat
    <3>1. AutoField(bits, all) \in Nat
      BY <2>2, AutoFieldNat, Zenon
    <3> QED
      BY <3>1, MemsizePower, Zenon
  <2> HIDE DEF size
  <2>5. memmask'[t] + 1 = size
    BY <1>1, <2>1, <2>4
  <2>6. \A u \in Thread \ {t} : Untouched(u)
    BY <1>1, <2>1, Zenon DEF Untouched
  <2>7. pc'[t] = "mem" /\ ask'[t] = ask[t] /\ found' = [u \in Thread |-> found'[u]]
    BY <1>1, <2>1, Zenon
  <2>8. MemoOf(t)'
    <3>1. \E d \in discovered' : bits = SizeBits(RoundupFromSizes(d.sizes, all))
      BY <2>1, <2>3, Zenon DEF Stems, MemoUntouched
    <3>2. memmask'[t] + 1 = Memsize(AutoField(bits, ask'[t].all_caches)) /\ ask'[t].all_caches = all
      BY <2>5, <2>7, Zenon DEF size
    <3> HIDE DEF bits, all
    <3>3. \E b : /\ \E d \in discovered' : b = SizeBits(RoundupFromSizes(d.sizes, ask'[t].all_caches))
                 /\ memmask'[t] + 1 = Memsize(AutoField(b, ask'[t].all_caches))
      BY <3>1, <3>2, Zenon
    <3>4. pc'[t] \notin {"store_l1", "store_all", "store_valid", "load"}
      BY <2>7, Zenon
    <3> QED
      BY <3>3, <3>4, Zenon DEF MemoOf, Stems
  <2> QED
    BY <2>1, <2>6, <2>7, <2>8, MemoStill, Zenon
<1>11. ASSUME NEW t \in Thread, MemAllocated(t) PROVE MemoKept'
  <2>1. /\ pc[t] = "mem" /\ pc' = [pc EXCEPT ![t] = "rest"]
        /\ mem' = [mem EXCEPT ![t] = TRUE]
        /\ memmask' = [memmask EXCEPT ![t] = RegionSize(t) - 1]
        /\ MemoUntouched /\ found' = found /\ ask' = ask
    BY <1>11, Zenon DEF MemAllocated, memo_vars, MemoUntouched
  <2>2. memmask[t] \in Nat
    BY Zenon DEF MemoryInv, MemoryTypeOK
  <2>3. ask[t].field = 0 => memmask'[t] + 1 = memmask[t] + 1
    BY <1>1, <2>1, <2>2 DEF RegionSize
  <2>4. \A u \in Thread \ {t} : Untouched(u)
    BY <1>1, <2>1, Zenon DEF Untouched
  <2>5. pc'[t] = "rest" /\ ask'[t] = ask[t]
    BY <1>1, <2>1, Zenon
  <2>6. Grows => MemoOf(t)'
    <3>1. MemoOf(t)
      BY <1>2, Zenon
    <3> QED
      BY <2>1, <2>3, <2>5, <3>1, MemoQuiet, Zenon
  <2> QED
    BY <1>1, <2>1, <2>4, <2>6, MemoStill, Zenon
<1>12. ASSUME NEW t \in Thread, AllocFails(t) \/ Free(t) PROVE MemoKept'
  <2>1. /\ pc' = [pc EXCEPT ![t] = "idle"] /\ mem' = [mem EXCEPT ![t] = FALSE]
        /\ memmask' = [memmask EXCEPT ![t] = 0]
        /\ MemoUntouched /\ found' = found /\ ask' = ask
    BY <1>12, Zenon DEF AllocFails, Free, Freed, memo_vars, MemoUntouched
  <2>2. \A u \in Thread \ {t} : Untouched(u)
    BY <1>1, <2>1, Zenon DEF Untouched
  <2>3. pc'[t] = "idle" /\ ~mem'[t]
    BY <1>1, <2>1, Zenon
  <2>4. Grows => MemoOf(t)'
    BY <1>2, <2>3, MemoQuiet, Zenon
  <2> QED
    BY <1>1, <2>1, <2>2, <2>4, MemoStill, Zenon
<1>13. ASSUME NEW t \in Thread, AllocDone(t) PROVE MemoKept'
  <2>1. /\ pc[t] = "rest" /\ pc' = [pc EXCEPT ![t] = "live"]
        /\ MemoUntouched /\ found' = found /\ mem' = mem
        /\ memmask' = memmask /\ ask' = ask
    BY <1>13, Zenon DEF AllocDone, memo_vars, ec_vars, MemoUntouched
  <2>2. \A u \in Thread \ {t} : Untouched(u)
    BY <1>1, <2>1, Zenon DEF Untouched
  <2>3. pc'[t] = "live" /\ ask'[t] = ask[t] /\ memmask'[t] + 1 = memmask[t] + 1 /\ mem'[t] = mem[t]
    BY <1>1, <2>1, Zenon
  <2>4. Grows => MemoOf(t)'
    <3>1. MemoOf(t)
      BY <1>2, Zenon
    <3>2. CASE mem[t]
      BY <2>3, <3>1, <3>2, MemoQuiet, Zenon
    <3>3. CASE ~mem[t]
      BY <2>3, <3>1, <3>3, MemoQuiet, Zenon
    <3> QED
      BY <3>2, <3>3, Zenon
  <2> QED
    BY <1>1, <2>1, <2>2, <2>4, MemoStill, Zenon
<1>14. CASE (\E t \in Thread : \E loops : Walk(t, loops)) \/ UNCHANGED memory_vars
  <2>1. /\ MemoUntouched /\ pc' = pc /\ ask' = ask /\ found' = found /\ mem' = mem
        /\ memmask' = memmask
    BY <1>14, Zenon DEF Walk, memory_vars, memo_vars, ec_vars, MemoUntouched
  <2>2. \A u \in Thread : Untouched(u)
    BY <2>1, Zenon DEF Untouched
  <2>3. Grows
    BY <2>1, Zenon DEF Grows, MemoUntouched, Stems
  <2>4. \A u \in Thread : MemoOf(u)'
    BY <1>2, <2>2, <2>3, MemoOthers, Zenon
  <2> QED
    BY <2>1, <2>3, <2>4, Zenon DEF MemoKept, MemoUntouched, Grows
<1>15. ASSUME NEW t \in Thread, MemFails(t) PROVE MemoKept'
  <2>1. /\ pc[t] = "mem" /\ pc' = [pc EXCEPT ![t] = "failed"]
        /\ MemoUntouched /\ found' = found /\ mem' = mem
        /\ memmask' = memmask /\ ask' = ask
    BY <1>15, Zenon DEF MemFails, memo_vars, MemoUntouched
  <2>2. \A u \in Thread \ {t} : Untouched(u)
    BY <1>1, <2>1, Zenon DEF Untouched
  <2>3. pc'[t] = "failed" /\ ~mem'[t]
    BY <1>1, <1>2, <2>1, Zenon
  <2>4. Grows => MemoOf(t)'
    BY <1>2, <2>3, MemoQuiet, Zenon
  <2> QED
    BY <1>1, <2>1, <2>2, <2>4, MemoStill, Zenon
<1> QED
  BY <1>3, <1>4, <1>5, <1>6, <1>7, <1>8, <1>9, <1>10, <1>11, <1>12, <1>13, <1>14,
     <1>15, Zenon DEF MemoryNext

\* The memo of jent_cache_size_roundup() has no lock: whoever discovers, stores
\* and reads it in whatever order, every region of automatic size exceeds the
\* caches that a discovery has found, and every discovery covers the caches the
\* machine shows.  On machines that list their caches the way the library reads
\* them (MachineAssumption), with sizes of up to 64 bits.
THEOREM RegionsExceedCaches == MemorySpec => []RegionExceedsCaches
<1>1. MemoryInv /\ MemoKept => RegionExceedsCaches
  <2> SUFFICES ASSUME MemoryInv, MemoKept PROVE RegionExceedsCaches
    BY Zenon
  <2>1. machine \in Machine /\ \A d \in discovered : d.core \in Core /\ d.sizes = Uncached(machine, d.core)
    BY Zenon DEF MemoryInv, MemoryTypeOK, MemoKept
  <2>2. \A d \in discovered : Covers(machine, d.core, d.sizes) /\ d.sizes \in [Level -> Nat]
    BY <2>1, UncachedCovers, UncachedSizes, Zenon
  <2>3. ASSUME NEW t \in Thread, mem[t], ask[t].field = 0
        PROVE  \E d \in discovered : Exceeds(memmask[t] + 1, d.sizes, ask[t].all_caches)
    <3> DEFINE all == ask[t].all_caches
    <3>1. all \in BOOLEAN
      BY MemoryAssumption DEF MemoryInv, MemoryTypeOK
    <3>2. PICK bits : Stems(bits, all) /\ memmask[t] + 1 = Memsize(AutoField(bits, all))
      BY <2>3, Zenon DEF MemoKept, MemoOf
    <3>3. PICK d \in discovered : bits = SizeBits(RoundupFromSizes(d.sizes, all))
      BY <3>2, Zenon DEF Stems
    <3> HIDE DEF all
    <3>4. Exceeds(Memsize(AutoField(SizeBits(RoundupFromSizes(d.sizes, all)), all)), d.sizes, all)
      BY <2>2, <3>1, RegionExceeds, Zenon
    <3> QED
      BY <3>2, <3>3, <3>4, Zenon DEF all
  <2> QED
    BY <2>2, <2>3, Zenon DEF RegionExceedsCaches
<1>2. MemorySpec => []MemoKept
  BY MemoInit, MemoStep, MemoryInvAlways, PTL DEF MemorySpec
<1> QED
  BY <1>1, <1>2, MemoryInvAlways, PTL
=============================================================================
