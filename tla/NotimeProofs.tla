---------------------------- MODULE NotimeProofs ----------------------------
(***************************************************************************)
(* The internal timer: for every size of the low word and every number of  *)
(* threads, one thread counts for a reader from a start to its stop, and   *)
(* what jent_notime_read() gives is a value the counter had meanwhile.     *)
(***************************************************************************)
EXTENDS Notime, FiniteSetTheorems, NaturalsInduction, TLAPS

Reading == pc \in {"a", "b", "judge"}

Alive(t) == thread[t] \notin {"none", "done"}

\* Every variable of the counter, of the threads and of the reader has its type.
NotimeTypes ==
  /\ hi \in Nat /\ lo \in Nat /\ count \in Nat /\ since \in Nat
  /\ out \in Nat /\ notime_prev_timer = out
  /\ notime_interrupt \in {0, 1}
  /\ thread \in [CountingThread -> {"none", "new", "placed", "zeroing",
                                    "counting", "storing", "done"}]
  /\ value \in [CountingThread -> Nat]
  /\ pc \in {"idle", "stopped", "ready", "a", "b", "judge", "join"}
  /\ a \in [hi : Nat, lo : Nat] /\ b \in [hi : Nat, lo : Nat]
  /\ loaded \subseteq {"hi", "lo"}

\* One thread at most is alive, none for a collector that has been stopped, and
\* one that nobody has interrupted for a reader.
ThreadInv ==
  /\ \A t, u \in CountingThread : Alive(t) /\ Alive(u) => t = u
  /\ pc \in {"idle", "stopped"} => \A t \in CountingThread : thread[t] = "none"
  /\ pc = "ready" \/ Reading => /\ notime_interrupt = 0
                                /\ \E t \in CountingThread : Alive(t)

\* A context is of the registered handler, which cannot be changed any more.
HandlerInv ==
  /\ notime_thread \in {"builtin", "external"}
  /\ notime_cpu \in Cpu \cup {CpuDefault}
  /\ ctx # NoCtx => /\ ctx.of = notime_thread /\ switch_blocked = 1
                    /\ ctx.cpu \in Cpu \cup {CpuDefault}

\* What the two words hold: the number counted so far, with the high word of
\* the next one between the two stores.
CounterInv ==
  /\ lo = count % Word
  /\ (\A t \in CountingThread : thread[t] # "storing") => hi = count \div Word
  /\ \A t \in CountingThread :
       thread[t] = "storing" => /\ value[t] = count + 1
                                /\ hi = (count + 1) \div Word
  /\ \A t \in CountingThread :
       thread[t] \in {"new", "placed", "zeroing"} => hi = 0 /\ lo = 0 /\ count = 0

-----------------------------------------------------------------------------
(* The thread and its handler *)

\* The constants as numbers.
LEMMA NotimeSizes ==
  /\ Word \in Nat /\ Word > 2 /\ MaxCount \in Nat /\ Advance \in Nat
  /\ Advance < Word
BY NotimeAssumption, AdvanceAssumption, Zenon

\* Division with remainder.
LEMMA DivMod ==
  ASSUME NEW x \in Nat
  PROVE  /\ x = Word * (x \div Word) + (x % Word)
         /\ x \div Word \in Nat /\ x % Word \in 0 .. Word - 1
BY NotimeSizes

\* Zero has no words and no remainder.
LEMMA WordsOfZero == 0 \div Word = 0 /\ 0 % Word = 0
BY NotimeSizes

\* A thread counts, from its creation to its end.
LEMMA CountThreads ==
  ASSUME NotimeTypes, ThreadInv, HandlerInv, CounterInv,
         NEW t \in CountingThread, Count(t)
  PROVE  NotimeTypes' /\ ThreadInv' /\ HandlerInv' /\ CounterInv'
<1> USE DEF NotimeTypes, Reading, Alive
<1>0. /\ UNCHANGED <<notime_prev_timer, out, notime_interrupt, pc, a, b, loaded,
                     since, notime_thread, notime_cpu, ctx, switch_blocked>>
      /\ \A u \in CountingThread : u # t => thread'[u] = thread[u]
      /\ Alive(t)
  BY Zenon DEF Count, PinThread, ZeroHigh, ZeroLow, StoreHigh, StoreLow,
     Interrupted, counter, handshake, counting, reading, handler, placement
<1>1. HandlerInv'
  BY <1>0, Zenon DEF HandlerInv
<1>2. \A u \in CountingThread : u # t => thread[u] \in {"none", "done"}
  BY <1>0, Zenon DEF ThreadInv
<1>3. CASE PinThread(t)
  <2>1. thread' = [thread EXCEPT ![t] = "placed"] /\ thread[t] = "new"
        /\ UNCHANGED <<hi, lo, count, value>>
    BY <1>3, Zenon DEF PinThread, counter
  <2> QED
    BY <1>0, <1>1, <1>2, <2>1, Zenon DEF ThreadInv, CounterInv
<1>4. CASE ZeroHigh(t)
  <2>1. thread' = [thread EXCEPT ![t] = "zeroing"] /\ thread[t] = "placed"
        /\ hi' = 0 /\ UNCHANGED <<lo, count, value>>
    BY <1>4, Zenon DEF ZeroHigh
  <2> QED
    BY <1>0, <1>1, <1>2, <2>1, Zenon DEF ThreadInv, CounterInv
<1>5. CASE ZeroLow(t)
  <2>1. thread' = [thread EXCEPT ![t] = "counting"] /\ thread[t] = "zeroing"
        /\ lo' = 0 /\ count' = 0 /\ UNCHANGED <<hi, value>>
    BY <1>5, Zenon DEF ZeroLow
  <2> QED
    BY <1>0, <1>1, <1>2, <2>1, WordsOfZero, Zenon DEF ThreadInv, CounterInv
<1>6. CASE StoreHigh(t)
  <2>1. /\ thread' = [thread EXCEPT ![t] = "storing"] /\ thread[t] = "counting"
        /\ value' = [value EXCEPT ![t] = Number(hi, lo) + 1]
        /\ hi' = value'[t] \div Word /\ UNCHANGED <<lo, count>>
    BY <1>6, Zenon DEF StoreHigh
  <2>2. hi = count \div Word /\ lo = count % Word
    BY <1>2, <2>1, Zenon DEF CounterInv
  <2>3. Number(hi, lo) = count
    BY <2>2, DivMod, NotimeSizes DEF Number
  <2>4. value'[t] = count + 1
    BY <2>1, <2>3, Zenon
  <2>5. hi' \in Nat
    BY <2>1, <2>4, DivMod
  <2>6. value' \in [CountingThread -> Nat]
    BY <2>1, <2>3
  <2> QED
    BY <1>0, <1>1, <1>2, <2>1, <2>4, <2>5, <2>6, Zenon DEF ThreadInv,
       CounterInv
<1>7. CASE StoreLow(t)
  <2>1. /\ thread' = [thread EXCEPT ![t] = "counting"] /\ thread[t] = "storing"
        /\ lo' = value[t] % Word /\ count' = value[t]
        /\ value' = [value EXCEPT ![t] = 0] /\ UNCHANGED hi
    BY <1>7, Zenon DEF StoreLow
  <2>2. lo' \in Nat
    BY <2>1, DivMod
  <2>3. value[t] = count + 1 /\ hi = (count + 1) \div Word
    BY <2>1, Zenon DEF CounterInv
  <2> QED
    BY <1>0, <1>1, <1>2, <2>1, <2>2, <2>3, Zenon DEF ThreadInv, CounterInv
<1>8. CASE Interrupted(t)
  <2>1. /\ thread' = [thread EXCEPT ![t] = "done"] /\ thread[t] = "counting"
        /\ notime_interrupt = 1
        /\ UNCHANGED <<hi, lo, count, value>>
    BY <1>8, Zenon DEF Interrupted, Leaves, counter
  <2> QED
    BY <1>0, <1>1, <1>2, <2>1 DEF ThreadInv, CounterInv
<1> QED
  BY <1>3, <1>4, <1>5, <1>6, <1>7, <1>8, Zenon DEF Count

\* A step that leaves the counter and the threads alone leaves them consistent.
LEMMA CounterSame ==
  ASSUME CounterInv, UNCHANGED <<hi, lo, count, thread, value>>
  PROVE  CounterInv'
BY Zenon DEF CounterInv

\* A start, an end and the reads between them.
LEMMA ReaderThreads ==
  ASSUME NotimeTypes, ThreadInv, HandlerInv, CounterInv,
         \/ \E t \in CountingThread : Settick(t)
         \/ GetTime \/ (\E w \in {"hi", "lo"} : LoadWord(w)) \/ Judge
         \/ Unsettick \/ Join
  PROVE  NotimeTypes' /\ ThreadInv' /\ HandlerInv' /\ CounterInv'
<1> USE DEF NotimeTypes, Reading, Alive
<1>0. HandlerInv'
  BY Zenon DEF HandlerInv, Settick, GetTime, LoadWord, Judge, Unsettick, Join,
     handler
<1>1. ASSUME NEW t \in CountingThread, Settick(t)
      PROVE  NotimeTypes' /\ ThreadInv' /\ CounterInv'
  <2>1. /\ pc = "stopped" /\ notime_interrupt' = 0 /\ notime_prev_timer' = 0
        /\ hi' = 0 /\ lo' = 0 /\ count' = 0 /\ out' = 0
        /\ UNCHANGED <<value, a, b, loaded, since>>
        /\ \/ thread' = [thread EXCEPT ![t] = "new"] /\ pc' = "ready"
           \/ thread' = thread /\ pc' = pc
    BY <1>1, Zenon DEF Settick, InterruptCleared, Created, reading
  <2>2. \A u \in CountingThread : thread[u] = "none"
    BY <2>1, Zenon DEF ThreadInv
  <2> QED
    BY <2>1, <2>2, WordsOfZero DEF ThreadInv, CounterInv
<1>2. CASE GetTime
  <2>1. /\ pc = "ready" /\ pc' = "a" /\ loaded' = {} /\ since' = count
        /\ UNCHANGED <<hi, lo, count, thread, value>>
        /\ UNCHANGED <<notime_interrupt, notime_prev_timer, a, b, out>>
    BY <1>2, Zenon DEF GetTime, counter, handshake, counting
  <2>2. NotimeTypes'
    BY <2>1, Zenon
  <2>3. ThreadInv'
    BY <2>1, Zenon DEF ThreadInv
  <2> QED
    BY <1>0, <2>1, <2>2, <2>3, CounterSame, Zenon
<1>3. ASSUME NEW w \in {"hi", "lo"}, LoadWord(w)
      PROVE  NotimeTypes' /\ ThreadInv' /\ CounterInv'
  BY <1>3 DEF LoadWord, ThreadInv, CounterInv, counter, handshake, counting
<1>4. CASE Judge
  <2>1. /\ pc = "judge" /\ UNCHANGED <<hi, lo, notime_interrupt, thread, value,
                                       loaded, count>>
        /\ \/ /\ pc' = "a" /\ since' = count
              /\ UNCHANGED <<notime_prev_timer, out, a, b>>
           \/ /\ notime_prev_timer' = Number(b.hi, b.lo)
              /\ out' = Number(b.hi, b.lo)
              /\ pc' = "ready" /\ a' = Empty /\ b' = Empty /\ since' = 0
    BY <1>4, Zenon DEF Judge, counter, handshake, counting
  <2>2. Number(b.hi, b.lo) \in Nat /\ Empty \in [hi : Nat, lo : Nat]
    BY NotimeSizes DEF Number, Empty
  <2> QED
    <3>1. NotimeTypes'
      BY <2>1, <2>2
    <3>2. ThreadInv'
      BY <2>1, Zenon DEF ThreadInv
    <3> QED
      BY <1>0, <2>1, <3>1, <3>2, CounterSame, Zenon
<1>5. CASE Unsettick
  <2>1. /\ pc' = "join" /\ notime_interrupt' = 1
        /\ UNCHANGED <<hi, lo, count, thread, value>>
        /\ UNCHANGED <<notime_prev_timer, a, b, loaded, since, out>>
    BY <1>5, Zenon DEF Unsettick, counter, counting, reading
  <2>2. NotimeTypes'
    BY <2>1, Zenon
  <2>3. ThreadInv'
    BY <2>1, Zenon DEF ThreadInv
  <2> QED
    BY <1>0, <2>1, <2>2, <2>3, CounterSame, Zenon
<1>6. CASE Join
  <2>1. /\ pc' = "stopped" /\ \A t \in CountingThread : thread'[t] = "none"
        /\ thread' \in [CountingThread -> {"none"}]
        /\ \A t \in CountingThread : thread[t] # "storing"
        /\ UNCHANGED <<hi, lo, notime_interrupt, notime_prev_timer, value, a, b,
                       loaded, since, out, count>>
    BY <1>6, Zenon DEF Join, Joined, counter, reading
  <2>2. NotimeTypes'
    BY <2>1, Zenon
  <2>3. ThreadInv'
    BY <2>1, Zenon DEF ThreadInv
  <2>4. CounterInv'
    BY <2>1, Zenon DEF CounterInv
  <2> QED
    BY <1>0, <2>2, <2>3, <2>4, Zenon
<1> QED
  BY <1>0, <1>1, <1>2, <1>3, <1>4, <1>5, <1>6, Zenon

\* The handler is chosen, and makes and frees its contexts.
LEMMA HandlerThreads ==
  ASSUME NotimeTypes, ThreadInv, HandlerInv, CounterInv,
         \/ \E cpu \in Cpu : SetCpu(cpu)
         \/ \E new_thread \in {"builtin", "external"} : Switch(new_thread)
         \/ BlockSwitch \/ (\E h \in Host : EnableThread(h)) \/ Disable
  PROVE  NotimeTypes' /\ ThreadInv' /\ HandlerInv' /\ CounterInv'
<1> USE DEF NotimeTypes, Reading, Alive
<1>1. HandlerInv'
  BY DEF HandlerInv, SetCpu, Switch, Switchable, BlockSwitch, EnableThread,
     Context, Disable
<1>2. CASE UNCHANGED <<counter, handshake, notime_prev_timer, counting, pc, reading,
                       out, count>>
  BY <1>1, <1>2, Zenon DEF ThreadInv, CounterInv, counter, handshake, counting,
     reading
<1>3. ASSUME NEW h \in Host, EnableThread(h)
      PROVE  NotimeTypes' /\ ThreadInv' /\ CounterInv'
  <2>1. /\ pc = "idle" /\ pc' = "stopped" /\ hi' = 0 /\ lo' = 0 /\ count' = 0
        /\ notime_interrupt' = 0 /\ notime_prev_timer' = 0 /\ out' = 0
        /\ UNCHANGED <<thread, value, a, b, loaded, since>>
    BY <1>3, Zenon DEF EnableThread, counting, reading
  <2> QED
    BY <2>1, WordsOfZero, Zenon DEF ThreadInv, CounterInv
<1>4. CASE Disable
  <2>1. /\ pc = "stopped" /\ pc' = "idle"
        /\ UNCHANGED <<hi, lo, count, thread, value>>
        /\ UNCHANGED <<notime_interrupt, notime_prev_timer, a, b, loaded, since,
                       out>>
    BY <1>4, Zenon DEF Disable, counter, handshake, counting, reading
  <2>2. NotimeTypes'
    BY <2>1, Zenon
  <2>3. ThreadInv'
    BY <2>1, Zenon DEF ThreadInv
  <2> QED
    BY <1>1, <2>1, <2>2, <2>3, CounterSame, Zenon
<1> QED
  BY <1>1, <1>2, <1>3, <1>4, Zenon DEF SetCpu, Switch, BlockSwitch

-----------------------------------------------------------------------------
(* The reader: what the words it has loaded say of the counter *)

\* The high word of the number the read began with.
Turn == since \div Word

\* The one number at which the high word changes during this read.
Carry == (Turn + 1) * Word

\* A high word that was loaded: once it has changed it does not change again.
HighWord(h) == h \in {Turn, Turn + 1} /\ (h = Turn + 1 => hi = Turn + 1)

\* Both words of a were loaded before the carry, up to the number n.
Before(n) == a.hi = Turn /\ Number(a.hi, a.lo) \in since .. n

ALoaded(w) == pc \in {"b", "judge"} \/ (pc = "a" /\ w \in loaded)
BLoaded(w) == pc = "judge" \/ (pc = "b" /\ w \in loaded)

\* The counter is less than a turn from where it was when the read began, also
\* with the increment that is being stored.
NearInv ==
  Reading => /\ since <= count /\ count < since + Word
             /\ \A t \in CountingThread :
                  thread[t] = "storing" => count + 1 < since + Word

\* Of each word that was loaded, what it was when it was loaded: a low word is
\* that of a number the counter had; an old high word, or a low word from
\* before the carry, in b has the whole of a before the carry.
ReadInv ==
  Reading =>
    /\ ALoaded("hi") => HighWord(a.hi)
    /\ ALoaded("lo") => \E n \in since .. count : a.lo = n % Word
    /\ BLoaded("hi") => HighWord(b.hi) /\ (b.hi = Turn => Before(Carry - 1))
    /\ BLoaded("lo") => \E n \in since .. count :
                          b.lo = n % Word /\ (n < Carry - 1 => Before(n))
    /\ pc = "judge" => loaded = {}

\* A number between a multiple of the low word's size and the next.
LEMMA WordsOf ==
  ASSUME NEW n \in Nat, NEW k \in Nat, k * Word <= n, n < (k + 1) * Word
  PROVE  n \div Word = k /\ n % Word = n - k * Word
<1>1. PICK q \in Nat : q = n \div Word
  BY DivMod, Zenon
<1>2. PICK m \in 0 .. Word - 1 : m = n % Word
  BY DivMod, Zenon
<1>3. n = Word * q + m
  BY <1>1, <1>2, DivMod, Zenon
<1>4. ASSUME NEW x \in Nat, NEW y \in Nat, x < y
      PROVE  x * Word + Word <= y * Word
  <2>1. PICK d \in Nat : y = x + 1 + d
    BY <1>4
  <2>2. y * Word = x * Word + Word + d * Word /\ d * Word >= 0
    BY <2>1, NotimeSizes
  <2> QED
    BY <2>2, NotimeSizes
<1>5. (k + 1) * Word = k * Word + Word /\ Word * q = q * Word
  BY NotimeSizes
<1>6. k * Word \in Nat /\ q * Word \in Nat
  BY NotimeSizes
<1>7. ~(q < k)
  BY <1>3, <1>4, <1>5, <1>6, NotimeSizes
<1>8. ~(k < q)
  BY <1>3, <1>4, <1>5, <1>6, NotimeSizes
<1>9. q = k
  BY <1>7, <1>8
<1> QED
  BY <1>1, <1>2, <1>3, <1>5, <1>6, <1>9, NotimeSizes

\* The numbers less than a turn from the beginning of the read are on the two
\* sides of its carry.
LEMMA AroundCarry ==
  ASSUME NEW s \in Nat, NEW n \in s .. s + Word - 1
  PROVE  LET k == s \div Word
             c == (k + 1) * Word
         IN  /\ k \in Nat /\ c \in Nat /\ s < c /\ k * Word = c - Word
             /\ (k + 1) * Word = c /\ c - Word <= s
             /\ n < c  => n \div Word = k /\ n % Word = n - (c - Word)
             /\ n >= c => n \div Word = k + 1 /\ n % Word = n - c
<1>1. PICK k \in Nat : k = s \div Word
  BY DivMod, Zenon
<1>2. s = Word * k + (s % Word) /\ s % Word \in 0 .. Word - 1
  BY <1>1, DivMod, Zenon
<1>3. PICK c \in Nat : c = (k + 1) * Word
  BY NotimeSizes
<1>4. /\ Word * k = k * Word /\ k * Word \in Nat /\ k * Word = c - Word
      /\ (k + 1) * Word = c /\ (k + 2) * Word = c + Word
      /\ (k + 1) + 1 = k + 2
  BY <1>3, NotimeSizes
<1>5. c - Word <= s /\ s < c
  BY <1>2, <1>4, NotimeSizes
<1>6. n \in Nat /\ c - Word <= n /\ n < c + Word
  BY <1>5, NotimeSizes
<1>7. n < c  => n \div Word = k /\ n % Word = n - (c - Word)
  BY <1>4, <1>6, WordsOf
<1>8. n >= c => n \div Word = k + 1 /\ n % Word = n - c
  <2> SUFFICES ASSUME n >= c PROVE n \div Word = k + 1 /\ n % Word = n - c
    BY Zenon
  <2>1. (k + 1) * Word <= n /\ n < ((k + 1) + 1) * Word /\ k + 1 \in Nat
    BY <1>4, <1>6
  <2> QED
    BY <1>4, <1>6, <2>1, WordsOf, Zenon
<1> QED
  BY <1>1, <1>3, <1>4, <1>5, <1>7, <1>8, Zenon

\* The same of a number the counter may have during a read.
LEMMA NearCarry ==
  ASSUME NotimeTypes, NEW n \in Nat, since <= n, n < since + Word
  PROVE  /\ Turn \in Nat /\ Carry \in Nat /\ since < Carry
         /\ Turn * Word = Carry - Word /\ (Turn + 1) * Word = Carry
         /\ Carry - Word <= since
         /\ n < Carry  => n \div Word = Turn /\ n % Word = n - (Carry - Word)
         /\ n >= Carry => n \div Word = Turn + 1 /\ n % Word = n - Carry
<1>1. since \in Nat /\ n \in since .. since + Word - 1
  BY NotimeSizes DEF NotimeTypes
<1> QED
  BY <1>1, AroundCarry, Zenon DEF Turn, Carry

\* The high word is the new one from the store before the carry on.
LEMMA HighOfCounter ==
  ASSUME NotimeTypes, CounterInv, NearInv, Reading
  PROVE  /\ hi \in {Turn, Turn + 1}
         /\ hi = Turn => count < Carry
         /\ hi = Turn + 1 => count >= Carry - 1
<1>1. count \in Nat /\ since <= count /\ count < since + Word /\ since \in Nat
  BY Zenon DEF NearInv, NotimeTypes
<1>2. CASE \A t \in CountingThread : thread[t] # "storing"
  <2>1. hi = count \div Word
    BY <1>2, Zenon DEF CounterInv
  <2>2. /\ Turn \in Nat /\ Carry \in Nat
        /\ count < Carry  => count \div Word = Turn
        /\ count >= Carry => count \div Word = Turn + 1
    BY <1>1, NearCarry, Zenon
  <2> QED
    BY <1>1, <2>1, <2>2
<1>3. ASSUME NEW t \in CountingThread, thread[t] = "storing"
      PROVE  /\ hi \in {Turn, Turn + 1}
             /\ hi = Turn => count < Carry
             /\ hi = Turn + 1 => count >= Carry - 1
  <2>1. hi = (count + 1) \div Word /\ count + 1 < since + Word
    BY <1>3, Zenon DEF CounterInv, NearInv
  <2>2. count + 1 \in Nat /\ since <= count + 1
    BY <1>1
  <2>3. /\ Turn \in Nat /\ Carry \in Nat
        /\ count + 1 < Carry  => (count + 1) \div Word = Turn
        /\ count + 1 >= Carry => (count + 1) \div Word = Turn + 1
    BY <2>1, <2>2, NearCarry, Zenon
  <2> QED
    BY <1>1, <2>1, <2>2, <2>3
<1> QED
  BY <1>2, <1>3, Zenon

\* The counting thread leaves what was loaded true: the number only grows, and
\* the high word changes once.
LEMMA CountReads ==
  ASSUME NotimeTypes, ThreadInv, CounterInv, NearInv, ReadInv,
         NEW t \in CountingThread, Count(t)
  PROVE  NearInv' /\ ReadInv'
<1>1. /\ UNCHANGED <<pc, a, b, loaded, since>>
      /\ \A u \in CountingThread : u # t => thread'[u] = thread[u]
      /\ Alive(t)
  BY Zenon DEF Count, PinThread, ZeroHigh, ZeroLow, StoreHigh, StoreLow,
     Interrupted, reading, NotimeTypes, Alive
<1>2. \A u \in CountingThread : u # t => thread'[u] # "storing"
  BY <1>1, Zenon DEF ThreadInv, Alive
<1>3. SUFFICES ASSUME Reading PROVE NearInv' /\ ReadInv'
  BY <1>1, Zenon DEF Reading, NearInv, ReadInv
<1>4. /\ count \in Nat /\ since \in Nat /\ hi \in Nat
      /\ since <= count /\ count < since + Word
  BY <1>3, Zenon DEF NotimeTypes, NearInv
<1>5. /\ count <= count' /\ count' \in Nat /\ count' < since + Word
      /\ thread'[t] = "storing" => count' + 1 < since + Word
      /\ hi = Turn + 1 => hi' = Turn + 1
  <2>1. CASE PinThread(t) \/ Interrupted(t)
    BY <1>4, <2>1 DEF PinThread, Interrupted, Leaves, counter, NotimeTypes
  <2>2. CASE ZeroHigh(t) \/ ZeroLow(t)
    BY <1>4, <2>2 DEF ZeroHigh, ZeroLow, NotimeTypes, CounterInv
  <2>3. CASE StoreHigh(t)
    <3>1. /\ thread[t] = "counting" /\ count < since + Advance /\ count' = count
          /\ value' = [value EXCEPT ![t] = Number(hi, lo) + 1]
          /\ hi' = value'[t] \div Word
      BY <1>3, <2>3, Zenon DEF StoreHigh, ReadIsFast, Reading
    <3>2. hi = count \div Word /\ lo = count % Word
      BY <1>1, <1>2, <3>1, Zenon DEF CounterInv
    <3>3. Number(hi, lo) = count
      BY <1>4, <3>2, DivMod, NotimeSizes DEF Number
    <3>4. hi' = (count + 1) \div Word
      BY <3>1, <3>3, Zenon DEF NotimeTypes
    <3>5. /\ count + 1 \in Nat /\ since <= count + 1
          /\ count + 1 < since + Word
      BY <1>4, <3>1, NotimeSizes
    <3>6. /\ Turn \in Nat /\ Carry \in Nat
          /\ count < Carry => count \div Word = Turn
          /\ count + 1 >= Carry => (count + 1) \div Word = Turn + 1
      BY <1>4, <3>5, NearCarry, Zenon
    <3>7. hi = Turn + 1 => hi' = Turn + 1
      BY <1>4, <3>2, <3>4, <3>6
    <3> QED
      BY <1>4, <3>1, <3>5, <3>7
  <2>4. CASE StoreLow(t)
    <3>1. /\ count' = count + 1 /\ hi' = hi /\ thread'[t] = "counting"
          /\ count + 1 < since + Word
      BY <1>3, <2>4, Zenon DEF StoreLow, CounterInv, NearInv, NotimeTypes
    <3> QED
      BY <1>4, <3>1
  <2> QED
    BY <2>1, <2>2, <2>3, <2>4, Zenon DEF Count
<1>6. NearInv'
  BY <1>1, <1>2, <1>4, <1>5 DEF NearInv, Reading
<1>7. /\ Turn' = Turn /\ Carry' = Carry
      /\ \A w : ALoaded(w)' = ALoaded(w) /\ BLoaded(w)' = BLoaded(w)
      /\ \A n : Before(n)' = Before(n)
  BY <1>1, Zenon DEF Turn, Carry, ALoaded, BLoaded, Before
<1>8. \A h : HighWord(h) => HighWord(h)'
  BY <1>5, <1>7, Zenon DEF HighWord
<1>9. since .. count \subseteq since' .. count'
  BY <1>1, <1>4, <1>5
<1>10. ReadInv'
  <2>1. ALoaded("hi")' => HighWord(a.hi)'
    BY <1>3, <1>1, <1>7, <1>8, Zenon DEF ReadInv
  <2>2. ALoaded("lo")' => \E n \in since' .. count' : a'.lo = n % Word
    BY <1>3, <1>1, <1>7, <1>9, Zenon DEF ReadInv
  <2>3. BLoaded("hi")' =>
          HighWord(b.hi)' /\ (b'.hi = Turn' => Before(Carry - 1)')
    BY <1>3, <1>1, <1>7, <1>8, Zenon DEF ReadInv
  <2>4. BLoaded("lo")' =>
          \E n \in since' .. count' :
            b'.lo = n % Word /\ (n < Carry' - 1 => Before(n)')
    BY <1>3, <1>1, <1>7, <1>9, Zenon DEF ReadInv
  <2> QED
    BY <1>1, <1>3, <2>1, <2>2, <2>3, <2>4, Zenon DEF ReadInv
<1> QED
  BY <1>6, <1>10, Zenon

\* With the old high word in memory, a was read before the carry.
LEMMA OldHighWord ==
  ASSUME NotimeTypes, CounterInv, NearInv, ReadInv, pc = "b", hi = Turn
  PROVE  Before(count) /\ Before(Carry - 1)
<1>0. Reading
  BY Zenon DEF Reading
<1>1. /\ HighWord(a.hi) /\ \E n \in since .. count : a.lo = n % Word
      /\ since \in Nat /\ count \in Nat /\ count < since + Word
  BY <1>0, Zenon DEF ReadInv, ALoaded, NotimeTypes, NearInv
<1>2. PICK n \in since .. count : a.lo = n % Word
  BY <1>1, Zenon
<1>3. n \in Nat /\ since <= n /\ n < since + Word /\ n <= count
  BY <1>1, NotimeSizes
<1>4. /\ Turn \in Nat /\ Carry \in Nat /\ Turn * Word = Carry - Word
      /\ n < Carry => n % Word = n - (Carry - Word)
  BY <1>3, NearCarry, Zenon
<1>5. count < Carry
  BY <1>0, HighOfCounter, Zenon
<1>6. a.hi = Turn
  BY <1>1, <1>4, Zenon DEF HighWord
<1>7. a.lo = n - (Carry - Word)
  BY <1>1, <1>2, <1>3, <1>4, <1>5
<1>8. Number(a.hi, a.lo) = n
  BY <1>3, <1>4, <1>6, <1>7, NotimeSizes DEF Number
<1>9. n \in since .. count /\ n \in since .. Carry - 1
  BY <1>1, <1>3, <1>4, <1>5
<1> QED
  BY <1>6, <1>8, <1>9, Zenon DEF Before

\* A word is loaded.
LEMMA LoadReads ==
  ASSUME NotimeTypes, ThreadInv, CounterInv, NearInv, ReadInv,
         NEW w \in {"hi", "lo"}, LoadWord(w)
  PROVE  NearInv' /\ ReadInv'
<1>0. /\ Reading /\ Reading' /\ w \notin loaded
      /\ UNCHANGED <<hi, lo, count, since, thread>>
      /\ \/ loaded = {} /\ loaded' = {w} /\ pc' = pc
         \/ loaded # {} /\ loaded' = {} /\ pc' = IF pc = "a" THEN "b" ELSE "judge"
  BY Zenon DEF LoadWord, Reading, counter, counting
<1>1. NearInv'
  BY <1>0, Zenon DEF NearInv
<1>2. /\ Turn' = Turn /\ Carry' = Carry /\ \A h : HighWord(h)' = HighWord(h)
  BY <1>0, Zenon DEF Turn, Carry, HighWord
<1>3. HighWord(hi) /\ count \in since .. count /\ lo = count % Word
  BY <1>0, HighOfCounter DEF HighWord, CounterInv, NearInv, NotimeTypes
<1>4. pc' = "judge" => loaded' = {}
  BY <1>0, Zenon DEF Reading, LoadWord
<1>5. CASE pc = "a"
  <2>1. /\ a' = [a EXCEPT ![w] = IF w = "hi" THEN hi ELSE lo]
        /\ ~BLoaded("hi")' /\ ~BLoaded("lo")'
    BY <1>0, <1>5, Zenon DEF LoadWord, BLoaded
  <2>2. ALoaded("hi")' => (w = "hi" /\ a'.hi = hi)
                            \/ (ALoaded("hi") /\ a'.hi = a.hi)
    BY <1>0, <1>5, <2>1, Zenon DEF ALoaded, NotimeTypes
  <2>3. ALoaded("lo")' => (w = "lo" /\ a'.lo = lo)
                            \/ (ALoaded("lo") /\ a'.lo = a.lo)
    BY <1>0, <1>5, <2>1, Zenon DEF ALoaded, NotimeTypes
  <2>4. ALoaded("hi")' => HighWord(a'.hi)
    BY <1>0, <1>3, <2>2, Zenon DEF ReadInv
  <2>5. ALoaded("lo")' => \E n \in since .. count : a'.lo = n % Word
    BY <1>0, <1>3, <2>3, Zenon DEF ReadInv
  <2>6. ALoaded("hi")' => HighWord(a.hi)'
    BY <1>0, <2>4, <1>2, Zenon DEF HighWord
  <2> QED
    BY <1>0, <1>1, <1>4, <2>1, <2>5, <2>6, Zenon DEF ReadInv
<1>6. CASE pc = "b"
  <2>1. /\ b' = [b EXCEPT ![w] = IF w = "hi" THEN hi ELSE lo] /\ a' = a
        /\ ALoaded("hi") /\ ALoaded("lo")
    BY <1>0, <1>6, Zenon DEF LoadWord, ALoaded
  <2>2. \A n : Before(n)' = Before(n)
    BY <1>2, <1>0, <2>1, Zenon DEF Before
  <2>3. BLoaded("hi")' => (w = "hi" /\ b'.hi = hi)
                            \/ (BLoaded("hi") /\ b'.hi = b.hi)
    BY <1>0, <1>6, <2>1, Zenon DEF BLoaded, NotimeTypes
  <2>4. BLoaded("lo")' => (w = "lo" /\ b'.lo = lo)
                            \/ (BLoaded("lo") /\ b'.lo = b.lo)
    BY <1>0, <1>6, <2>1, Zenon DEF BLoaded, NotimeTypes
  <2>5. hi = Turn => Before(count) /\ Before(Carry - 1)
    BY <1>6, OldHighWord, Zenon
  <2>6. count < Carry - 1 => Before(count)
    <3>1. hi \in {Turn, Turn + 1} /\ (hi = Turn + 1 => count >= Carry - 1)
      BY <1>0, HighOfCounter, Zenon
    <3>2. count \in Nat /\ Carry \in Nat
      BY <1>0, NearCarry, Zenon DEF NearInv, NotimeTypes
    <3> QED
      BY <2>5, <3>1, <3>2
  <2>7. BLoaded("hi")' => HighWord(b'.hi) /\ (b'.hi = Turn => Before(Carry - 1))
    BY <1>0, <1>3, <2>3, <2>5, Zenon DEF ReadInv
  <2>8. BLoaded("lo")' =>
          \E n \in since .. count : b'.lo = n % Word /\ (n < Carry - 1 => Before(n))
    BY <1>0, <1>3, <2>4, <2>6, Zenon DEF ReadInv
  <2>9. HighWord(a.hi)' /\ \E n \in since .. count : a'.lo = n % Word
    BY <1>0, <1>2, <2>1, Zenon DEF ReadInv, HighWord
  <2>10. BLoaded("hi")' =>
           HighWord(b.hi)' /\ (b'.hi = Turn' => Before(Carry - 1)')
    BY <1>0, <1>2, <2>2, <2>7, Zenon DEF HighWord
  <2>11. BLoaded("lo")' =>
           \E n \in since' .. count' :
             b'.lo = n % Word /\ (n < Carry' - 1 => Before(n)')
    BY <1>0, <1>2, <2>2, <2>8, Zenon
  <2> QED
    BY <1>0, <1>1, <1>4, <2>9, <2>10, <2>11, Zenon DEF ReadInv
<1> QED
  BY <1>0, <1>5, <1>6, Zenon DEF LoadWord

\* The other steps: a read begins with nothing loaded, or there is none.
LEMMA OtherReads ==
  ASSUME NotimeTypes, ThreadInv, CounterInv, NearInv, ReadInv, [Next]_vars,
         ~\E t \in CountingThread : Count(t),
         ~\E w \in {"hi", "lo"} : LoadWord(w)
  PROVE  NearInv' /\ ReadInv'
<1>1. CASE /\ pc' = "a" /\ loaded' = {} /\ since' = count
           /\ UNCHANGED <<count, thread>>
  <2>1. NearInv'
    BY <1>1, NotimeSizes DEF NearInv, NotimeTypes
  <2>2. ReadInv'
    BY <1>1, Zenon DEF ReadInv, ALoaded, BLoaded
  <2> QED
    BY <2>1, <2>2, Zenon
<1>2. CASE ~Reading'
  BY <1>2, Zenon DEF NearInv, ReadInv
<1>3. CASE UNCHANGED <<counter, counting, count, pc, reading>>
  <2>1. NearInv'
    BY <1>3, Zenon DEF NearInv, Reading, counting, reading
  <2>2. UNCHANGED <<hi, a, b, loaded, since, pc, count>>
    BY <1>3, Zenon DEF counter, reading
  <2>3. ReadInv'
    BY <2>2, Zenon DEF ReadInv, Reading, ALoaded, BLoaded, HighWord, Before,
       Turn, Carry
  <2> QED
    BY <2>1, <2>3, Zenon
<1>4. CASE GetTime
  BY <1>1, <1>4, Zenon DEF GetTime, counting
<1>5. CASE Judge
  <2>1. loaded = {}
    BY <1>5, Zenon DEF Judge, ReadInv, Reading
  <2> QED
    BY <1>1, <1>2, <1>5, <2>1, Zenon DEF Judge, counting, Reading
<1>6. CASE \/ \E t \in CountingThread : Settick(t)
           \/ Unsettick \/ Join \/ (\E h \in Host : EnableThread(h)) \/ Disable
  BY <1>2, <1>6, Zenon DEF Settick, Unsettick, Join, EnableThread, Disable,
     Reading
<1>7. CASE \/ \E cpu \in Cpu : SetCpu(cpu)
           \/ \E new_thread \in {"builtin", "external"} : Switch(new_thread)
           \/ BlockSwitch
  BY <1>3, <1>7, Zenon DEF SetCpu, Switch, BlockSwitch
<1>8. CASE UNCHANGED vars
  BY <1>3, <1>8, Zenon DEF vars
<1> QED
  BY <1>4, <1>5, <1>6, <1>7, <1>8, Zenon DEF Next

-----------------------------------------------------------------------------
(* The theorems *)

\* The inductive invariant.
NotimeInv ==
  NotimeTypes /\ ThreadInv /\ HandlerInv /\ CounterInv /\ NearInv /\ ReadInv

\* The counting thread does not run at the start.
LEMMA NotimeInit == Init => NotimeInv
<1> SUFFICES ASSUME Init PROVE NotimeInv
  BY Zenon
<1>1. NotimeTypes
  BY Zenon DEF Init, NotimeTypes, Empty
<1>2. ThreadInv /\ HandlerInv
  BY Zenon DEF Init, ThreadInv, HandlerInv, Alive, Reading
<1>3. CounterInv
  BY WordsOfZero, Zenon DEF Init, CounterInv
<1>4. NearInv /\ ReadInv
  BY Zenon DEF Init, NearInv, ReadInv, Reading
<1> QED
  BY <1>1, <1>2, <1>3, <1>4, Zenon DEF NotimeInv

\* Every step keeps the invariant.
LEMMA NotimeNext == NotimeInv /\ [Next]_vars => NotimeInv'
<1> SUFFICES ASSUME NotimeInv, [Next]_vars PROVE NotimeInv'
  BY Zenon
<1> USE DEF NotimeInv
<1>1. NotimeTypes' /\ ThreadInv' /\ HandlerInv' /\ CounterInv'
  <2>1. CASE UNCHANGED vars
    BY <2>1, Zenon DEF vars, counter, handshake, counting, reading, handler,
       NotimeTypes, ThreadInv, HandlerInv, CounterInv, Alive, Reading
  <2>2. CASE Next
    BY <2>2, CountThreads, ReaderThreads, HandlerThreads, Zenon DEF Next
  <2> QED
    BY <2>1, <2>2, Zenon
<1>2. NearInv' /\ ReadInv'
  BY CountReads, LoadReads, OtherReads, Zenon
<1> QED
  BY <1>1, <1>2, Zenon

\* The invariant holds in every state of a run.
LEMMA NotimeInvariant == Spec => []NotimeInv
BY NotimeInit, NotimeNext, PTL DEF Spec

\* From jent_notime_settick() to the return of jent_notime_unsettick() one
\* thread counts for the reader, none before and after, and the handler that
\* stops it is the one that made its context.
THEOREM OneCounts == Spec => []OneCountsForReader
<1>1. NotimeInv => OneCountsForReader
  <2> SUFFICES ASSUME NotimeInv PROVE OneCountsForReader
    BY Zenon
  <2> DEFINE alive == {t \in CountingThread : thread[t] \notin {"none", "done"}}
  <2>1. \A t, u \in alive : t = u
    BY Zenon DEF NotimeInv, ThreadInv, Alive
  <2>2. Cardinality(alive) <= 1
    <3>1. CASE alive = {}
      BY <3>1, FS_EmptySet
    <3>2. ASSUME NEW t \in alive PROVE Cardinality(alive) <= 1
      <4>1. alive = {t}
        BY <2>1, Zenon
      <4>2. Cardinality({t}) = 1
        BY FS_Singleton, Zenon
      <4> HIDE DEF alive
      <4> QED
        BY <4>1, <4>2
    <3> QED
      BY <3>1, <3>2, Zenon
  <2>3. pc \in {"idle", "stopped"} => alive = {}
    BY Zenon DEF NotimeInv, ThreadInv
  <2>4. pc \in {"ready", "a", "b", "judge"} => alive # {}
    BY Zenon DEF NotimeInv, ThreadInv, Reading, Alive
  <2>5. ctx # NoCtx => ctx.of = notime_thread
    BY Zenon DEF NotimeInv, HandlerInv
  <2> QED
    BY <2>2, <2>3, <2>4, <2>5, Zenon DEF OneCountsForReader
<1> QED
  BY <1>1, NotimeInvariant, PTL

\* A read that jent_notime_read() accepts has the number of its second low word.
LEMMA AcceptedRead ==
  ASSUME NotimeInv, pc = "judge",
         ~ReaderTorn(Number(a.hi, a.lo), Number(b.hi, b.lo)),
         ~WriterTorn(Number(b.hi, b.lo))
  PROVE  since <= Number(b.hi, b.lo) /\ Number(b.hi, b.lo) <= count
<1> DEFINE x == Number(a.hi, a.lo)
           y == Number(b.hi, b.lo)
<1>0. /\ Reading /\ NotimeTypes /\ BLoaded("hi") /\ BLoaded("lo")
      /\ a.hi \in Nat /\ a.lo \in Nat /\ b.hi \in Nat /\ b.lo \in Nat
      /\ since \in Nat /\ count \in Nat /\ count < since + Word
  BY Zenon DEF NotimeInv, NotimeTypes, NearInv, Reading, BLoaded
<1>1. /\ b.hi \in {Turn, Turn + 1} /\ (b.hi = Turn => Before(Carry - 1))
      /\ \E n \in since .. count : b.lo = n % Word /\ (n < Carry - 1 => Before(n))
  BY <1>0, Zenon DEF NotimeInv, ReadInv, HighWord
<1>2. PICK n \in since .. count : b.lo = n % Word /\ (n < Carry - 1 => Before(n))
  BY <1>1, Zenon
<1>3. n \in Nat /\ since <= n /\ n <= count /\ n < since + Word
  BY <1>0, NotimeSizes
<1>4. /\ Turn \in Nat /\ Carry \in Nat /\ since < Carry
      /\ Turn * Word = Carry - Word /\ (Turn + 1) * Word = Carry
      /\ Carry - Word <= since
      /\ n < Carry  => n % Word = n - (Carry - Word)
      /\ n >= Carry => n % Word = n - Carry
  BY <1>0, <1>3, NearCarry, Zenon
<1>5. /\ b.hi = Turn     => y = Carry - Word + b.lo
      /\ b.hi = Turn + 1 => y = Carry + b.lo
  BY <1>4, Zenon DEF Number
<1>6. y \in Nat /\ x \in Nat
  BY <1>0, NotimeSizes DEF Number
<1>7. x <= y /\ y - x <= Word \div 2 /\ Word \div 2 < Word
  BY <1>6, NotimeSizes DEF ReaderTorn
<1>8. CASE b.hi = Turn /\ n >= Carry     \* the carry came after the high word
  <2>1. since <= x
    BY <1>1, <1>8 DEF Before
  <2>2. y = n - Word
    BY <1>2, <1>3, <1>4, <1>5, <1>8, NotimeSizes
  <2> QED
    BY <1>3, <1>6, <1>7, <2>1, <2>2, <1>0, NotimeSizes
<1>9. CASE b.hi = Turn + 1 /\ n < Carry  \* ... or before it
  <2>1. b.lo = n - (Carry - Word) /\ y = n + Word
    BY <1>2, <1>3, <1>4, <1>5, <1>9, NotimeSizes
  <2>2. y % Word = b.lo
    <3>1. /\ Turn + 1 \in Nat /\ (Turn + 1) * Word <= y
          /\ y < ((Turn + 1) + 1) * Word
      <4>1. ((Turn + 1) + 1) * Word = Carry + Word
        BY <1>4, NotimeSizes
      <4> QED
        BY <1>3, <1>4, <1>6, <1>9, <2>1, <4>1, NotimeSizes
    <3>2. y % Word = y - (Turn + 1) * Word
      BY <1>6, <3>1, WordsOf, Zenon
    <3> QED
      BY <1>0, <1>4, <1>5, <1>9, <3>2
  <2>3. b.lo # Word - 1
    BY <2>2, Zenon DEF WriterTorn
  <2>4. n < Carry - 1
    BY <1>3, <1>4, <1>9, <2>1, <2>3, NotimeSizes
  <2>5. x <= n
    BY <1>2, <2>4 DEF Before
  <2> QED
    BY <1>3, <1>6, <1>7, <2>1, <2>5, NotimeSizes
<1>10. CASE (b.hi = Turn /\ n < Carry) \/ (b.hi = Turn + 1 /\ n >= Carry)
  <2>1. y = n
    BY <1>2, <1>3, <1>4, <1>5, <1>10, NotimeSizes
  <2> QED
    BY <1>3, <2>1, Zenon
<1> QED
  BY <1>1, <1>3, <1>4, <1>8, <1>9, <1>10

\* However the loads of jent_notime_read() fall between the stores of the
\* counting thread, jent_get_nstime_internal() gives a value the counter had
\* while it was read, later than the one before.
THEOREM ReadsCounter == Spec => ReadsTheCounter
<1>1. NotimeInv /\ [Next]_vars =>
        [pc = "judge" /\ pc' = "ready" =>
           since <= out' /\ out' <= count /\ out' > out]_vars
  <2> SUFFICES ASSUME NotimeInv, Next, pc = "judge", pc' = "ready"
               PROVE  since <= out' /\ out' <= count /\ out' > out
    BY Zenon
  <2>1. Judge
    BY Zenon DEF Next, Count, PinThread, ZeroHigh, ZeroLow, StoreHigh,
       StoreLow, Interrupted, Settick, GetTime, LoadWord, Unsettick, Join,
       SetCpu, Switch, BlockSwitch, EnableThread, Disable
  <2>2. /\ ~ReaderTorn(Number(a.hi, a.lo), Number(b.hi, b.lo))
        /\ ~WriterTorn(Number(b.hi, b.lo))
        /\ ~NotTicked(Number(b.hi, b.lo))
        /\ out' = Number(b.hi, b.lo)
    BY <2>1, Zenon DEF Judge
  <2>3. since <= out' /\ out' <= count
    BY <2>2, AcceptedRead, Zenon
  <2>4. Number(b.hi, b.lo) \in Nat /\ out \in Nat /\ notime_prev_timer = out
    BY NotimeSizes DEF NotimeInv, NotimeTypes, Number
  <2> QED
    BY <2>2, <2>3, <2>4 DEF NotTicked
<1> QED
  BY <1>1, NotimeInvariant, PTL DEF Spec, ReadsTheCounter

-----------------------------------------------------------------------------
(* The CPU of the counting thread *)

\* A set of CPUs has a last one.
LEMMA LastCpu ==
  ASSUME NEW n \in Nat, NEW T, T \subseteq 0 .. n - 1, T # {}
  PROVE  Max(T) \in T /\ \A x \in T : Max(T) >= x
<1> DEFINE U == {n - x : x \in T}
<1>1. U \subseteq Nat /\ U # {}
  <2>1. \A x \in T : n - x \in Nat
    OBVIOUS
  <2> QED
    BY <2>1, Zenon
<1>2. PICK u \in U : \A v \in U : ~ (<<v, u>> \in OpToRel(<, Nat))
  BY <1>1, NatLessThanWellFounded, WFMin, Zenon
<1>3. PICK x \in T : u = n - x
  BY <1>2, Zenon
<1>4. ASSUME NEW y \in T PROVE x >= y
  <2>1. n - y \in U
    BY Zenon
  <2>2. n - y \in Nat /\ n - x \in Nat /\ x \in Nat /\ y \in Nat
    OBVIOUS
  <2>3. ~ (n - y < n - x)
    BY <1>2, <1>3, <2>1, <2>2, Zenon DEF OpToRel
  <2> QED
    BY <2>2, <2>3
<1> QED
  BY <1>4, Zenon DEF Max

\* The position of a processor among a set of them.
Rank(S, u) == Cardinality({x \in S : x < u})

\* Two processors of a group have different positions in it.
LEMMA PositionsDiffer ==
  ASSUME NEW n \in Nat, NEW S, S \subseteq 0 .. n - 1, NEW u \in S, NEW v \in S
  PROVE  Rank(S, u) \in Nat /\ (Rank(S, u) = Rank(S, v) => u = v)
<1>0. S \subseteq Int
  OBVIOUS
<1> DEFINE Below(k) == {x \in S : x < k}
<1>1. IsFiniteSet(S)
  <2>1. IsFiniteSet(0 .. n - 1)
    BY FS_Interval
  <2> QED
    BY <2>1, FS_Subset, Zenon
<1>2. ASSUME NEW k \in S
      PROVE  IsFiniteSet(Below(k)) /\ Cardinality(Below(k)) \in Nat
  BY <1>1, FS_Subset, FS_CardinalityType, Zenon
<1>3. ASSUME NEW j \in S, NEW k \in S, j < k
      PROVE  Cardinality(Below(j)) # Cardinality(Below(k))
  <2>1. Below(j) \in SUBSET Below(k)
    <3>1. ASSUME NEW x \in S, x < j PROVE x < k
      BY <1>0, <1>3, <3>1
    <3> QED
      BY <3>1, Zenon
  <2>2. j \in Below(k) /\ j \notin Below(j)
    BY <1>3
  <2> HIDE DEF Below
  <2> QED
    BY <1>2, <2>1, <2>2, FS_Subset, Zenon
<1>4. u < v \/ v < u \/ u = v
  <2>1. u \in Int /\ v \in Int
    BY <1>0, Zenon
  <2> QED
    BY <2>1
<1> HIDE DEF Below
<1>5. /\ Cardinality(Below(u)) \in Nat
      /\ Cardinality(Below(u)) = Cardinality(Below(v)) => u = v
  BY <1>2, <1>3, <1>4, Zenon
<1> QED
  BY <1>5, Zenon DEF Below, Rank

\* There are finitely many processors.
LEMMA ActiveFinite ==
  ASSUME NEW h, Consistent(h), h.platform = "windows"
  PROVE  IsFiniteSet(Active(h))
<1>1. h.width \in Nat /\ Len(h.groups) \in Nat
      /\ \A k \in 1 .. Len(h.groups) : h.groups[k] \subseteq 0 .. h.width - 1
  BY Zenon DEF Consistent
<1> DEFINE All == (1 .. Len(h.groups)) \X (0 .. h.width - 1)
<1>2. IsFiniteSet(All)
  <2>1. \A k \in Nat : IsFiniteSet(1 .. k) /\ IsFiniteSet(0 .. k - 1)
    BY FS_Interval
  <2> QED
    BY <1>1, <2>1, FS_Product, Zenon
<1>3. Active(h) \in SUBSET All
  <2>1. ASSUME NEW place \in Active(h) PROVE place \in All
    <3>1. PICK k \in 1 .. Len(h.groups) : place \in {k} \X h.groups[k]
      BY Zenon DEF Active
    <3>2. h.groups[k] \subseteq 0 .. h.width - 1
      BY <1>1, Zenon
    <3> QED
      BY <3>1, <3>2
  <2> HIDE DEF All
  <2> QED
    BY <2>1, Zenon
<1> QED
  BY <1>2, <1>3, FS_Subset, Zenon

\* The flat numbers count processors.
LEMMA BaseNat ==
  ASSUME NEW h, Consistent(h), h.platform = "windows", NEW g
  PROVE  Base(h, g) \in Nat
BY ActiveFinite, FS_Subset, FS_CardinalityType, Zenon DEF Base

\* The number of a processor is the first one of its group and its position there.
LEMMA NumberOfPlace ==
  ASSUME NEW h, Consistent(h), h.platform = "windows", NEW p \in Inherited(h)
  PROVE  /\ p \in Active(h) /\ p[1] = h.group
         /\ Rank(h.groups[h.group], p[2]) \in Nat
         /\ FlatNumber(h, p) = Base(h, h.group) + Rank(h.groups[h.group], p[2])
<1> DEFINE S == h.groups[h.group]
           Earlier == {q \in Active(h) : q[1] < h.group}
           Below == {x \in S : x < p[2]}
           Beside == {h.group} \X Below
<1>1. /\ h.width \in Nat /\ h.affinity \subseteq S /\ S \subseteq 0 .. h.width - 1
      /\ h.group \in 1 .. Len(h.groups) /\ h.group \in Int
  BY DEF Consistent
<1>2. p = <<h.group, p[2]>> /\ p[2] \in h.affinity /\ p[1] = h.group
  BY DEF Inherited
<1>3. p \in Active(h)
  <2>1. p \in {h.group} \X S
    BY <1>1, <1>2
  <2> QED
    BY <1>1, <2>1, Zenon DEF Active
<1>4. IsFiniteSet(Below) /\ Cardinality(Below) \in Nat
  <2>1. \A k \in Nat : IsFiniteSet(0 .. k - 1)
    BY FS_Interval
  <2>2. Below \in SUBSET (0 .. h.width - 1)
    BY <1>1, Zenon
  <2> QED
    BY <1>1, <2>1, <2>2, FS_Subset, FS_CardinalityType, Zenon
<1>5. IsFiniteSet(Earlier) /\ Cardinality(Earlier) \in Nat
  BY ActiveFinite, FS_Subset, FS_CardinalityType, Zenon
<1>6. IsFiniteSet(Beside) /\ Cardinality(Beside) = Cardinality(Below)
  <2>1. IsFiniteSet({h.group}) /\ Cardinality({h.group}) = 1
    BY FS_Singleton, Zenon
  <2>2. IsFiniteSet(Beside) /\ Cardinality(Beside) = Cardinality({h.group}) * Cardinality(Below)
    BY <1>4, <2>1, FS_Product, Zenon
  <2>3. \A n \in Nat : 1 * n = n
    OBVIOUS
  <2> QED
    BY <1>4, <2>1, <2>2, <2>3, Zenon
<1>7. Earlier \cap Beside = {}
  <2>1. ASSUME NEW q \in Earlier \cap Beside PROVE FALSE
    <3>1. q[1] < h.group /\ q[1] = h.group
      OBVIOUS
    <3> QED
      BY <1>1, <3>1
  <2> QED
    BY <2>1, Zenon
<1>8. {q \in Active(h) : q[1] < p[1] \/ (q[1] = p[1] /\ q[2] < p[2])} = Earlier \cup Beside
  <2>1. ASSUME NEW q \in Active(h), q[1] = h.group, q[2] < p[2] PROVE q \in Beside
    <3>1. PICK k \in 1 .. Len(h.groups) : q \in {k} \X h.groups[k]
      BY Zenon DEF Active
    <3>2. q[1] = k /\ q[2] \in h.groups[k] /\ q = <<k, q[2]>>
      BY <3>1
    <3>3. q[2] \in Below /\ q = <<h.group, q[2]>>
      BY <2>1, <3>2, Zenon
    <3> QED
      BY <3>3
  <2>2. ASSUME NEW q \in Beside PROVE q \in Active(h) /\ q[1] = h.group /\ q[2] < p[2]
    <3>1. q \in {h.group} \X S /\ q[1] = h.group /\ q[2] < p[2]
      OBVIOUS
    <3> QED
      BY <1>1, <3>1, Zenon DEF Active
  <2> HIDE DEF Beside
  <2> QED
    BY <1>2, <2>1, <2>2, Zenon
<1>9. Cardinality(Earlier \cup Beside) = Cardinality(Earlier) + Cardinality(Below)
  <2>1. Cardinality(Earlier \cup Beside)
          = Cardinality(Earlier) + Cardinality(Beside) - Cardinality(Earlier \cap Beside)
    BY <1>5, <1>6, FS_Union, Zenon
  <2>2. Cardinality(Earlier \cap Beside) = 0
    BY <1>7, FS_EmptySet, Zenon
  <2>3. \A m, n \in Nat : m + n - 0 = m + n
    OBVIOUS
  <2> HIDE DEF Earlier, Beside, Below
  <2> QED
    BY <1>4, <1>5, <1>6, <2>1, <2>2, <2>3, Zenon
<1> QED
  BY <1>2, <1>3, <1>4, <1>8, <1>9, Zenon DEF FlatNumber, Base, Rank

\* What jent_cpu_to_group() finds in the affinity is the processor of that number.
LEMMA PlacesByNumber ==
  ASSUME NEW h, Consistent(h), h.platform = "windows", NEW cpu \in Nat
  PROVE  CpuToGroup(h, cpu) \cap Inherited(h) = {p \in Inherited(h) : FlatNumber(h, p) = cpu}
<1>1. ASSUME NEW p \in Inherited(h) PROVE p \in CpuToGroup(h, cpu) <=> FlatNumber(h, p) = cpu
  <2> DEFINE r == Rank(h.groups[h.group], p[2])
             first == Base(h, h.group)
  <2>1. p \in Active(h) /\ p[1] = h.group /\ r \in Nat /\ FlatNumber(h, p) = first + r
    BY NumberOfPlace, Zenon
  <2>2. first \in Nat
    BY BaseNat, Zenon
  <2>3. p \in CpuToGroup(h, cpu) <=> cpu - first = r
    BY <2>1, Zenon DEF CpuToGroup, Rank
  <2> HIDE DEF r, first
  <2>4. cpu - first = r <=> first + r = cpu
    BY <2>1, <2>2
  <2> QED
    BY <2>1, <2>3, <2>4, Zenon
<1> QED
  BY <1>1, Zenon

\* Where a thread of a builtin context, or of another, is put.
PlacedOn(h, c) ==
  LET cpu == IF c.cpu = CpuDefault THEN CpuHighest(h) ELSE c.cpu
  IN  IF c # NoCtx /\ c.of = "builtin" /\ cpu >= 0 THEN Pinned(h, cpu) ELSE Inherited(h)

\* On Windows a number is of one processor of the thread's group at most.
LEMMA WindowsPlaces ==
  ASSUME NEW h, Consistent(h), h.platform = "windows", NEW cpu,
         NEW p \in CpuToGroup(h, cpu) \cap Inherited(h)
  PROVE  CpuToGroup(h, cpu) \cap Inherited(h) = {p}
<1> DEFINE S == h.groups[h.group]
<1>1. h.width \in Nat /\ S \subseteq 0 .. h.width - 1
  BY Zenon DEF Consistent
<1>2. ASSUME NEW q \in CpuToGroup(h, cpu) \cap Inherited(h)
      PROVE  /\ q = <<h.group, q[2]>> /\ q[2] \in S
             /\ Rank(S, q[2]) = cpu - Base(h, h.group)
  <2>1. q = <<h.group, q[2]>> /\ q[2] \in h.affinity /\ q[1] = h.group
    BY DEF Inherited
  <2>2. q[2] \in S
    BY <2>1, Zenon DEF Consistent
  <2>3. cpu - Base(h, q[1]) = Cardinality({x \in h.groups[q[1]] : x < q[2]})
    BY Zenon DEF CpuToGroup
  <2> QED
    BY <2>1, <2>2, <2>3, Zenon DEF Rank
<1> HIDE DEF S
<1>3. ASSUME NEW q \in CpuToGroup(h, cpu) \cap Inherited(h) PROVE q = p
  <2>1. Rank(S, q[2]) = Rank(S, p[2])
    BY <1>2, Zenon
  <2>2. q[2] = p[2]
    BY <1>1, <1>2, <2>1, PositionsDiffer, Zenon
  <2> QED
    BY <1>2, <2>2, Zenon
<1> QED
  BY <1>3, Zenon

\* Pinning puts a thread on one CPU, or leaves it where it may run.
LEMMA PinnedToOne ==
  ASSUME NEW h, Consistent(h), NEW cpu
  PROVE  \/ Pinned(h, cpu) = Inherited(h)
         \/ /\ Cardinality(Pinned(h, cpu)) = 1
            /\ Pinned(h, cpu) \subseteq Inherited(h) \cup h.pinnable
<1>1. CASE h.platform = "windows"
  <2> DEFINE places == CpuToGroup(h, cpu) \cap Inherited(h)
  <2>1. CASE h.denied \/ places = {}
    BY <1>1, <2>1, Zenon DEF Pinned
  <2>2. CASE ~h.denied /\ places # {}
    <3>1. PICK p \in places : TRUE
      BY <2>2, Zenon
    <3>2. places = {p}
      BY <1>1, <3>1, WindowsPlaces, Zenon
    <3>3. Pinned(h, cpu) = places
      BY <1>1, <2>2, Zenon DEF Pinned
    <3>4. Cardinality({p}) = 1
      BY FS_Singleton, Zenon
    <3> QED
      BY <3>2, <3>3, <3>4, Zenon
  <2> QED
    BY <2>1, <2>2, Zenon
<1>2. CASE h.platform # "windows"
  <2> DEFINE places == {cpu} \cap h.pinnable \cap (0 .. Nameable(h) - 1)
  <2>1. CASE places = {}
    BY <1>2, <2>1, Zenon DEF Pinned
  <2>2. CASE places # {}
    <3>1. places = {cpu} /\ cpu \in h.pinnable
      BY <2>2, Zenon
    <3>2. Pinned(h, cpu) = places
      BY <1>2, <2>2, Zenon DEF Pinned
    <3>3. Cardinality({cpu}) = 1
      BY FS_Singleton, Zenon
    <3> QED
      BY <3>1, <3>2, <3>3, Zenon
  <2> QED
    BY <2>1, <2>2, Zenon
<1> QED
  BY <1>1, <1>2, Zenon

\* The number jent_cpu_highest() gives on Linux is that of the last CPU of the
\* affinity, and pinning reaches it.
LEMMA LinuxTop ==
  ASSUME NEW h, Consistent(h), h.platform = "linux", h.width <= Nameable(h), ~h.denied
  PROVE  /\ CpuHighest(h) >= 0
         /\ Pinned(h, CpuHighest(h)) = {Max(Inherited(h))}
<1> DEFINE top == Max(h.affinity)
<1>1. h.width \in Nat /\ h.affinity # {}
      /\ h.affinity \subseteq h.pinnable /\ h.affinity \subseteq 0 .. h.width - 1
  BY Zenon DEF Consistent
<1>2. Nameable(h) \in Nat /\ Nameable(h) \in Allocated(h)
  BY PlacementAssumption DEF Nameable, Allocated
<1>3. top \in h.affinity
  BY <1>1, LastCpu, Zenon
<1>4. top \in 0 .. Nameable(h) - 1 /\ top \in h.pinnable /\ top >= 0
  BY <1>1, <1>2, <1>3
<1>5. ~ (\A size \in Allocated(h) : size < h.width)
  <2>1. ~ (Nameable(h) < h.width)
    BY <1>1, <1>2
  <2> QED
    BY <1>2, <2>1, Zenon
<1>6. Mask(h).highest = top
  BY <1>1, <1>5 DEF Mask, AffinityMask
<1>7. CpuHighest(h) = top
  BY <1>4, <1>6, Zenon DEF CpuHighest
<1>8. Inherited(h) = h.affinity
  BY Zenon DEF Inherited
<1>9. Pinned(h, top) = {top}
  <2>1. {top} \cap h.pinnable \cap (0 .. Nameable(h) - 1) = {top}
    BY <1>4, Zenon
  <2> QED
    BY <2>1, Zenon DEF Pinned
<1> QED
  BY <1>4, <1>7, <1>8, <1>9, Zenon

\* Where no affinity can be read it is the CPU count minus one.
LEMMA OtherTop ==
  ASSUME NEW h, h.platform = "other", h.sysconf \in Int, h.sysconf > 0
  PROVE  CpuHighest(h) = h.sysconf - 1 /\ CpuHighest(h) >= 0
<1>1. Mask(h).highest = -1 /\ Mask(h).count = 0
  BY DEF Mask, NoMask, Error
<1>2. Ncpu(h) = h.sysconf
  BY <1>1 DEF Ncpu
<1> QED
  BY <1>1, <1>2 DEF CpuHighest, Error

\* On Windows it is the flat number of the last CPU of the affinity, and
\* jent_cpu_to_group() finds that one from it.
LEMMA WindowsTop ==
  ASSUME NEW h, Consistent(h), h.platform = "windows", ~h.denied
  PROVE  /\ CpuHighest(h) >= 0
         /\ Pinned(h, CpuHighest(h)) = {<<h.group, Max(h.affinity)>>}
<1> DEFINE S == h.groups[h.group]
           top == Max(h.affinity)
           rank == Rank(S, top)
           base == Base(h, h.group)
           p == <<h.group, top>>
<1>1. /\ h.width \in Nat /\ h.affinity # {} /\ h.affinity \subseteq S
      /\ S \subseteq 0 .. h.width - 1
      /\ h.group \in 1 .. Len(h.groups) /\ Len(h.groups) \in Nat
  BY Zenon DEF Consistent
<1>2. top \in h.affinity /\ top \in S
  BY <1>1, LastCpu, Zenon
<1>3. rank \in Nat /\ base \in Nat
  <2>1. base \in Nat
    BY BaseNat, Zenon
  <2> HIDE DEF S, top
  <2>2. rank \in Nat
    BY <1>1, <1>2, PositionsDiffer, Zenon
  <2> QED
    BY <2>1, <2>2, Zenon
<1>4. Mask(h).highest = base + rank
  <2>1. h.affinity \cap S = h.affinity
    BY <1>1, Zenon
  <2>2. ~ (h.group > Len(h.groups))
    BY <1>1
  <2>3. Mask(h) = ThreadAffinity(h)
    BY DEF Mask
  <2>4. ThreadAffinity(h).highest = base + Position(h, h.group, top)
    BY <1>1, <2>1, <2>2 DEF ThreadAffinity
  <2> QED
    BY <2>3, <2>4, Zenon DEF Position, Rank
<1> HIDE DEF rank, base
<1>5. base + rank >= 0 /\ (base + rank) - base = rank
  BY <1>3
<1>6. CpuHighest(h) = base + rank
  BY <1>4, <1>5, Zenon DEF CpuHighest
<1>7. p \in CpuToGroup(h, base + rank) \cap Inherited(h)
  <2>1. p \in Inherited(h)
    BY <1>2, Zenon DEF Inherited
  <2>2. p \in Active(h)
    <3>1. p \in {h.group} \X S
      BY <1>2
    <3> QED
      BY <1>1, <3>1, Zenon DEF Active
  <2>3. (base + rank) - Base(h, p[1]) = Cardinality({x \in h.groups[p[1]] : x < p[2]})
    BY <1>5, Zenon DEF rank, base, Rank
  <2> QED
    BY <2>1, <2>2, <2>3, Zenon DEF CpuToGroup
<1> HIDE DEF p
<1>8. CpuToGroup(h, base + rank) \cap Inherited(h) = {p}
  BY <1>7, WindowsPlaces, Zenon
<1>9. Pinned(h, base + rank) = {p}
  BY <1>8, Zenon DEF Pinned
<1> QED
  BY <1>5, <1>6, <1>9, Zenon DEF p

\* A thread is placed on the host it was started on, by the context of its
\* collector.
PlacementInv ==
  /\ \A t \in CountingThread : thread[t] \in {"new", "placed"} => host \in Host
  /\ \A t \in CountingThread : thread[t] = "placed" => runs_on = PlacedOn(host, ctx)

\* Of the steps only those of a starting thread have to do with it; a context
\* is made and freed when there is no thread.
LEMMA PlacementNext == NotimeInv /\ PlacementInv /\ [Next]_vars => PlacementInv'
<1> SUFFICES ASSUME NotimeInv, PlacementInv, [Next]_vars PROVE PlacementInv'
  BY Zenon
<1>1. ThreadInv /\ HandlerInv
      /\ DOMAIN thread = CountingThread
  BY Zenon DEF NotimeInv, NotimeTypes
<1>2. CASE /\ UNCHANGED <<host, runs_on, ctx>>
           /\ \A u \in CountingThread : thread'[u] = thread[u]
                                        \/ thread'[u] \notin {"new", "placed"}
  BY <1>2, Zenon DEF PlacementInv
<1>3. CASE \A u \in CountingThread : thread'[u] \notin {"new", "placed"}
  BY <1>3, Zenon DEF PlacementInv
<1>4. ASSUME NEW t \in CountingThread, PinThread(t) PROVE PlacementInv'
  <2>1. /\ thread[t] = "new" /\ thread' = [thread EXCEPT ![t] = "placed"]
        /\ UNCHANGED <<host, ctx>>
    BY <1>4, Zenon DEF PinThread, handler
  <2>2. runs_on' = PlacedOn(host, ctx)
    BY <1>1, <1>4, Zenon DEF PinThread, PlacedOn, HandlerInv
  <2>3. \A u \in CountingThread : u # t => thread'[u] = thread[u] /\ thread[u] # "placed"
                                           /\ thread[u] # "new"
    BY <1>1, <2>1, Zenon DEF ThreadInv, Alive
  <2> QED
    BY <2>1, <2>2, <2>3, Zenon DEF PlacementInv
<1>5. ASSUME NEW t \in CountingThread, ZeroHigh(t) PROVE PlacementInv'
  <2>1. /\ thread[t] = "placed" /\ thread' = [thread EXCEPT ![t] = "zeroing"]
    BY <1>5, Zenon DEF ZeroHigh
  <2>2. \A u \in CountingThread : u # t => thread'[u] = thread[u] /\ thread[u] # "placed"
                                           /\ thread[u] # "new"
    BY <1>1, <2>1, Zenon DEF ThreadInv, Alive
  <2> QED
    BY <1>1, <1>3, <2>1, <2>2, Zenon
<1>6. ASSUME NEW t \in CountingThread,
             ZeroLow(t) \/ StoreHigh(t) \/ StoreLow(t) \/ Interrupted(t)
      PROVE  PlacementInv'
  <2>1. UNCHANGED <<host, runs_on, ctx>>
    BY <1>6, Zenon DEF ZeroLow, StoreHigh, StoreLow, Interrupted, handler, placement
  <2>2. \E s \in {"counting", "storing", "done"} : thread' = [thread EXCEPT ![t] = s]
    BY <1>6, Zenon DEF ZeroLow, StoreHigh, StoreLow, Interrupted, Leaves
  <2> QED
    BY <1>1, <1>2, <2>1, <2>2, Zenon
<1>7. ASSUME NEW t \in CountingThread, Settick(t) PROVE PlacementInv'
  <2>1. \A u \in CountingThread : thread[u] = "none"
    BY <1>1, <1>7, Zenon DEF Settick, ThreadInv
  <2>2. CASE UNCHANGED thread
    BY <1>3, <2>1, <2>2, Zenon
  <2>3. CASE thread' = [thread EXCEPT ![t] = "new"] /\ host' \in Host
    BY <1>1, <2>1, <2>3, Zenon DEF PlacementInv
  <2> QED
    BY <1>7, <2>2, <2>3, Zenon DEF Settick, Created
<1>8. CASE Join
  <2>1. /\ thread' = [u \in CountingThread |-> IF thread[u] = "done" THEN "none" ELSE thread[u]]
        /\ UNCHANGED <<host, runs_on, ctx>>
    BY <1>8, Zenon DEF Join, handler, placement
  <2> QED
    BY <1>2, <2>1, Zenon
<1>9. CASE (\E h \in Host : EnableThread(h)) \/ Disable
  <2>1. UNCHANGED thread /\ pc \in {"idle", "stopped"}
    BY <1>9, Zenon DEF EnableThread, Disable, counting
  <2> QED
    BY <1>1, <1>3, <2>1, Zenon DEF ThreadInv
<1>10. CASE \/ GetTime \/ (\E w \in {"hi", "lo"} : LoadWord(w)) \/ Judge \/ Unsettick
            \/ (\E cpu \in Cpu : SetCpu(cpu))
            \/ (\E new_thread \in {"builtin", "external"} : Switch(new_thread))
            \/ BlockSwitch \/ UNCHANGED vars
  <2>1. UNCHANGED <<host, runs_on, ctx, thread>>
    BY <1>10, Zenon DEF GetTime, LoadWord, Judge, Unsettick, SetCpu, Switch,
       BlockSwitch, vars, handler, placement, counting
  <2> QED
    BY <1>2, <2>1, Zenon
<1> QED
  BY <1>4, <1>5, <1>6, <1>7, <1>8, <1>9, <1>10, Zenon DEF Next, Count

\* For all hosts and CPU numbers, a counting thread ends up on the CPU its
\* context and the affinity of its starter determine, through jent_cpu_highest()
\* and jent_thread_pin_to_cpu(), and one that is refused where its starter may
\* run.  The default is determined where the affinity can be read, on Linux with
\* memory for a set of the width of the kernel's mask.
THEOREM ThreadPlaced == Spec => []PlacedOnItsCpu
<1>1. Init => PlacementInv
  BY Zenon DEF Init, PlacementInv
<1>2. ASSUME HandlerInv, PlacementInv PROVE PlacedOnItsCpu
  <2> DEFINE allowed == Inherited(host)
             builtin == ctx # NoCtx /\ ctx.of = "builtin"
             default == builtin /\ ctx.cpu = CpuDefault
             chosen  == builtin /\ ctx.cpu # CpuDefault
             can(c) == c \in host.pinnable /\ c < Nameable(host)
             at == {p \in allowed : FlatNumber(host, p) = ctx.cpu}
  <2>1. SUFFICES ASSUME NEW t \in CountingThread, thread[t] = "placed"
        PROVE  /\ ~builtin => runs_on = allowed
               /\ host.platform = "linux" /\ ~host.denied /\ host.width <= Nameable(host) =>
                    (default => runs_on = {Max(allowed)})
               /\ host.platform = "windows" /\ ~host.denied =>
                    /\ default => runs_on = {<<host.group, Max(host.affinity)>>}
                    /\ chosen => runs_on = IF at = {} THEN allowed ELSE at
               /\ host.platform = "other" /\ host.sysconf > 0 =>
                    (default /\ can(host.sysconf - 1) => runs_on = {host.sysconf - 1})
               /\ host.platform # "windows" =>
                    (chosen /\ ctx.cpu \in allowed /\ can(ctx.cpu) => runs_on = {ctx.cpu})
               /\ \/ runs_on = allowed
                  \/ Cardinality(runs_on) = 1 /\ runs_on \subseteq allowed \cup host.pinnable
    BY Zenon DEF PlacedOnItsCpu
  <2>2. Consistent(host)
    BY <1>2, <2>1, NotimeAssumption, Zenon DEF PlacementInv
  <2>3. /\ ~builtin => runs_on = allowed
        /\ default /\ CpuHighest(host) >= 0 => runs_on = Pinned(host, CpuHighest(host))
        /\ chosen /\ ctx.cpu >= 0 => runs_on = Pinned(host, ctx.cpu)
        /\ runs_on = allowed \/ \E c : runs_on = Pinned(host, c)
    BY <1>2, <2>1, Zenon DEF PlacementInv, PlacedOn
  <2>4. chosen => ctx.cpu \in Nat /\ ctx.cpu >= 0
    <3>1. chosen => ctx.cpu \in Nat
      BY <1>2, NotimeAssumption, Zenon DEF HandlerInv
    <3>2. \A c \in Nat : c >= 0
      OBVIOUS
    <3> QED
      BY <3>1, <3>2, Zenon
  <2>5. ASSUME NEW c \in Nat, can(c), host.platform # "windows"
        PROVE  Pinned(host, c) = {c}
    <3>1. c \in 0 .. Nameable(host) - 1
      BY <2>5, PlacementAssumption DEF Nameable
    <3>2. {c} \cap host.pinnable \cap (0 .. Nameable(host) - 1) = {c}
      BY <2>5, <3>1, Zenon
    <3> QED
      BY <2>5, <3>2, Zenon DEF Pinned
  <2> HIDE DEF builtin
  <2>6. ASSUME host.platform = "windows", ~host.denied, chosen
        PROVE  runs_on = IF at = {} THEN allowed ELSE at
    <3>1. CpuToGroup(host, ctx.cpu) \cap allowed = at
      BY <2>2, <2>4, <2>6, PlacesByNumber, Zenon
    <3> QED
      BY <2>3, <2>4, <2>6, <3>1, Zenon DEF Pinned
  <2>7. ASSUME host.platform = "other", host.sysconf > 0, default, can(host.sysconf - 1)
        PROVE  runs_on = {host.sysconf - 1}
    <3>1. host.sysconf \in Int /\ host.sysconf - 1 \in Nat
      BY <2>2, <2>7 DEF Consistent
    <3>2. host.platform # "windows"
      BY <2>7
    <3> QED
      BY <2>3, <2>5, <2>7, <3>1, <3>2, OtherTop, Zenon
  <2>8. \/ runs_on = allowed
        \/ Cardinality(runs_on) = 1 /\ runs_on \subseteq allowed \cup host.pinnable
    <3>1. CASE runs_on = allowed
      BY <3>1, Zenon
    <3>2. ASSUME NEW c, runs_on = Pinned(host, c)
          PROVE  \/ runs_on = allowed
                 \/ Cardinality(runs_on) = 1 /\ runs_on \subseteq allowed \cup host.pinnable
      BY <2>2, <3>2, PinnedToOne, Zenon
    <3> QED
      BY <2>3, <3>1, <3>2, Zenon
  <2>9. host.platform = "linux" /\ ~host.denied /\ host.width <= Nameable(host) =>
          (default => runs_on = {Max(allowed)})
    BY <2>2, <2>3, LinuxTop, Zenon
  <2>10. host.platform = "windows" /\ ~host.denied =>
           (default => runs_on = {<<host.group, Max(host.affinity)>>})
    BY <2>2, <2>3, WindowsTop, Zenon
  <2>11. host.platform # "windows" =>
           (chosen /\ ctx.cpu \in allowed /\ can(ctx.cpu) => runs_on = {ctx.cpu})
    BY <2>3, <2>4, <2>5, Zenon
  <2> QED
    BY <2>3, <2>6, <2>7, <2>8, <2>9, <2>10, <2>11, Zenon
<1>3. NotimeInv => HandlerInv
  BY Zenon DEF NotimeInv
<1> QED
  BY <1>1, <1>2, <1>3, NotimeInvariant, PlacementNext, PTL DEF Spec
=============================================================================
