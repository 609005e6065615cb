-------------------------- MODULE CollectorProofs --------------------------
(***************************************************************************)
(* Proofs about modules Collector and RandomData: no collector is lost on  *)
(* any path, an instance keeps what EntropyService promises its caller,    *)
(* and the recovery loop of the RCT with memory covers a block, for every  *)
(* rate, cutoff and number of recovery calls.                              *)
(***************************************************************************)
EXTENDS Collector, RandomData, TLAPS


-----------------------------------------------------------------------------
(* The inductive invariant *)

InRead == {"read", "check", "generate", "done", "error"}

InReset == {"reset", "replace", "settick", "startup"}

\* The caller's collector and the one in its startup are the heap.
HeapExact ==
  /\ ecs \in [Address -> Ec \cup {NoEc}]
  /\ ec \in Address \cup {Null}
  /\ new_ec \in Address \cup {Null}
  /\ new_ec # Null => new_ec # ec
  /\ \A a \in Address : IF a = ec \/ a = new_ec THEN ecs[a] \in Ec
                                                ELSE ecs[a] = NoEc

\* Which collectors a call has, by where it is.
CallShape ==
  /\ pc \in {"idle"} \cup InRead \cup InReset
  /\ pc = "idle" => new_ec = Null
  /\ pc \in InRead => /\ op \in {"read", "safe"}
                      /\ ec # Null
                      /\ new_ec = Null
  /\ pc \in InReset => /\ op \in {"alloc", "safe"}
                       /\ op = "alloc" <=> ec = Null
                       /\ new_ec = Null => ec # Null
  /\ pc \in {"settick", "startup"} => new_ec # Null

\* What the buffer of a call holds, by where it is.
BufferShape ==
  /\ want \in Nat
  /\ copied \in Nat
  /\ pc \in {"read"} \cup InReset => copied = 0
  /\ pc \in InRead => want > 0
  /\ pc \in {"check", "generate"} => copied < want
  /\ pc = "done" => copied = want
  /\ pc \in InReset /\ op = "safe" => want > 0

RateShape ==
  /\ osr \in MinOsr .. MaxOsr + 1
  /\ pc = "replace" => osr <= MaxOsr

\* The collector in its startup has the accounting of the instance.
AccountCarried ==
  new_ec # Null =>
    /\ ecs[new_ec].read_invocations =
         IF ec = Null THEN 0 ELSE ecs[ec].read_invocations
    /\ ecs[new_ec].bytes_output =
         IF ec = Null THEN 0 ELSE ecs[ec].bytes_output

CollectorInv ==
  HeapExact /\ CallShape /\ BufferShape /\ RateShape /\ AccountCarried

-----------------------------------------------------------------------------
(* Operations on a collector *)

\* A collector is no freed memory, and its members have their types.
LEMMA EcMembers ==
  ASSUME NEW e \in Ec
  PROVE  /\ e.osr \in MinOsr .. MaxOsr
         /\ e.osr # 0
         /\ e.osr + 1 \in MinOsr .. MaxOsr + 1
         /\ e.health_failure \in Failure
         /\ e.read_invocations \in Nat
         /\ e.bytes_output \in Nat
  BY CollectorAssumption DEF Ec

\* jent_notime_settick() keeps the accounting.
LEMMA TickingKeeps ==
  ASSUME NEW e \in Ec
  PROVE  /\ Ticking(e) \in Ec
         /\ Ticking(e).read_invocations = e.read_invocations
         /\ Ticking(e).bytes_output = e.bytes_output
  BY Zenon DEF Ec, Ticking

\* So does jent_notime_unsettick().
LEMMA NotTickingKeeps ==
  ASSUME NEW e \in Ec
  PROVE  /\ NotTicking(e) \in Ec
         /\ NotTicking(e).read_invocations = e.read_invocations
         /\ NotTicking(e).bytes_output = e.bytes_output
  BY Zenon DEF Ec, NotTicking

\* So does a failure of the health tests.
LEMMA WithFailureKeeps ==
  ASSUME NEW e \in Ec, NEW f \in Failure
  PROVE  /\ WithFailure(e, f) \in Ec
         /\ WithFailure(e, f).read_invocations = e.read_invocations
         /\ WithFailure(e, f).bytes_output = e.bytes_output
  BY Zenon DEF Ec, WithFailure, Failure

\* So does a verdict of jent_selftest().
LEMMA SelftestKeeps ==
  ASSUME NEW e \in Ec, NEW failed \in {0, 1}
  PROVE  /\ [e EXCEPT !.selftest_failed = failed] \in Ec
         /\ [e EXCEPT !.selftest_failed = failed].read_invocations
              = e.read_invocations
         /\ [e EXCEPT !.selftest_failed = failed].bytes_output
              = e.bytes_output
  BY Zenon DEF Ec

\* So does the identifier of an allocation.
LEMMA IdentifierKeeps ==
  ASSUME NEW e \in Ec
  PROVE  /\ [NotTicking(e) EXCEPT !.uuid = 1] \in Ec
         /\ [NotTicking(e) EXCEPT !.uuid = 1].read_invocations
              = e.read_invocations
         /\ [NotTicking(e) EXCEPT !.uuid = 1].bytes_output = e.bytes_output
  BY Zenon DEF Ec, NotTicking

\* A request that is fulfilled is accounted once.
LEMMA AccountedCounts ==
  ASSUME NEW e \in Ec, NEW n \in Nat
  PROVE  /\ Accounted(e, n) \in Ec
         /\ Accounted(e, n).read_invocations = e.read_invocations + 1
         /\ Accounted(e, n).bytes_output = e.bytes_output + n
<1>. DEFINE t == NotTicking(e)
<1>1. /\ t \in Ec
      /\ t.read_invocations = e.read_invocations
      /\ t.bytes_output = e.bytes_output
  BY NotTickingKeeps, Zenon
<1>2. Accounted(e, n) = [t EXCEPT !.read_invocations = t.read_invocations + 1,
                                  !.bytes_output = t.bytes_output + n]
  BY Zenon DEF Accounted
<1>3. /\ t.read_invocations + 1 \in Nat
      /\ t.bytes_output + n \in Nat
  BY <1>1 DEF Ec
<1>. HIDE DEF t
<1>. QED
  BY <1>1, <1>2, <1>3, Zenon DEF Ec

\* A new instance has fulfilled nothing.
LEMMA FreshIsEc ==
  ASSUME NEW rate \in MinOsr .. MaxOsr, NEW clock \in Clock, NEW cap \in {0, 1}
  PROVE  /\ Fresh(rate, clock, cap) \in Ec
         /\ Fresh(rate, clock, cap).read_invocations = 0
         /\ Fresh(rate, clock, cap).bytes_output = 0
  BY CollectorAssumption DEF Ec, Fresh, Failure

\* A replacement goes on with the accounting of the collector it replaces.
LEMMA ReplacementCarries ==
  ASSUME NEW e \in Ec, NEW rate \in MinOsr .. MaxOsr
  PROVE  /\ Replacement(e, rate) \in Ec
         /\ Replacement(e, rate).read_invocations = e.read_invocations
         /\ Replacement(e, rate).bytes_output = e.bytes_output
<1>1. Grown(e) \in 0 .. MaxMem
  BY CollectorAssumption DEF Ec, Grown
<1>2. e.reinit_count + 1 \in Nat
  BY DEF Ec
<1>. QED
  BY <1>1, <1>2, Zenon DEF Ec, Replacement, Carried, Fresh, Failure

-----------------------------------------------------------------------------
(* The heap *)

\* Two of the three addresses are in use at most.
LEMMA SpareAddress ==
  ASSUME HeapExact
  PROVE  /\ Unused \in Address
         /\ Unused # ec
         /\ Unused # new_ec
<1>1. \A a \in Address : a = ec \/ a = new_ec => ecs[a].osr # 0
  BY EcMembers, Zenon DEF HeapExact
<1>2. \E a \in Address : a # ec /\ a # new_ec
  BY DEF Address
<1>3. \E a \in Address : ecs[a].osr = 0
  BY <1>2 DEF HeapExact, NoEc
<1>4. Unused \in Address /\ ecs[Unused].osr = 0
  BY <1>3, Zenon DEF Unused
<1>. QED
  BY <1>1, <1>4, Zenon

\* A step that changes members of a collector.
LEMMA OneUpdated ==
  ASSUME HeapExact, NEW a \in Address, a = ec \/ a = new_ec, NEW e \in Ec,
         ecs' = [ecs EXCEPT ![a] = e], ec' = ec, new_ec' = new_ec
  PROVE  /\ HeapExact'
         /\ ecs'[a] = e
         /\ \A b \in Address \ {a} : ecs'[b] = ecs[b]
  BY Zenon DEF HeapExact

\* A step that leaves the heap alone.
LEMMA HeapUnchanged ==
  ASSUME HeapExact, ecs' = ecs, ec' = ec, new_ec' = new_ec
  PROVE  HeapExact'
  BY Zenon DEF HeapExact

\* The call ends without a replacement.
LEMMA GivenUp ==
  ASSUME HeapExact, GiveUp, ec' = ec
  PROVE  /\ HeapExact'
         /\ ec # Null => ecs'[ec] = ecs[ec]
  BY DEF HeapExact, GiveUp, Null, Address

-----------------------------------------------------------------------------
(* The invariant is inductive *)

\* It holds before the first call.
LEMMA CollectorInitially == Init => CollectorInv
  BY CollectorAssumption
     DEF Init, CollectorInv, HeapExact, CallShape, BufferShape, RateShape,
         AccountCarried, InRead, InReset, Null, Address

\* Every step of the instance preserves it.
LEMMA CollectorPreserved == CollectorInv /\ [Next]_vars => CollectorInv'
<1>. SUFFICES ASSUME CollectorInv, [Next]_vars
              PROVE  CollectorInv'
  BY Zenon
<1>. USE DEF CollectorInv
<1>c. ec # Null => ec \in Address /\ ecs[ec] \in Ec
  BY Zenon DEF HeapExact
<1>n. new_ec # Null => new_ec \in Address /\ ecs[new_ec] \in Ec /\ new_ec # ec
  BY Zenon DEF HeapExact
<1>1. ASSUME NEW rate \in MinOsr .. MaxOsr, NEW clock \in Clock,
             NEW cap \in {0, 1}, AllocBegin(rate, clock, cap)
      PROVE  CollectorInv'
  <2>. DEFINE e == Fresh(rate, clock, cap)
  <2>1. e \in Ec /\ e.read_invocations = 0 /\ e.bytes_output = 0
    BY FreshIsEc, Zenon
  <2>2. Unused \in Address /\ Unused # ec /\ Unused # new_ec
    BY SpareAddress, Zenon
  <2>3. /\ ecs' = [ecs EXCEPT ![Unused] = e]
        /\ new_ec' = Unused /\ ec' = ec /\ ec = Null /\ new_ec = Null
    BY <1>1, Zenon DEF AllocBegin, CallShape
  <2>. HIDE DEF e
  <2>4. HeapExact' /\ ecs'[new_ec'] = e
    BY <2>1, <2>2, <2>3, Zenon DEF HeapExact, Null, Address
  <2>. QED
    BY <1>1, <2>1, <2>2, <2>3, <2>4, Zenon DEF AllocBegin, CallShape,
       BufferShape, RateShape, AccountCarried, InRead, InReset, Null, Address
<1>2. CASE AllocRefused
  BY <1>2, HeapUnchanged, Zenon DEF AllocRefused, CallShape, BufferShape,
     RateShape, AccountCarried, InRead, InReset
<1>3. ASSUME NEW call \in {"read", "safe"}, NEW n \in 1 .. MaxBlocks,
             ReadBegin(call, n)
      PROVE  CollectorInv'
  BY <1>3, HeapUnchanged, CollectorAssumption DEF ReadBegin, CallShape,
     BufferShape, RateShape, AccountCarried, InRead, InReset
<1>4. CASE ReadState
  BY <1>4, HeapUnchanged, Zenon DEF ReadState, CallShape, BufferShape,
     RateShape, AccountCarried, InRead, InReset
<1>5. CASE Free
  <2>1. HeapExact'
    BY <1>5, Zenon DEF Free, HeapExact, CallShape, Null, Address
  <2>. QED
    BY <1>5, <2>1, Zenon DEF Free, CallShape, BufferShape, RateShape,
       AccountCarried, InRead, InReset
<1>6. ASSUME NEW fails \in BOOLEAN, ReadSettick(fails)
      PROVE  CollectorInv'
  <2>1. CASE UNCHANGED ecs /\ pc' = "idle"
    BY <1>6, <2>1, HeapUnchanged, Zenon DEF ReadSettick, CallShape,
       BufferShape, RateShape, AccountCarried, InRead, InReset
  <2>2. CASE ecs' = [ecs EXCEPT ![ec] = Ticking(ecs[ec])] /\ pc' = "check"
    <3>1. ec # Null
      BY <1>6, Zenon DEF ReadSettick, CallShape, InRead
    <3>2. Ticking(ecs[ec]) \in Ec
      BY <1>c, <3>1, TickingKeeps, Zenon
    <3>3. HeapExact'
      BY <1>6, <1>c, <2>2, <3>1, <3>2, OneUpdated, Zenon DEF ReadSettick
    <3>. QED
      BY <1>6, <2>2, <3>1, <3>3, Zenon DEF ReadSettick, CallShape, BufferShape,
         RateShape, AccountCarried, InRead, InReset
  <2>. QED
    BY <1>6, <2>1, <2>2, Zenon DEF ReadSettick
<1>7. CASE ReadCheck
  BY <1>7, HeapUnchanged, Zenon DEF ReadCheck, CallShape, BufferShape,
     RateShape, AccountCarried, InRead, InReset
<1>8. ASSUME NEW f \in Failure, ReadGenerate(f)
      PROVE  CollectorInv'
  <2>1. ec # Null /\ new_ec = Null
    BY <1>8, Zenon DEF ReadGenerate, CallShape, InRead
  <2>2. WithFailure(ecs[ec], f) \in Ec
    BY <1>c, <2>1, WithFailureKeeps, Zenon
  <2>3. HeapExact'
    BY <1>8, <1>c, <2>1, <2>2, OneUpdated, Zenon DEF ReadGenerate
  <2>. QED
    BY <1>8, <2>1, <2>3 DEF ReadGenerate, CallShape, BufferShape, RateShape,
       AccountCarried, InRead, InReset
<1>9. CASE ReadDone
  <2>1. ec # Null /\ new_ec = Null
    BY <1>9, Zenon DEF ReadDone, CallShape, InRead
  <2>2. Accounted(ecs[ec], want) \in Ec
    BY <1>c, <2>1, AccountedCounts, Zenon DEF BufferShape
  <2>3. HeapExact'
    BY <1>9, <1>c, <2>1, <2>2, OneUpdated, Zenon DEF ReadDone
  <2>. QED
    BY <1>9, <2>1, <2>3, Zenon DEF ReadDone, CallShape, BufferShape, RateShape,
       AccountCarried, InRead, InReset
<1>10. CASE ReadError
  <2>1. ec # Null /\ new_ec = Null
    BY <1>10, Zenon DEF ReadError, CallShape, InRead
  <2>2. NotTicking(ecs[ec]) \in Ec
    BY <1>c, <2>1, NotTickingKeeps, Zenon
  <2>3. HeapExact'
    BY <1>10, <1>c, <2>1, <2>2, OneUpdated, Zenon DEF ReadError
  <2>4. ecs[ec].osr + 1 \in MinOsr .. MaxOsr + 1
    BY <1>c, <2>1, EcMembers, Zenon
  <2>. QED
    BY <1>10, <2>1, <2>3, <2>4, Zenon DEF ReadError, NextRate, Wiped,
       CallShape, BufferShape, RateShape, AccountCarried, InRead, InReset
<1>11. ASSUME NEW passes \in BOOLEAN, ResetInit(passes)
       PROVE  CollectorInv'
  <2>1. CASE osr > MaxOsr /\ GiveUp
    <3>1. HeapExact'
      BY <1>11, <2>1, GivenUp, Zenon DEF ResetInit
    <3>. QED
      BY <1>11, <2>1, <3>1, Zenon DEF ResetInit, GiveUp, CallShape,
         BufferShape, RateShape, AccountCarried, InRead, InReset
  <2>2. CASE osr <= MaxOsr /\ UNCHANGED <<ecs, new_ec, ret>>
    <3>1. HeapExact'
      BY <1>11, <2>2, HeapUnchanged, Zenon DEF ResetInit
    <3>2. RateShape'
      BY <1>11, <2>2, CollectorAssumption DEF ResetInit, RateShape, GiveUp
    <3>. QED
      BY <1>11, <2>2, <3>1, <3>2, CollectorAssumption, Zenon DEF ResetInit,
         GiveUp, CallShape, BufferShape, RateShape, AccountCarried, InRead,
         InReset
  <2>. QED
    BY <1>11, <2>1, <2>2, Zenon DEF ResetInit
<1>12. CASE ResetReplace
  <2>. DEFINE e == Replacement(ecs[Failing], osr)
  <2>1. Failing \in Address /\ ecs[Failing] \in Ec
    BY <1>12, <1>c, <1>n, Zenon DEF ResetReplace, Failing, CallShape, InReset
  <2>2. osr \in MinOsr .. MaxOsr
    BY <1>12, CollectorAssumption DEF ResetReplace, RateShape
  <2>3. /\ e \in Ec
        /\ e.read_invocations = ecs[Failing].read_invocations
        /\ e.bytes_output = ecs[Failing].bytes_output
    BY <2>1, <2>2, ReplacementCarries, Zenon
  <2>4. Unused \in Address /\ Unused # ec /\ Unused # new_ec
    BY SpareAddress, Zenon
  <2>5. /\ ecs' = [a \in Address |-> IF a = Unused THEN e
                                     ELSE IF a = new_ec THEN NoEc
                                     ELSE ecs[a]]
        /\ new_ec' = Unused /\ ec' = ec
    BY <1>12, Zenon DEF ResetReplace
  <2>. HIDE DEF e
  <2>6. HeapExact' /\ ecs'[new_ec'] = e /\ (ec # Null => ecs'[ec] = ecs[ec])
    BY <1>c, <1>n, <2>3, <2>4, <2>5 DEF HeapExact, Null, Address
  <2>7. new_ec = Null => ec # Null
    BY <1>12, Zenon DEF ResetReplace, CallShape, InReset
  <2>8. AccountCarried'
    BY <2>3, <2>5, <2>6, <2>7, Zenon DEF AccountCarried, Failing
  <2>. QED
    BY <1>12, <2>4, <2>5, <2>6, <2>8
       DEF ResetReplace, CallShape, BufferShape, RateShape, InRead, InReset,
           Null, Address
<1>13. CASE ResetNoMemory
  <2>1. HeapExact'
    BY <1>13, GivenUp, Zenon DEF ResetNoMemory
  <2>. QED
    BY <1>13, <2>1, Zenon DEF ResetNoMemory, GiveUp, CallShape, BufferShape,
       RateShape, AccountCarried, InRead, InReset
<1>14. ASSUME NEW fails \in BOOLEAN, StartupSettick(fails)
       PROVE  CollectorInv'
  <2>1. CASE GiveUp
    <3>1. HeapExact'
      BY <1>14, <2>1, GivenUp, Zenon DEF StartupSettick
    <3>. QED
      BY <1>14, <2>1, <3>1, Zenon DEF StartupSettick, GiveUp, CallShape,
         BufferShape, RateShape, AccountCarried, InRead, InReset
  <2>2. CASE /\ ecs' = [ecs EXCEPT ![new_ec] = Ticking(ecs[new_ec])]
             /\ pc' = "startup"
             /\ UNCHANGED <<new_ec, ret>>
    <3>. DEFINE e == Ticking(ecs[new_ec])
    <3>1. new_ec # Null
      BY <1>14, Zenon DEF StartupSettick, CallShape
    <3>2. /\ e \in Ec
          /\ e.read_invocations = ecs[new_ec].read_invocations
          /\ e.bytes_output = ecs[new_ec].bytes_output
      BY <1>n, <3>1, TickingKeeps, Zenon
    <3>. HIDE DEF e
    <3>3. /\ HeapExact'
          /\ ecs'[new_ec] = e
          /\ \A b \in Address \ {new_ec} : ecs'[b] = ecs[b]
      BY <1>14, <1>n, <2>2, <3>1, <3>2, OneUpdated, Zenon DEF StartupSettick, e
    <3>4. AccountCarried'
      BY <1>14, <1>c, <1>n, <2>2, <3>1, <3>2, <3>3
         DEF StartupSettick, AccountCarried
    <3>. QED
      BY <1>14, <2>2, <3>1, <3>3, <3>4, Zenon DEF StartupSettick, CallShape,
         BufferShape, RateShape, InRead, InReset
  <2>. QED
    BY <1>14, <2>1, <2>2, Zenon DEF StartupSettick
<1>15. ASSUME NEW f \in Failure \ {"none"}, StartupFails(f)
       PROVE  CollectorInv'
  <2>. DEFINE e == WithFailure(ecs[new_ec], f)
  <2>1. new_ec # Null
    BY <1>15, Zenon DEF StartupFails, CallShape
  <2>2. /\ e \in Ec
        /\ e.read_invocations = ecs[new_ec].read_invocations
        /\ e.bytes_output = ecs[new_ec].bytes_output
    BY <1>n, <2>1, WithFailureKeeps, Zenon
  <2>. HIDE DEF e
  <2>3. /\ HeapExact'
        /\ ecs'[new_ec] = e
        /\ \A b \in Address \ {new_ec} : ecs'[b] = ecs[b]
    BY <1>15, <1>n, <2>1, <2>2, OneUpdated, Zenon DEF StartupFails, e
  <2>4. AccountCarried'
    BY <1>15, <1>c, <1>n, <2>1, <2>2, <2>3, Zenon DEF StartupFails,
       AccountCarried
  <2>5. ecs[new_ec].osr + 1 \in MinOsr .. MaxOsr + 1
    BY <1>n, <2>1, EcMembers, Zenon
  <2>. QED
    BY <1>15, <2>1, <2>3, <2>4, <2>5, Zenon DEF StartupFails, NextRate,
       CallShape, BufferShape, RateShape, InRead, InReset
<1>16. CASE StartupOfAlloc
  <2>. DEFINE e == [NotTicking(ecs[new_ec]) EXCEPT !.uuid = 1]
  <2>1. new_ec # Null /\ ec = Null
    BY <1>16, Zenon DEF StartupOfAlloc, CallShape, InReset
  <2>2. e \in Ec
    BY <1>n, <2>1, IdentifierKeeps, Zenon
  <2>3. ecs' = [ecs EXCEPT ![new_ec] = e] /\ ec' = new_ec /\ new_ec' = Null
    BY <1>16, Zenon DEF StartupOfAlloc
  <2>. HIDE DEF e
  <2>4. HeapExact'
    BY <1>n, <2>1, <2>2, <2>3, Zenon DEF HeapExact, Null, Address
  <2>. QED
    BY <1>16, <2>1, <2>3, <2>4, Zenon DEF StartupOfAlloc, CallShape,
       BufferShape, RateShape, AccountCarried, InRead, InReset
<1>17. CASE StartupOfReset
  <2>. DEFINE e == NotTicking(ecs[new_ec])
  <2>1. new_ec # Null /\ ec # Null /\ new_ec # ec
    BY <1>17, <1>n, Zenon DEF StartupOfReset, CallShape, InReset
  <2>2. e \in Ec
    BY <1>n, <2>1, NotTickingKeeps, Zenon
  <2>3. /\ ecs' = [a \in Address |-> IF a = ec THEN NoEc
                                     ELSE IF a = new_ec THEN e
                                     ELSE ecs[a]]
        /\ ec' = new_ec /\ new_ec' = Null
    BY <1>17, Zenon DEF StartupOfReset
  <2>. HIDE DEF e
  <2>4. HeapExact'
    BY <1>n, <2>1, <2>2, <2>3 DEF HeapExact, Null, Address
  <2>. QED
    BY <1>17, <2>1, <2>3, <2>4, Zenon DEF StartupOfReset, CallShape,
       BufferShape, RateShape, AccountCarried, InRead, InReset
<1>18. ASSUME NEW failed \in {0, 1}, Selftest(failed)
       PROVE  CollectorInv'
  <2>. DEFINE e == [ecs[ec] EXCEPT !.selftest_failed = failed]
  <2>1. ec # Null
    BY <1>18, Zenon DEF Selftest
  <2>2. /\ e \in Ec
        /\ e.read_invocations = ecs[ec].read_invocations
        /\ e.bytes_output = ecs[ec].bytes_output
    BY <1>c, <2>1, SelftestKeeps, Zenon
  <2>3. /\ ecs' = [ecs EXCEPT ![ec] = e]
        /\ UNCHANGED <<ec, new_ec, op, pc, want, copied, osr, ret>>
    BY <1>18, <1>c, <2>1, Zenon DEF Selftest
  <2>. HIDE DEF e
  <2>4. /\ HeapExact'
        /\ ecs'[ec] = e
        /\ \A b \in Address \ {ec} : ecs'[b] = ecs[b]
    BY <1>c, <2>1, <2>2, <2>3, OneUpdated, Zenon
  <2>5. AccountCarried'
    BY <1>c, <1>n, <2>1, <2>2, <2>3, <2>4, Zenon DEF AccountCarried
  <2>. QED
    BY <2>3, <2>4, <2>5, Zenon DEF CallShape, BufferShape, RateShape, InRead,
       InReset
<1>19. CASE UNCHANGED vars
  BY <1>19, HeapUnchanged, Zenon DEF vars, CallShape, BufferShape, RateShape,
     AccountCarried, InRead, InReset
<1>. QED
  BY <1>1, <1>2, <1>3, <1>4, <1>5, <1>6, <1>7, <1>8, <1>9, <1>10, <1>11,
     <1>12, <1>13, <1>14, <1>15, <1>16, <1>17, <1>18, <1>19, Zenon
     DEF Next, Request, Work, Reading, Resetting, Starting

\* The invariant holds throughout.
LEMMA CollectorInvariant == Spec => []CollectorInv
  BY CollectorInitially, CollectorPreserved, PTL DEF Spec

-----------------------------------------------------------------------------
(* What a collector keeps of the instance *)

\* Two states of one collector: a call changes none of this.
Same(e, n) ==
  /\ n.uuid = e.uuid /\ n.clock = e.clock
  /\ n.max_mem_set = e.max_mem_set /\ n.mem = e.mem
  /\ n.reinit_count = e.reinit_count /\ n.osr = e.osr

\* A collector and one that was made to replace it, perhaps over several resets.
Succeeds(e, n) ==
  /\ n.uuid = e.uuid /\ n.clock = e.clock
  /\ n.max_mem_set = e.max_mem_set
  /\ e.max_mem_set = 1 => n.mem = e.mem
  /\ n.reinit_count > e.reinit_count
  /\ n.osr - e.osr >= n.reinit_count - e.reinit_count

\* The collector in its startup is the instance's, at a rate that has been
\* raised with every reset.
SuccessorShape ==
  /\ ec # Null /\ new_ec # Null => Succeeds(ecs[ec], ecs[new_ec])
  /\ pc \in {"reset", "replace"} => osr > ecs[Failing].osr

\* What is known of the caller's collector, by where a call is: only an
\* intermittent failure, of an instance in service, leads to a reset.
VerdictShape ==
  /\ pc = "generate" /\ op = "safe" => ecs[ec].selftest_failed = 0
  /\ pc = "done" => ecs[ec].health_failure = "none"
  /\ op = "safe" /\ (pc \in InReset \/ (pc = "error" /\ ret = "intermittent"))
       => /\ ecs[ec].health_failure = "intermittent"
          /\ ecs[ec].selftest_failed = 0

\* Whose counting thread runs, by where a call is.
TickingShape ==
  /\ \A a \in Address : ecs[a].ticking # 0 =>
       \/ pc \in {"check", "generate", "done", "error"} /\ a = ec
       \/ pc \in {"startup", "reset", "replace"} /\ a = new_ec
  /\ pc \in {"check", "generate"} /\ ecs[ec].clock = "notime" =>
       ecs[ec].ticking = 1
  /\ pc = "startup" /\ ecs[new_ec].clock = "notime" =>
       ecs[new_ec].ticking = 1

InstanceInv == SuccessorShape /\ VerdictShape /\ TickingShape

\* What jent_notime_settick() changes of a collector.
LEMMA TickingSame ==
  ASSUME NEW e \in Ec
  PROVE  /\ Same(e, Ticking(e))
         /\ Ticking(e).health_failure = e.health_failure
         /\ Ticking(e).selftest_failed = e.selftest_failed
         /\ Ticking(e).ticking = IF e.clock = "notime" THEN 1 ELSE 0
  BY Zenon DEF Ec, Ticking, Same

\* What jent_notime_unsettick() changes.
LEMMA NotTickingSame ==
  ASSUME NEW e \in Ec
  PROVE  /\ Same(e, NotTicking(e))
         /\ NotTicking(e).health_failure = e.health_failure
         /\ NotTicking(e).selftest_failed = e.selftest_failed
         /\ NotTicking(e).ticking = 0
  BY Zenon DEF Ec, NotTicking, Same

\* What a failure of the health tests changes: the first one stays.
LEMMA WithFailureSame ==
  ASSUME NEW e \in Ec, NEW f \in Failure
  PROVE  /\ Same(e, WithFailure(e, f))
         /\ WithFailure(e, f).selftest_failed = e.selftest_failed
         /\ WithFailure(e, f).ticking = e.ticking
         /\ WithFailure(e, f).health_failure =
              IF e.health_failure = "none" THEN f ELSE e.health_failure
  BY Zenon DEF Ec, WithFailure, Same

\* What the end of a fulfilled request changes.
LEMMA AccountedSame ==
  ASSUME NEW e \in Ec, NEW n \in Nat
  PROVE  /\ Same(e, Accounted(e, n))
         /\ Accounted(e, n).health_failure = e.health_failure
         /\ Accounted(e, n).selftest_failed = e.selftest_failed
         /\ Accounted(e, n).ticking = 0
<1>. DEFINE t == NotTicking(e)
<1>1. /\ t \in Ec /\ Same(e, t) /\ t.ticking = 0
      /\ t.health_failure = e.health_failure
      /\ t.selftest_failed = e.selftest_failed
  BY NotTickingKeeps, NotTickingSame, Zenon
<1>2. Accounted(e, n) = [t EXCEPT !.read_invocations = t.read_invocations + 1,
                                  !.bytes_output = t.bytes_output + n]
  BY Zenon DEF Accounted
<1>. HIDE DEF t
<1>. QED
  BY <1>1, <1>2, Zenon DEF Ec, Same

\* What a verdict of jent_selftest() changes.
LEMMA SelftestSame ==
  ASSUME NEW e \in Ec, NEW failed \in {0, 1}
  PROVE  LET n == [e EXCEPT !.selftest_failed = failed]
         IN  /\ Same(e, n)
             /\ n.health_failure = e.health_failure
             /\ n.selftest_failed = failed
             /\ n.ticking = e.ticking
  BY Zenon DEF Ec, Same

\* A replacement is the instance at a higher rate, and its counting thread is
\* still to be started.
LEMMA ReplacementSucceeds ==
  ASSUME NEW e \in Ec, NEW rate \in MinOsr .. MaxOsr, rate > e.osr
  PROVE  /\ Succeeds(e, Replacement(e, rate))
         /\ Replacement(e, rate).ticking = 0
<1>1. /\ Replacement(e, rate).uuid = e.uuid
      /\ Replacement(e, rate).clock = e.clock
      /\ Replacement(e, rate).max_mem_set = e.max_mem_set
      /\ Replacement(e, rate).mem = Grown(e)
      /\ Replacement(e, rate).reinit_count = e.reinit_count + 1
      /\ Replacement(e, rate).osr = rate
      /\ Replacement(e, rate).ticking = 0
  BY Zenon DEF Replacement, Carried, Fresh
<1>2. e.max_mem_set = 1 => Grown(e) = e.mem
  BY DEF Grown
<1>3. e.osr \in Int /\ rate \in Int /\ e.reinit_count \in Nat
  BY CollectorAssumption DEF Ec
<1>. QED
  BY <1>1, <1>2, <1>3 DEF Succeeds

\* The rate and the count of a collector are numbers.
LEMMA EcNumbers ==
  ASSUME NEW e \in Ec
  PROVE  e.osr \in Int /\ e.reinit_count \in Int
  BY CollectorAssumption DEF Ec

\* A change of either collector that its calls make keeps them in succession.
LEMMA SuccessorsSame ==
  ASSUME NEW e \in Ec, NEW n \in Ec, Succeeds(e, n),
         NEW d \in Ec, NEW m \in Ec, Same(e, d), Same(n, m)
  PROVE  Succeeds(d, m)
  BY Zenon DEF Same, Succeeds

\* The replacement of a replacement is one.
LEMMA SuccessorsCompose ==
  ASSUME NEW e \in Ec, NEW n \in Ec, NEW m \in Ec,
         Succeeds(e, n), Succeeds(n, m)
  PROVE  Succeeds(e, m)
  BY EcNumbers DEF Succeeds

\* It holds before the first call.
LEMMA InstanceInitially == Init => InstanceInv
  BY DEF Init, InstanceInv, SuccessorShape, VerdictShape, TickingShape,
         InReset, NoEc

\* The call ends without a replacement.
LEMMA InstanceGivenUp ==
  ASSUME CollectorInv, InstanceInv, GiveUp, ec' = ec, pc \in InReset
  PROVE  InstanceInv'
<1>1. \A a \in Address : ecs'[a].ticking = 0
  BY Zenon DEF InstanceInv, TickingShape, GiveUp, NoEc, InReset, CollectorInv,
     HeapExact, Ec
<1>. QED
  BY <1>1, Zenon DEF GiveUp, InstanceInv, SuccessorShape, VerdictShape,
     TickingShape, InReset

\* Every step of the instance preserves it.
LEMMA InstancePreserved ==
  CollectorInv /\ InstanceInv /\ [Next]_vars => InstanceInv'
<1>. SUFFICES ASSUME CollectorInv, InstanceInv, [Next]_vars
              PROVE  InstanceInv'
  BY Zenon
<1>. USE DEF CollectorInv, InstanceInv
<1>c. ec # Null => ec \in Address /\ ecs[ec] \in Ec
  BY Zenon DEF HeapExact
<1>n. new_ec # Null => new_ec \in Address /\ ecs[new_ec] \in Ec /\ new_ec # ec
  BY Zenon DEF HeapExact
<1>1. ASSUME NEW rate \in MinOsr .. MaxOsr, NEW clock \in Clock,
             NEW cap \in {0, 1}, AllocBegin(rate, clock, cap)
      PROVE  InstanceInv'
  <2>1. Unused \in Address
    BY SpareAddress, Zenon
  <2>2. \A a \in Address : ecs'[a].ticking = 0
    BY <1>1, <2>1, Zenon DEF AllocBegin, Fresh, TickingShape, HeapExact, Ec,
       NoEc
  <2>. QED
    BY <1>1, <2>2, Zenon DEF AllocBegin, SuccessorShape, VerdictShape,
       TickingShape, InReset
<1>2. CASE AllocRefused
  BY <1>2, Zenon DEF AllocRefused, SuccessorShape, VerdictShape, TickingShape,
     InReset
<1>3. ASSUME NEW call \in {"read", "safe"}, NEW n \in 1 .. MaxBlocks,
             ReadBegin(call, n)
      PROVE  InstanceInv'
  BY <1>3, Zenon DEF ReadBegin, SuccessorShape, VerdictShape, TickingShape,
     InReset
<1>4. CASE ReadState
  BY <1>4, Zenon DEF ReadState, SuccessorShape, VerdictShape, TickingShape,
     InReset
<1>5. CASE Free
  <2>1. \A a \in Address : ecs'[a].ticking = 0
    BY <1>5, Zenon DEF Free, TickingShape, HeapExact, Ec, NoEc
  <2>. QED
    BY <1>5, <2>1, Zenon DEF Free, SuccessorShape, VerdictShape, TickingShape,
       InReset
<1>6. ASSUME NEW fails \in BOOLEAN, ReadSettick(fails)
      PROVE  InstanceInv'
  <2>1. ec # Null /\ new_ec = Null
    BY <1>6, Zenon DEF ReadSettick, CallShape, InRead
  <2>2. CASE UNCHANGED ecs /\ pc' = "idle"
    BY <1>6, <2>2, Zenon DEF ReadSettick, SuccessorShape, VerdictShape,
       TickingShape, InReset
  <2>3. CASE ecs' = [ecs EXCEPT ![ec] = Ticking(ecs[ec])] /\ pc' = "check"
    <3>. DEFINE e == Ticking(ecs[ec])
    <3>1. /\ e \in Ec /\ Same(ecs[ec], e)
          /\ e.ticking = IF ecs[ec].clock = "notime" THEN 1 ELSE 0
      BY <1>c, <2>1, TickingKeeps, TickingSame, Zenon
    <3>. HIDE DEF e
    <3>2. ecs'[ec] = e /\ \A b \in Address \ {ec} : ecs'[b] = ecs[b]
      BY <1>6, <1>c, <2>1, <2>3, <3>1, OneUpdated, Zenon DEF ReadSettick, e
    <3>. QED
      BY <1>6, <1>c, <2>1, <2>3, <3>1, <3>2
         DEF ReadSettick, SuccessorShape, VerdictShape, TickingShape, InReset,
             Same
  <2>. QED
    BY <1>6, <2>2, <2>3, Zenon DEF ReadSettick
<1>7. CASE ReadCheck
  <2>1. ec # Null /\ new_ec = Null /\ ecs[ec].selftest_failed \in {0, 1}
    BY <1>7, <1>c, Zenon DEF ReadCheck, CallShape, InRead, Ec
  <2>. QED
    BY <1>7, <2>1, Zenon DEF ReadCheck, OutOfService, SuccessorShape,
       VerdictShape, TickingShape, InReset
<1>8. ASSUME NEW f \in Failure, ReadGenerate(f)
      PROVE  InstanceInv'
  <2>. DEFINE e == WithFailure(ecs[ec], f)
  <2>1. ec # Null /\ new_ec = Null
    BY <1>8, Zenon DEF ReadGenerate, CallShape, InRead
  <2>2. /\ e \in Ec /\ Same(ecs[ec], e)
        /\ e.selftest_failed = ecs[ec].selftest_failed
        /\ e.ticking = ecs[ec].ticking
    BY <1>c, <2>1, WithFailureKeeps, WithFailureSame, Zenon
  <2>3. /\ pc = "generate" /\ ecs' = [ecs EXCEPT ![ec] = e]
        /\ UNCHANGED <<ec, new_ec, op>>
        /\ \/ pc' = "error" /\ ret' = e.health_failure
           \/ pc' \in {"check", "done"} /\ e.health_failure = "none"
    BY <1>8, Zenon DEF ReadGenerate
  <2>. HIDE DEF e
  <2>4. ecs'[ec] = e /\ \A b \in Address \ {ec} : ecs'[b] = ecs[b]
    BY <1>c, <2>1, <2>2, <2>3, OneUpdated, Zenon
  <2>. QED
    BY <1>c, <2>1, <2>2, <2>3, <2>4
       DEF SuccessorShape, VerdictShape, TickingShape, InReset, Same
<1>9. CASE ReadDone
  <2>. DEFINE e == Accounted(ecs[ec], want)
  <2>1. ec # Null /\ new_ec = Null
    BY <1>9, Zenon DEF ReadDone, CallShape, InRead
  <2>2. e \in Ec /\ e.ticking = 0
    BY <1>c, <2>1, AccountedCounts, AccountedSame, Zenon DEF BufferShape
  <2>3. /\ pc' = "idle" /\ pc = "done" /\ ecs' = [ecs EXCEPT ![ec] = e]
        /\ UNCHANGED <<ec, new_ec, op>>
    BY <1>9, Zenon DEF ReadDone
  <2>. HIDE DEF e
  <2>4. ecs'[ec] = e /\ \A b \in Address \ {ec} : ecs'[b] = ecs[b]
    BY <1>c, <2>1, <2>2, <2>3, OneUpdated, Zenon
  <2>. QED
    BY <1>c, <2>1, <2>2, <2>3, <2>4, Zenon DEF SuccessorShape, VerdictShape,
       TickingShape, InReset
<1>10. CASE ReadError
  <2>. DEFINE e == NotTicking(ecs[ec])
  <2>1. ec # Null /\ new_ec = Null
    BY <1>10, Zenon DEF ReadError, CallShape, InRead
  <2>2. /\ e \in Ec /\ Same(ecs[ec], e) /\ e.ticking = 0
        /\ e.health_failure = ecs[ec].health_failure
        /\ e.selftest_failed = ecs[ec].selftest_failed
    BY <1>c, <2>1, NotTickingKeeps, NotTickingSame, Zenon
  <2>3. /\ pc = "error" /\ ecs' = [ecs EXCEPT ![ec] = e]
        /\ UNCHANGED <<ec, new_ec, op, ret>>
        /\ \/ pc' = "idle"
           \/ /\ pc' = "reset" /\ op = "safe" /\ ret = "intermittent"
              /\ osr' = ecs[ec].osr + 1
    BY <1>10, Zenon DEF ReadError, NextRate, ResetOn
  <2>. HIDE DEF e
  <2>4. ecs'[ec] = e /\ \A b \in Address \ {ec} : ecs'[b] = ecs[b]
    BY <1>c, <2>1, <2>2, <2>3, OneUpdated, Zenon
  <2>5. ecs[ec].osr + 1 > ecs[ec].osr
    BY <1>c, <2>1, EcNumbers
  <2>. QED
    BY <1>c, <2>1, <2>2, <2>3, <2>4, <2>5
       DEF SuccessorShape, VerdictShape, TickingShape, InReset, Failing, Same
<1>11. ASSUME NEW passes \in BOOLEAN, ResetInit(passes)
       PROVE  InstanceInv'
  <2>1. CASE GiveUp
    BY <1>11, <2>1, InstanceGivenUp, Zenon DEF ResetInit, InReset
  <2>2. CASE /\ UNCHANGED <<ecs, new_ec, ret>> /\ osr' \in {osr, osr + 1}
             /\ pc' \in {"reset", "replace"}
    <3>1. Failing \in Address /\ ecs[Failing] \in Ec
      BY <1>11, <1>c, <1>n, Zenon DEF ResetInit, Failing, CallShape, InReset
    <3>2. osr' > ecs[Failing].osr
      BY <1>11, <2>2, <3>1, EcNumbers, CollectorAssumption
         DEF ResetInit, SuccessorShape, RateShape
    <3>3. pc' \in {"reset", "replace"} /\ pc = "reset" /\ UNCHANGED <<ec, op>>
      BY <1>11, <2>2, Zenon DEF ResetInit
    <3>. QED
      BY <2>2, <3>2, <3>3, Zenon DEF SuccessorShape, VerdictShape,
         TickingShape, InReset, Failing
  <2>. QED
    BY <1>11, <2>1, <2>2, Zenon DEF ResetInit
<1>12. CASE ResetReplace
  <2>. DEFINE e == Replacement(ecs[Failing], osr)
  <2>1. Failing \in Address /\ ecs[Failing] \in Ec
    BY <1>12, <1>c, <1>n, Zenon DEF ResetReplace, Failing, CallShape, InReset
  <2>2. osr \in MinOsr .. MaxOsr /\ osr > ecs[Failing].osr
    BY <1>12, CollectorAssumption DEF ResetReplace, RateShape, SuccessorShape
  <2>3. e \in Ec /\ Succeeds(ecs[Failing], e) /\ e.ticking = 0
    BY <2>1, <2>2, ReplacementCarries, ReplacementSucceeds, Zenon
  <2>4. Unused \in Address /\ Unused # ec /\ Unused # new_ec
    BY SpareAddress, Zenon
  <2>5. /\ ecs' = [a \in Address |-> IF a = Unused THEN e
                                     ELSE IF a = new_ec THEN NoEc
                                     ELSE ecs[a]]
        /\ new_ec' = Unused /\ pc' = "settick" /\ pc = "replace"
        /\ UNCHANGED <<ec, op>>
    BY <1>12, Zenon DEF ResetReplace
  <2>. HIDE DEF e
  <2>6. ecs'[new_ec'] = e /\ (ec # Null => ecs'[ec] = ecs[ec])
    BY <1>c, <1>n, <2>4, <2>5, Zenon
  <2>7. ec # Null => Succeeds(ecs[ec], e)
    BY <1>c, <1>n, <2>3, SuccessorsCompose, Zenon DEF Failing, SuccessorShape
  <2>8. \A a \in Address : ecs'[a].ticking = 0
    BY <2>3, <2>5, Zenon DEF TickingShape, HeapExact, Ec, NoEc
  <2>9. op = "safe" => ec # Null
    BY <2>5, Zenon DEF CallShape, InReset
  <2>. QED
    BY <2>5, <2>6, <2>7, <2>8, <2>9, Zenon DEF SuccessorShape, VerdictShape,
       TickingShape, InReset
<1>13. CASE ResetNoMemory
  BY <1>13, InstanceGivenUp, Zenon DEF ResetNoMemory, InReset
<1>14. ASSUME NEW fails \in BOOLEAN, StartupSettick(fails)
       PROVE  InstanceInv'
  <2>1. CASE GiveUp
    BY <1>14, <2>1, InstanceGivenUp, Zenon DEF StartupSettick, InReset
  <2>2. CASE /\ ecs' = [ecs EXCEPT ![new_ec] = Ticking(ecs[new_ec])]
             /\ pc' = "startup"
             /\ UNCHANGED <<new_ec, ret>>
    <3>. DEFINE e == Ticking(ecs[new_ec])
    <3>1. new_ec # Null
      BY <1>14, Zenon DEF StartupSettick, CallShape
    <3>2. /\ e \in Ec /\ Same(ecs[new_ec], e)
          /\ e.ticking = IF ecs[new_ec].clock = "notime" THEN 1 ELSE 0
      BY <1>n, <3>1, TickingKeeps, TickingSame, Zenon
    <3>. HIDE DEF e
    <3>3. ecs'[new_ec] = e /\ \A b \in Address \ {new_ec} : ecs'[b] = ecs[b]
      BY <1>14, <1>n, <2>2, <3>1, <3>2, OneUpdated, Zenon DEF StartupSettick, e
    <3>4. pc = "settick" /\ UNCHANGED <<ec, op>>
      BY <1>14, Zenon DEF StartupSettick
    <3>5. ec # Null => ecs'[ec] = ecs[ec]
      BY <1>c, <1>n, <3>1, <3>3, Zenon
    <3>6. ec # Null => Succeeds(ecs[ec], e)
      BY <1>c, <1>n, <3>1, <3>2, SuccessorsSame, Zenon DEF SuccessorShape, Same
    <3>7. op = "safe" => ec # Null
      BY <3>4, Zenon DEF CallShape, InReset
    <3>8. SuccessorShape'
      BY <2>2, <3>3, <3>4, <3>5, <3>6, Zenon DEF SuccessorShape
    <3>9. TickingShape'
      BY <1>n, <2>2, <3>1, <3>2, <3>3, <3>4, Zenon DEF TickingShape, Same
    <3>. QED
      BY <2>2, <3>4, <3>5, <3>7, <3>8, <3>9, Zenon DEF VerdictShape, InReset
  <2>. QED
    BY <1>14, <2>1, <2>2, Zenon DEF StartupSettick
<1>15. ASSUME NEW f \in Failure \ {"none"}, StartupFails(f)
       PROVE  InstanceInv'
  <2>. DEFINE e == WithFailure(ecs[new_ec], f)
  <2>1. new_ec # Null
    BY <1>15, Zenon DEF StartupFails, CallShape
  <2>2. /\ e \in Ec /\ Same(ecs[new_ec], e)
        /\ e.ticking = ecs[new_ec].ticking
    BY <1>n, <2>1, WithFailureKeeps, WithFailureSame, Zenon
  <2>3. /\ ecs' = [ecs EXCEPT ![new_ec] = e]
        /\ pc = "startup" /\ pc' = "reset" /\ osr' = ecs[new_ec].osr + 1
        /\ UNCHANGED <<ec, new_ec, op>>
    BY <1>15, Zenon DEF StartupFails, NextRate
  <2>. HIDE DEF e
  <2>4. ecs'[new_ec] = e /\ \A b \in Address \ {new_ec} : ecs'[b] = ecs[b]
    BY <1>n, <2>1, <2>2, <2>3, OneUpdated, Zenon
  <2>5. ec # Null => ecs'[ec] = ecs[ec] /\ Succeeds(ecs[ec], e)
    BY <1>c, <1>n, <2>1, <2>2, <2>4, SuccessorsSame DEF SuccessorShape, Same
  <2>6. osr' > e.osr
    BY <1>n, <2>1, <2>2, <2>3, EcNumbers DEF Same
  <2>7. op = "safe" => ec # Null
    BY <2>3, Zenon DEF CallShape, InReset
  <2>8. SuccessorShape'
    BY <2>1, <2>3, <2>4, <2>5, <2>6, Zenon DEF SuccessorShape, Failing
  <2>9. TickingShape'
    BY <2>1, <2>2, <2>3, <2>4, Zenon DEF TickingShape
  <2>. QED
    BY <2>3, <2>5, <2>7, <2>8, <2>9, Zenon DEF VerdictShape, InReset
<1>16. CASE StartupOfAlloc
  <2>. DEFINE e == [NotTicking(ecs[new_ec]) EXCEPT !.uuid = 1]
  <2>1. new_ec # Null /\ ec = Null
    BY <1>16, Zenon DEF StartupOfAlloc, CallShape, InReset
  <2>2. e \in Ec /\ e.ticking = 0
    BY <1>n, <2>1, IdentifierKeeps, Zenon DEF NotTicking, Ec
  <2>3. /\ ecs' = [ecs EXCEPT ![new_ec] = e] /\ ec' = new_ec /\ new_ec' = Null
        /\ pc' = "idle" /\ pc = "startup"
    BY <1>16, Zenon DEF StartupOfAlloc
  <2>. HIDE DEF e
  <2>4. \A a \in Address : ecs'[a].ticking = 0
    BY <1>n, <2>1, <2>2, <2>3, Zenon DEF HeapExact, TickingShape, NoEc
  <2>. QED
    BY <2>3, <2>4, Zenon DEF SuccessorShape, VerdictShape, TickingShape,
       InReset
<1>17. CASE StartupOfReset
  <2>. DEFINE e == NotTicking(ecs[new_ec])
  <2>1. new_ec # Null /\ ec # Null /\ new_ec # ec
    BY <1>17, <1>n, Zenon DEF StartupOfReset, CallShape, InReset
  <2>2. e \in Ec /\ e.ticking = 0
    BY <1>n, <2>1, NotTickingKeeps, NotTickingSame, Zenon
  <2>3. /\ ecs' = [a \in Address |-> IF a = ec THEN NoEc
                                     ELSE IF a = new_ec THEN e
                                     ELSE ecs[a]]
        /\ ec' = new_ec /\ new_ec' = Null /\ pc' = "read" /\ pc = "startup"
    BY <1>17, Zenon DEF StartupOfReset
  <2>. HIDE DEF e
  <2>4. \A a \in Address : ecs'[a].ticking = 0
    BY <2>1, <2>2, <2>3 DEF HeapExact, NoEc
  <2>. QED
    BY <2>3, <2>4, Zenon DEF SuccessorShape, VerdictShape, TickingShape,
       InReset
<1>18. ASSUME NEW failed \in {0, 1}, Selftest(failed)
       PROVE  InstanceInv'
  <2>. DEFINE e == [ecs[ec] EXCEPT !.selftest_failed = failed]
  <2>1. ec # Null
    BY <1>18, Zenon DEF Selftest
  <2>2. /\ e \in Ec /\ Same(ecs[ec], e) /\ e.ticking = ecs[ec].ticking
        /\ e.health_failure = ecs[ec].health_failure
    BY <1>c, <2>1, SelftestKeeps, SelftestSame, Zenon
  <2>3. /\ ecs' = [ecs EXCEPT ![ec] = e] /\ (pc = "idle" \/ op = "read")
        /\ UNCHANGED <<ec, new_ec, op, pc, want, copied, osr, ret>>
    BY <1>18, <1>c, <2>1, Zenon DEF Selftest
  <2>. HIDE DEF e
  <2>4. ecs'[ec] = e /\ \A b \in Address \ {ec} : ecs'[b] = ecs[b]
    BY <1>c, <2>1, <2>2, <2>3, OneUpdated, Zenon
  <2>5. new_ec = Null /\ pc \notin InReset
    BY <2>3, Zenon DEF CallShape, InRead, InReset
  <2>6. SuccessorShape' /\ VerdictShape'
    BY <2>1, <2>2, <2>3, <2>4, <2>5, Zenon DEF SuccessorShape, VerdictShape,
       InReset
  <2>7. TickingShape'
    BY <1>c, <2>1, <2>2, <2>3, <2>4, <2>5 DEF TickingShape, InReset, Same
  <2>. QED
    BY <2>6, <2>7, Zenon
<1>19. CASE UNCHANGED vars
  BY <1>19, Zenon DEF vars, SuccessorShape, VerdictShape, TickingShape, Failing
<1>. QED
  BY <1>1, <1>2, <1>3, <1>4, <1>5, <1>6, <1>7, <1>8, <1>9, <1>10, <1>11,
     <1>12, <1>13, <1>14, <1>15, <1>16, <1>17, <1>18, <1>19, Zenon
     DEF Next, Request, Work, Reading, Resetting, Starting

\* The extended invariant holds throughout.
LEMMA InstanceInvariant == Spec => [](CollectorInv /\ InstanceInv)
  BY CollectorInitially, CollectorPreserved, InstanceInitially,
     InstancePreserved, PTL DEF Spec

\* A step of a call on the collector the caller holds.
CallStep ==
  /\ ec' = ec /\ Same(ecs[ec], ecs'[ec])
  /\ ecs'[ec].selftest_failed = ecs[ec].selftest_failed \/ pc' = pc
  /\ ecs[ec].health_failure = "permanent" =>
       /\ ecs'[ec].health_failure = "permanent"
       /\ ecs'[ec].read_invocations = ecs[ec].read_invocations

\* The step that hands the caller the replacement.
ReplaceStep ==
  /\ ec' = new_ec /\ ec' # ec /\ Succeeds(ecs[ec], ecs'[ec'])
  /\ ecs[ec].health_failure = "intermittent"
  /\ ecs[ec].selftest_failed = 0

\* There is no other while an instance is open.
LEMMA InstanceStep ==
  ASSUME CollectorInv, InstanceInv, [Next]_vars, ec # Null, ec' # Null
  PROVE  CallStep \/ ReplaceStep
<1>. USE DEF CollectorInv, InstanceInv
<1>c. ec \in Address /\ ecs[ec] \in Ec
  BY Zenon DEF HeapExact
<1>n. new_ec # Null => new_ec \in Address /\ ecs[new_ec] \in Ec /\ new_ec # ec
  BY Zenon DEF HeapExact
<1>u. ASSUME ec' = ec, ecs'[ec] = ecs[ec]
      PROVE  CallStep
  BY <1>u, Zenon DEF CallStep, Same
<1>1. CASE Request
  BY <1>1, <1>u, Zenon DEF Request, AllocBegin, AllocRefused, ReadBegin,
     ReadState, Free
<1>2. ASSUME NEW fails \in BOOLEAN, ReadSettick(fails)
      PROVE  CallStep
  <2>1. CASE UNCHANGED ecs
    BY <1>2, <1>u, <2>1, Zenon DEF ReadSettick
  <2>2. CASE ecs' = [ecs EXCEPT ![ec] = Ticking(ecs[ec])]
    <3>1. ecs'[ec] = Ticking(ecs[ec]) /\ ec' = ec
      BY <1>2, <1>c, <2>2, Zenon DEF ReadSettick, HeapExact
    <3>. QED
      BY <1>c, <3>1, TickingSame, TickingKeeps, Zenon DEF CallStep
  <2>. QED
    BY <1>2, <2>1, <2>2, Zenon DEF ReadSettick
<1>3. CASE ReadCheck
  BY <1>3, <1>u, Zenon DEF ReadCheck
<1>4. ASSUME NEW f \in Failure, ReadGenerate(f)
      PROVE  CallStep
  <2>1. ecs'[ec] = WithFailure(ecs[ec], f) /\ ec' = ec
    BY <1>4, <1>c, Zenon DEF ReadGenerate, HeapExact
  <2>. QED
    BY <1>c, <2>1, WithFailureSame, WithFailureKeeps DEF CallStep
<1>5. CASE ReadDone
  <2>1. /\ ecs'[ec] = Accounted(ecs[ec], want) /\ ec' = ec
        /\ ecs[ec].health_failure = "none"
    BY <1>5, <1>c, Zenon DEF ReadDone, HeapExact, VerdictShape
  <2>. QED
    BY <1>c, <2>1, AccountedSame, Zenon DEF CallStep, BufferShape
<1>6. CASE ReadError
  <2>1. ecs'[ec] = NotTicking(ecs[ec]) /\ ec' = ec
    BY <1>6, <1>c, Zenon DEF ReadError, HeapExact
  <2>. QED
    BY <1>c, <2>1, NotTickingSame, NotTickingKeeps, Zenon DEF CallStep
<1>g. ASSUME GiveUp, ec' = ec
      PROVE  CallStep
  BY <1>g, <1>u, GivenUp, Zenon
<1>7. CASE Resetting
  <2>1. ASSUME NEW passes \in BOOLEAN, ResetInit(passes)
        PROVE  CallStep
    BY <1>g, <1>u, <2>1, Zenon DEF ResetInit
  <2>2. CASE ResetReplace
    <3>1. Unused # ec
      BY SpareAddress, Zenon
    <3>2. ecs'[ec] = ecs[ec] /\ ec' = ec
      BY <1>c, <1>n, <2>2, <3>1, Zenon DEF ResetReplace, Null
    <3>. QED
      BY <1>u, <3>2, Zenon
  <2>3. CASE ResetNoMemory
    BY <1>g, <2>3, Zenon DEF ResetNoMemory
  <2>. QED
    BY <1>7, <2>1, <2>2, <2>3, Zenon DEF Resetting
<1>8. ASSUME NEW fails \in BOOLEAN, StartupSettick(fails)
      PROVE  CallStep
  <2>1. CASE ecs' = [ecs EXCEPT ![new_ec] = Ticking(ecs[new_ec])]
    <3>1. ecs'[ec] = ecs[ec] /\ ec' = ec
      BY <1>8, <1>c, <1>n, <2>1, Zenon DEF StartupSettick, HeapExact, CallShape
    <3>. QED
      BY <1>u, <3>1, Zenon
  <2>. QED
    BY <1>8, <1>g, <2>1, Zenon DEF StartupSettick
<1>9. ASSUME NEW f \in Failure \ {"none"}, StartupFails(f)
      PROVE  CallStep
  <2>1. ecs'[ec] = ecs[ec] /\ ec' = ec
    BY <1>9, <1>c, <1>n, Zenon DEF StartupFails, HeapExact, CallShape
  <2>. QED
    BY <1>u, <2>1, Zenon
<1>10. CASE StartupOfAlloc
  BY <1>10, Zenon DEF StartupOfAlloc, CallShape, InReset
<1>11. CASE StartupOfReset
  <2>1. /\ new_ec # Null /\ new_ec # ec
        /\ ecs[ec].health_failure = "intermittent"
        /\ ecs[ec].selftest_failed = 0
    BY <1>11, <1>n, Zenon DEF StartupOfReset, CallShape, InReset, VerdictShape
  <2>2. ecs'[ec'] = NotTicking(ecs[new_ec]) /\ ec' = new_ec
    BY <1>11, <1>n, <2>1, Zenon DEF StartupOfReset
  <2>3. NotTicking(ecs[new_ec]) \in Ec /\ Same(ecs[new_ec], ecs'[ec'])
    BY <1>n, <2>1, <2>2, NotTickingKeeps, NotTickingSame, Zenon
  <2>4. Same(ecs[ec], ecs[ec]) /\ Succeeds(ecs[ec], ecs[new_ec])
    BY <2>1, Zenon DEF Same, SuccessorShape
  <2>5. Succeeds(ecs[ec], ecs'[ec'])
    BY <1>c, <1>n, <2>1, <2>2, <2>3, <2>4, SuccessorsSame, Zenon
  <2>. QED
    BY <2>1, <2>2, <2>5, Zenon DEF ReplaceStep
<1>12. ASSUME NEW failed \in {0, 1}, Selftest(failed)
       PROVE  CallStep
  <2>. DEFINE e == [ecs[ec] EXCEPT !.selftest_failed = failed]
  <2>1. /\ Same(ecs[ec], e) /\ e.health_failure = ecs[ec].health_failure
        /\ e.read_invocations = ecs[ec].read_invocations
    BY <1>c, SelftestSame, SelftestKeeps, Zenon
  <2>2. ecs' = [ecs EXCEPT ![ec] = e] /\ UNCHANGED <<ec, pc>>
    BY <1>12, <1>c, Zenon DEF Selftest
  <2>. HIDE DEF e
  <2>3. ecs'[ec] = e
    BY <1>c, <2>2, Zenon DEF HeapExact
  <2>. QED
    BY <2>1, <2>2, <2>3, Zenon DEF CallStep
<1>13. CASE UNCHANGED vars
  BY <1>13, <1>u, Zenon DEF vars
<1>. QED
  BY <1>1, <1>2, <1>3, <1>4, <1>5, <1>6, <1>7, <1>8, <1>9, <1>10, <1>11,
     <1>12, <1>13, Zenon DEF Next, Work, Reading, Starting

-----------------------------------------------------------------------------
(* The theorems *)

\* On no path of jent_health_failure_reset() and of
\* jent_entropy_collector_startup() is a collector leaked, freed twice or handed
\* out after it was freed, however often the startup of a replacement fails.
THEOREM CollectorsAccounted == Spec => []NoCollectorLost
<1>1. ASSUME CollectorInv
      PROVE  NoCollectorLost
  <2>1. Live = {ec, new_ec} \ {Null}
    <3>1. \A a \in Address : ecs[a].osr # 0 <=> a = ec \/ a = new_ec
      BY <1>1, EcMembers DEF CollectorInv, HeapExact, NoEc
    <3>2. ec \in Address \cup {Null} /\ new_ec \in Address \cup {Null}
      BY <1>1, Zenon DEF CollectorInv, HeapExact
    <3>3. Null \notin Address
      BY DEF Null, Address
    <3>. QED
      BY <3>1, <3>2, <3>3, Zenon DEF Live
  <2>. QED
    BY <1>1, <2>1, Zenon DEF CollectorInv, HeapExact, CallShape,
       NoCollectorLost
<1>. QED
  BY <1>1, CollectorInvariant, PTL

\* What a call is and what it may return, for the type invariant.
ReturnShape ==
  /\ op \in {"none", "alloc", "read", "safe"}
  /\ ret \in {"ok", "null", "einval", "notime", "selftest",
              "intermittent", "permanent"}

\* Every step keeps them.
LEMMA ReturnPreserved ==
  CollectorInv /\ ReturnShape /\ [Next]_vars => ReturnShape'
<1>. SUFFICES ASSUME CollectorInv, ReturnShape, [Next]_vars
              PROVE  ReturnShape'
  BY Zenon
<1>c. ec # Null => ecs[ec] \in Ec
  BY Zenon DEF CollectorInv, HeapExact
<1>. USE DEF ReturnShape
<1>1. CASE Request
  <2>1. CASE ReadState
    <3>1. ec # Null => ecs[ec].health_failure \in Failure
      BY <1>c, EcMembers, Zenon
    <3>. QED
      BY <2>1, <3>1, Zenon DEF ReadState, Failure
  <2>. QED
    BY <1>1, <2>1, Zenon DEF Request, AllocBegin, AllocRefused, ReadBegin, Free
<1>2. CASE Reading
  <2>1. ASSUME NEW f \in Failure, ReadGenerate(f)
        PROVE  ReturnShape'
    <3>1. ec # Null
      BY <2>1, Zenon DEF ReadGenerate, CollectorInv, CallShape, InRead
    <3>2. WithFailure(ecs[ec], f).health_failure \in Failure
      BY <1>c, <3>1, WithFailureKeeps, EcMembers, Zenon
    <3>. QED
      BY <2>1, <3>2, Zenon DEF ReadGenerate, Failure
  <2>. QED
    BY <1>2, <2>1, Zenon DEF Reading, ReadSettick, ReadCheck, ReadDone,
       ReadError
<1>3. CASE Resetting
  BY <1>3, Zenon DEF Resetting, ResetInit, ResetReplace, ResetNoMemory, GiveUp
<1>4. CASE Starting
  BY <1>4, Zenon DEF Starting, StartupSettick, StartupFails, StartupOfAlloc,
     StartupOfReset, GiveUp
<1>5. CASE \E failed \in {0, 1} : Selftest(failed)
  BY <1>5, Zenon DEF Selftest
<1>6. CASE UNCHANGED vars
  BY <1>6, Zenon DEF vars
<1>. QED
  BY <1>1, <1>2, <1>3, <1>4, <1>5, <1>6, Zenon DEF Next, Work

\* The memory size that jent_health_failure_reset() grows and the rate it raises
\* stay within their limits, and every call returns one of the API's results.
THEOREM CollectorTypeCorrect == Spec => []TypeOK
<1>1. Init => ReturnShape
  BY Zenon DEF Init, ReturnShape
<1>2. CollectorInv /\ ReturnShape => TypeOK
  BY Zenon DEF CollectorInv, ReturnShape, HeapExact, CallShape, BufferShape,
     RateShape, InRead, InReset, TypeOK
<1>. QED
  BY <1>1, <1>2, ReturnPreserved, CollectorInvariant, PTL DEF Spec

\* What the caller sees of a step: the requests and blocks its instance has
\* accounted for.
LEMMA ServiceStep ==
  CollectorInv /\ [Next]_vars => [Service!ServiceNext]_(Service!serviceVars)
<1>. SUFFICES ASSUME CollectorInv, [Next]_vars
              PROVE  [Service!ServiceNext]_(Service!serviceVars)
  BY Zenon
<1>. USE DEF CollectorInv
<1>c. ec # Null => ec \in Address /\ ecs[ec] \in Ec
  BY Zenon DEF HeapExact
<1>n. new_ec # Null => new_ec \in Address /\ ecs[new_ec] \in Ec /\ new_ec # ec
  BY Zenon DEF HeapExact
<1>1. ASSUME NEW rate \in MinOsr .. MaxOsr, NEW clock \in Clock,
             NEW cap \in {0, 1}, AllocBegin(rate, clock, cap)
      PROVE  Service!Begin
  BY <1>1, Zenon DEF AllocBegin, Service!Begin
<1>2. CASE AllocRefused
  BY <1>2, Zenon DEF AllocRefused, Service!ServiceNext, Service!Inquire
<1>3. ASSUME NEW call \in {"read", "safe"}, NEW n \in 1 .. MaxBlocks,
             ReadBegin(call, n)
      PROVE  Service!Begin
  BY <1>3, CollectorAssumption DEF ReadBegin, Service!Begin
<1>4. CASE ReadState
  BY <1>4, Zenon DEF ReadState, Service!ServiceNext, Service!Inquire
<1>5. CASE Free
  BY <1>5, Zenon DEF Free, Service!ServiceNext, Service!Close
<1>6. ASSUME NEW fails \in BOOLEAN, ReadSettick(fails)
      PROVE  Service!Refuse \/ UNCHANGED Service!serviceVars
  <2>1. CASE UNCHANGED ecs /\ pc' = "idle"
    BY <1>6, <2>1, Zenon DEF ReadSettick, BufferShape, Service!Refuse
  <2>2. CASE ecs' = [ecs EXCEPT ![ec] = Ticking(ecs[ec])] /\ pc' = "check"
    <3>1. ec # Null
      BY <1>6, Zenon DEF ReadSettick, CallShape, InRead
    <3>2. ecs'[ec] = Ticking(ecs[ec])
      BY <1>c, <2>2, <3>1, Zenon DEF HeapExact
    <3>3. /\ ecs'[ec].read_invocations = ecs[ec].read_invocations
          /\ ecs'[ec].bytes_output = ecs[ec].bytes_output
      BY <1>c, <3>1, <3>2, TickingKeeps, Zenon
    <3>. QED
      BY <1>6, <2>2, <3>1, <3>3, Zenon DEF ReadSettick, Service!serviceVars
  <2>. QED
    BY <1>6, <2>1, <2>2, Zenon DEF ReadSettick
<1>7. CASE ReadCheck
  BY <1>7, Zenon DEF ReadCheck, Service!serviceVars
<1>8. ASSUME NEW f \in Failure, ReadGenerate(f)
      PROVE  UNCHANGED Service!serviceVars
  <2>1. ec # Null
    BY <1>8, Zenon DEF ReadGenerate, CallShape, InRead
  <2>2. ecs'[ec] = WithFailure(ecs[ec], f)
    BY <1>8, <1>c, <2>1, Zenon DEF ReadGenerate, HeapExact
  <2>3. /\ ecs'[ec].read_invocations = ecs[ec].read_invocations
        /\ ecs'[ec].bytes_output = ecs[ec].bytes_output
    BY <1>c, <2>1, <2>2, WithFailureKeeps
  <2>4. pc = "generate" /\ pc' # "idle" /\ UNCHANGED <<ec, want>>
    BY <1>8, Zenon DEF ReadGenerate
  <2>. QED
    BY <2>1, <2>3, <2>4, Zenon DEF Service!serviceVars
<1>9. CASE ReadDone
  <2>1. ec # Null
    BY <1>9, Zenon DEF ReadDone, CallShape, InRead
  <2>2. ecs'[ec] = Accounted(ecs[ec], want)
    BY <1>9, <1>c, <2>1, Zenon DEF ReadDone, HeapExact
  <2>3. /\ ecs'[ec].read_invocations = ecs[ec].read_invocations + 1
        /\ ecs'[ec].bytes_output = ecs[ec].bytes_output + want
    BY <1>c, <2>1, <2>2, AccountedCounts DEF BufferShape
  <2>. QED
    BY <1>9, <2>1, <2>3, Zenon DEF ReadDone, BufferShape, Service!ServiceNext,
       Service!Fulfil
<1>10. CASE ReadError
  <2>1. ec # Null
    BY <1>10, Zenon DEF ReadError, CallShape, InRead
  <2>2. ecs'[ec] = NotTicking(ecs[ec])
    BY <1>10, <1>c, <2>1, Zenon DEF ReadError, HeapExact
  <2>3. /\ ecs'[ec].read_invocations = ecs[ec].read_invocations
        /\ ecs'[ec].bytes_output = ecs[ec].bytes_output
    BY <1>c, <2>1, <2>2, NotTickingKeeps, Zenon
  <2>4. /\ pc = "error" /\ pc' \in {"reset", "idle"}
        /\ copied' = 0 /\ UNCHANGED <<ec, want>>
    BY <1>10, Zenon DEF ReadError, Wiped
  <2>5. CASE pc' = "reset"
    BY <2>1, <2>3, <2>4, <2>5, Zenon DEF Service!serviceVars
  <2>6. CASE pc' = "idle"
    BY <2>1, <2>3, <2>4, <2>6, Zenon DEF Service!ServiceNext, Service!Refuse
  <2>. QED
    BY <2>4, <2>5, <2>6, Zenon
<1>g. ASSUME GiveUp, pc \in InReset, UNCHANGED <<ec, want, copied>>
      PROVE  Service!Refuse
  <2>1. ec # Null => ecs'[ec] = ecs[ec]
    BY <1>g, GivenUp, Zenon
  <2>. QED
    BY <1>g, <2>1 DEF GiveUp, BufferShape, InReset, Service!Refuse
<1>11. ASSUME NEW passes \in BOOLEAN, ResetInit(passes)
       PROVE  Service!Refuse \/ UNCHANGED Service!serviceVars
  <2>1. CASE GiveUp
    BY <1>11, <1>g, <2>1, Zenon DEF ResetInit, InReset
  <2>2. CASE UNCHANGED ecs /\ pc' \in {"replace", "reset"}
    BY <1>11, <2>2, Zenon DEF ResetInit, Service!serviceVars
  <2>. QED
    BY <1>11, <2>1, <2>2, Zenon DEF ResetInit
<1>12. CASE ResetReplace
  <2>1. Unused # ec
    BY SpareAddress, Zenon
  <2>2. ec # Null => ecs'[ec] = ecs[ec]
    BY <1>12, <1>c, <1>n, <2>1, Zenon DEF ResetReplace, Null
  <2>. QED
    BY <1>12, <2>2 DEF ResetReplace, Service!serviceVars
<1>13. CASE ResetNoMemory
  BY <1>13, <1>g, Zenon DEF ResetNoMemory, InReset, Service!ServiceNext
<1>14. ASSUME NEW fails \in BOOLEAN, StartupSettick(fails)
       PROVE  Service!Refuse \/ UNCHANGED Service!serviceVars
  <2>1. CASE GiveUp
    BY <1>14, <1>g, <2>1, Zenon DEF StartupSettick, InReset
  <2>2. CASE /\ ecs' = [ecs EXCEPT ![new_ec] = Ticking(ecs[new_ec])]
             /\ pc' = "startup"
    <3>1. ec # Null => ecs'[ec] = ecs[ec]
      BY <1>14, <1>c, <1>n, <2>2, Zenon DEF StartupSettick, HeapExact,
         CallShape
    <3>. QED
      BY <1>14, <2>2, <3>1 DEF StartupSettick, Service!serviceVars
  <2>. QED
    BY <1>14, <2>1, <2>2, Zenon DEF StartupSettick
<1>15. ASSUME NEW f \in Failure \ {"none"}, StartupFails(f)
       PROVE  UNCHANGED Service!serviceVars
  <2>1. ec # Null => ecs'[ec] = ecs[ec]
    BY <1>15, <1>c, <1>n, Zenon DEF StartupFails, HeapExact, CallShape
  <2>. QED
    BY <1>15, <2>1 DEF StartupFails, Service!serviceVars
<1>16. CASE StartupOfAlloc
  <2>. DEFINE e == [NotTicking(ecs[new_ec]) EXCEPT !.uuid = 1]
  <2>1. new_ec # Null /\ ec = Null
    BY <1>16, Zenon DEF StartupOfAlloc, CallShape, InReset
  <2>2. /\ e.read_invocations = ecs[new_ec].read_invocations
        /\ e.bytes_output = ecs[new_ec].bytes_output
    BY <1>n, <2>1, IdentifierKeeps, Zenon
  <2>3. ecs' = [ecs EXCEPT ![new_ec] = e] /\ ec' = new_ec
    BY <1>16, Zenon DEF StartupOfAlloc
  <2>. HIDE DEF e
  <2>4. ecs'[ec'] = e
    BY <1>n, <2>1, <2>3, Zenon DEF HeapExact
  <2>5. ecs[new_ec].read_invocations = 0 /\ ecs[new_ec].bytes_output = 0
    BY <2>1, Zenon DEF AccountCarried
  <2>. QED
    BY <1>16, <2>1, <2>2, <2>3, <2>4, <2>5, Zenon DEF StartupOfAlloc,
       BufferShape, InReset, Service!ServiceNext, Service!Open
<1>17. CASE StartupOfReset
  <2>. DEFINE e == NotTicking(ecs[new_ec])
  <2>1. new_ec # Null /\ ec # Null /\ new_ec # ec
    BY <1>17, <1>n, Zenon DEF StartupOfReset, CallShape, InReset
  <2>2. /\ e.read_invocations = ecs[new_ec].read_invocations
        /\ e.bytes_output = ecs[new_ec].bytes_output
    BY <1>n, <2>1, NotTickingKeeps, Zenon
  <2>3. ecs'[ec'] = e /\ ec' = new_ec
    BY <1>17, <1>n, <2>1, Zenon DEF StartupOfReset
  <2>. HIDE DEF e
  <2>4. /\ ecs'[ec'].read_invocations = ecs[ec].read_invocations
        /\ ecs'[ec'].bytes_output = ecs[ec].bytes_output
    BY <2>1, <2>2, <2>3, Zenon DEF AccountCarried
  <2>. QED
    BY <1>17, <2>1, <2>3, <2>4, Zenon DEF StartupOfReset, Service!serviceVars
<1>18. ASSUME NEW failed \in {0, 1}, Selftest(failed)
       PROVE  UNCHANGED Service!serviceVars
  <2>. DEFINE e == [ecs[ec] EXCEPT !.selftest_failed = failed]
  <2>1. ec # Null
    BY <1>18, Zenon DEF Selftest
  <2>2. /\ e.read_invocations = ecs[ec].read_invocations
        /\ e.bytes_output = ecs[ec].bytes_output
    BY <1>c, <2>1, SelftestKeeps, Zenon
  <2>3. ecs' = [ecs EXCEPT ![ec] = e] /\ UNCHANGED <<ec, pc, want, copied>>
    BY <1>18, <1>c, <2>1, Zenon DEF Selftest
  <2>. HIDE DEF e
  <2>4. ecs'[ec] = e
    BY <1>c, <2>1, <2>3, Zenon DEF HeapExact
  <2>. QED
    BY <2>1, <2>2, <2>3, <2>4, Zenon DEF Service!serviceVars
<1>19. CASE UNCHANGED vars
  BY <1>19, Zenon DEF vars, Service!serviceVars
<1>. QED
  BY <1>1, <1>2, <1>3, <1>4, <1>5, <1>6, <1>7, <1>8, <1>9, <1>10, <1>11,
     <1>12, <1>13, <1>14, <1>15, <1>16, <1>17, <1>18, <1>19, Zenon
     DEF Next, Request, Work, Reading, Resetting, Starting,
         Service!ServiceNext

\* An instance keeps the promise of EntropyService with any rates, memory sizes
\* and lengths: a request returns every block or none, and the accounting of
\* jent_read_entropy() is, through every replacement made by
\* jent_health_failure_reset(), that of the requests the caller saw succeed.
THEOREM InstanceImplementsService == Spec => ImplementsService
<1>1. Init => Service!ServiceInit
  BY Zenon DEF Init, Service!ServiceInit
<1>. QED
  BY <1>1, ServiceStep, CollectorInvariant, PTL
     DEF Spec, ImplementsService, Service!ServiceSpec

\* Whenever jent_random_data() or the startup tests measure a collector with
\* the internal timer, the thread jent_notime_settick() started for it runs,
\* whatever resets came before, and between two calls none does.
THEOREM MeasuredWithThread == Spec => []CountingThreadRuns
<1>1. InstanceInv => CountingThreadRuns
  <2>. SUFFICES ASSUME InstanceInv PROVE CountingThreadRuns
    BY Zenon
  <2>. QED
    BY Zenon DEF InstanceInv, TickingShape, CountingThreadRuns
<1>. QED
  BY <1>1, InstanceInvariant, PTL

\* No call changes what identifies an instance, and what
\* jent_health_failure_reset() hands out is the same instance at a rate raised
\* at least once for each reinitialization it counts.
THEOREM ReallocationInvisible == Spec => InstanceKept
<1>. DEFINE P(e, n) == /\ n.uuid = e.uuid /\ n.clock = e.clock
                       /\ n.max_mem_set = e.max_mem_set
                       /\ e.max_mem_set = 1 => n.mem = e.mem
                       /\ n.reinit_count >= e.reinit_count
                       /\ n.osr - e.osr >= n.reinit_count - e.reinit_count
                       /\ ec' # ec => n.reinit_count > e.reinit_count
<1>1. ASSUME CollectorInv, InstanceInv, CollectorInv', [Next]_vars,
             ec # Null, ec' # Null
      PROVE  P(ecs[ec], ecs'[ec'])
  <2>1. CallStep \/ ReplaceStep
    BY <1>1, InstanceStep, Zenon
  <2>2. ecs[ec] \in Ec /\ ecs'[ec'] \in Ec
    BY <1>1, Zenon DEF CollectorInv, HeapExact
  <2>3. /\ ecs[ec].osr \in Int /\ ecs'[ec'].osr \in Int
        /\ ecs[ec].reinit_count \in Int /\ ecs'[ec'].reinit_count \in Int
    BY <2>2, EcNumbers, Zenon
  <2>4. CASE CallStep
    BY <2>3, <2>4 DEF CallStep, Same
  <2>5. CASE ReplaceStep
    BY <2>3, <2>5 DEF ReplaceStep, Succeeds
  <2>. QED
    BY <2>1, <2>4, <2>5, Zenon
<1>2. CollectorInv /\ InstanceInv /\ CollectorInv' /\ [Next]_vars
        => [Kept(LAMBDA e, n :
                   /\ n.uuid = e.uuid /\ n.clock = e.clock
                   /\ n.max_mem_set = e.max_mem_set
                   /\ e.max_mem_set = 1 => n.mem = e.mem
                   /\ n.reinit_count >= e.reinit_count
                   /\ n.osr - e.osr >= n.reinit_count - e.reinit_count
                   /\ ec' # ec => n.reinit_count > e.reinit_count)]_vars
  BY <1>1, Zenon DEF Kept
<1>. QED
  BY <1>2, InstanceInvariant, PTL DEF Spec, InstanceKept

\* No step of a call takes back a verdict: an instance whose self-test failed
\* is not replaced by one in service, and one that failed permanently stays so
\* and accounts for no further request.
THEOREM VerdictsFinal == Spec => VerdictsKept
<1>1. ASSUME CollectorInv, InstanceInv, [Next]_vars, ec # Null, ec' # Null
      PROVE  /\ ecs[ec].selftest_failed = 1 /\ ecs'[ec'].selftest_failed = 0
                  => ec' = ec /\ pc' = pc
             /\ ecs[ec].health_failure = "permanent"
                  => /\ ecs'[ec'].health_failure = "permanent"
                     /\ ecs'[ec'].read_invocations = ecs[ec].read_invocations
  BY <1>1, InstanceStep DEF CallStep, ReplaceStep
<1>2. CollectorInv /\ InstanceInv /\ [Next]_vars
        => [Kept(LAMBDA e, n :
                   /\ e.selftest_failed = 1 /\ n.selftest_failed = 0
                        => ec' = ec /\ pc' = pc
                   /\ e.health_failure = "permanent"
                        => /\ n.health_failure = "permanent"
                           /\ n.read_invocations = e.read_invocations)]_vars
  BY <1>1, Zenon DEF Kept
<1>. QED
  BY <1>2, InstanceInvariant, PTL DEF Spec, VerdictsKept

-----------------------------------------------------------------------------
(* jent_random_data() and its recovery *)

\* The window of the RCT with memory keeps up with the loop that measures.
KeepsUp ==
  frames # <<>> => QueryFailed \/ frames[Len(frames)] <= rct_mem_ctr

\* What a block has left of its one recovery.
RecoverySpent ==
  /\ recoveries \in {0, 1}
  /\ Len(frames) = 2 => recoveries = 1 /\ frames[1] < Nosr
  /\ Len(frames) = 1 /\ recoveries = 1 => QueryFailed \/ rct_mem_ctr = Nosr

\* The count is below the cutoff as long as the loop may go on.
BelowCutoff ==
  /\ ~QueryFailed => rct_mem_count < RctMemCutoff
  /\ Fips = 0 /\ rct_mem_ctr # 0 => 3 * rct_mem_count <= rct_mem_ctr + 2

\* The inductive invariant.
RdInv ==
  /\ RdTypeOK
  /\ StageUndisturbed
  /\ RecoveryNotNested
  /\ KeepsUp
  /\ RecoverySpent
  /\ BelowCutoff
  /\ RctMemNeverPermanent

-----------------------------------------------------------------------------

\* The initial state satisfies the inductive invariant.
LEMMA RdInvInit == RdInit => RdInv
<1> USE RandomDataAssumption
<1> SUFFICES ASSUME RdInit PROVE RdInv
  BY Zenon
<1> frames = <<>> /\ Len(frames) = 0
  BY Zenon DEF RdInit
<1>1. RdTypeOK
  BY DEF RdInit, RdTypeOK, Stage
<1>2. StageUndisturbed /\ RecoveryNotNested /\ KeepsUp /\ RctMemNeverPermanent
  BY DEF RdInit, StageUndisturbed, RecoveryNotNested, KeepsUp,
         RctMemNeverPermanent
<1>3. RecoverySpent /\ BelowCutoff
  BY DEF RdInit, RecoverySpent, BelowCutoff
<1> QED
  BY <1>1, <1>2, <1>3, Zenon DEF RdInv

\* Sequences of one or two elements.
LEMMA ShortSeq ==
  ASSUME NEW S, NEW s \in Seq(S), s # <<>>, Len(s) <= 2
  PROVE  Len(s) \in {1, 2} /\ s[1] \in S /\ s[Len(s)] \in S
<1>1. Len(s) \in Nat \ {0}
  OBVIOUS
<1>2. \A k \in Nat \ {0} : k <= 2 => k \in {1, 2}
  OBVIOUS
<1>3. Len(s) \in {1, 2}
  BY <1>1, <1>2, Zenon
<1> QED
  BY <1>3

\* The last of them replaced.
LEMMA ShortExcept ==
  ASSUME NEW s \in Seq(0 .. Nosr), Len(s) \in {1, 2}, NEW e \in 0 .. Nosr
  PROVE  /\ [s EXCEPT ![Len(s)] = e] \in Seq(0 .. Nosr)
         /\ Len([s EXCEPT ![Len(s)] = e]) = Len(s)
         /\ [s EXCEPT ![Len(s)] = e][Len(s)] = e
         /\ Len(s) = 2 => [s EXCEPT ![Len(s)] = e][1] = s[1]
  OBVIOUS

\* A number appended.
LEMMA NumberAppended ==
  ASSUME NEW s \in Seq(0 .. Nosr), NEW e \in 0 .. Nosr
  PROVE  /\ Append(s, e) \in Seq(0 .. Nosr)
         /\ Len(Append(s, e)) = Len(s) + 1
         /\ Append(s, e)[Len(s) + 1] = e
         /\ \A i \in 1 .. Len(s) : Append(s, e)[i] = s[i]
OBVIOUS

\* The calls that are active.
LEMMA Active ==
  ASSUME RdInv, frames # <<>>
  PROVE  /\ frames \in Seq(0 .. Nosr)
         /\ Len(frames) \in {1, 2}
         /\ frames[1] \in 0 .. Nosr /\ frames[Len(frames)] \in 0 .. Nosr
<1>1. frames \in Seq(0 .. Nosr) /\ Len(frames) <= 2
  BY Zenon DEF RdInv, RdTypeOK, RecoveryNotNested
<1> QED
  BY <1>1, ShortSeq, Zenon

\* A loop that goes on: its counter is within its bound and its window, and the
\* RCT with memory is below its cutoff.
LEMMA Measuring ==
  ASSUME RdInv, frames # <<>>, ~LoopOver
  PROVE  /\ ~QueryFailed
         /\ frames[Len(frames)] < Nosr
         /\ frames[Len(frames)] <= rct_mem_ctr
         /\ rct_mem_ctr \in 0 .. Nosr
         /\ rct_mem_count \in Nat /\ rct_mem_count < RctMemCutoff
BY Active, RandomDataAssumption
   DEF LoopOver, RdInv, KeepsUp, BelowCutoff, RdTypeOK

\* A judged measurement that starts no recovery.
LEMMA MeasureKeeps ==
  ASSUME RdInv, NEW stuck \in {0, 1}, NEW fails \in {0, 1}, Measure(stuck, fails)
  PROVE  RdInv'
<1> USE RandomDataAssumption
<1> DEFINE n == Len(frames)
<1>1. /\ frames \in Seq(0 .. Nosr) /\ n \in {1, 2}
      /\ frames[n] \in 0 .. Nosr - 1 /\ ~QueryFailed
      /\ rct_mem_ctr \in 0 .. Nosr /\ rct_mem_count \in Nat
      /\ rct_mem_count < RctMemCutoff
      /\ frames[n] <= rct_mem_ctr
  BY Active, Measuring DEF Measure
<1>2. /\ Counted(stuck) \in Nat
      /\ Counted(stuck) <= rct_mem_count + 1
      /\ ~InWindow(rct_mem_ctr) => Counted(stuck) = rct_mem_count
      /\ Fips = 0 => 3 * Counted(stuck) <= CountUp(rct_mem_ctr) + 2
  BY <1>1 DEF Counted, InWindow, CountUp, RdInv, BelowCutoff
<1>3. /\ CountUp(rct_mem_ctr) \in 0 .. Nosr
      /\ frames[n] + 1 - stuck <= CountUp(rct_mem_ctr)
      /\ frames[n] + 1 - stuck \in 0 .. Nosr
      /\ rct_mem_ctr = Nosr => CountUp(rct_mem_ctr) = Nosr
  BY <1>1 DEF CountUp, InWindow
<1>4. /\ rct_mem_ctr' = CountUp(rct_mem_ctr) /\ rct_mem_count' = Counted(stuck)
      /\ frames' = [frames EXCEPT ![n] = frames[n] + 1 - stuck]
      /\ UNCHANGED <<startup_state, saved_state, in_recovery, stuck_prime,
                     source, loops, pending, recoveries>>
  BY Zenon DEF Measure, RctMemCompare
<1>5. /\ frames' \in Seq(0 .. Nosr) /\ Len(frames') = n
      /\ frames'[n] = frames[n] + 1 - stuck
      /\ n = 2 => frames'[1] = frames[1]
  <2> DEFINE e == frames[n] + 1 - stuck
  <2>1. frames' = [frames EXCEPT ![Len(frames)] = e]
    BY <1>4, Zenon
  <2>2. e \in 0 .. Nosr /\ frames \in Seq(0 .. Nosr) /\ Len(frames) \in {1, 2}
    BY <1>1, <1>3, Zenon
  <2> HIDE DEF e
  <2>3. /\ [frames EXCEPT ![Len(frames)] = e] \in Seq(0 .. Nosr)
        /\ Len([frames EXCEPT ![Len(frames)] = e]) = Len(frames)
        /\ [frames EXCEPT ![Len(frames)] = e][Len(frames)] = e
        /\ Len(frames) = 2 => [frames EXCEPT ![Len(frames)] = e][1] = frames[1]
    BY <2>2, ShortExcept, Zenon
  <2> QED
    BY <2>1, <2>3, Zenon DEF e
<1>6. "permanent" \notin rct_mem_failure'
  BY <1>1, <1>2 DEF Measure, RctMemCompare, RdInv, RctMemNeverPermanent
<1>7. RdTypeOK'
  <2>1. other_failure' \in {0, 1} /\ rct_count' \in 0 .. RctCutoff
    BY DEF Measure, OtherTests, RdInv, RdTypeOK
  <2>2. rct_mem_failure' \subseteq {"intermittent", "permanent"}
    BY Zenon DEF Measure, RctMemCompare, RdInv, RdTypeOK
  <2>3. parity' \in {0, 1}
    BY DEF Measure, RdInv, RdTypeOK
  <2> QED
    BY <1>2, <1>3, <1>4, <1>5, <2>1, <2>2, <2>3, Zenon DEF RdInv, RdTypeOK
<1>8. StageUndisturbed' /\ RecoveryNotNested'
  BY <1>1, <1>4, <1>5, SMTT(30) DEF RdInv, StageUndisturbed, RecoveryNotNested
<1>9. KeepsUp'
  BY <1>1, <1>3, <1>4, <1>5, Zenon DEF KeepsUp
<1>10. RecoverySpent'
  BY <1>1, <1>3, <1>4, <1>5, Zenon DEF RdInv, RecoverySpent
<1>11. BelowCutoff'
  <2>1. ASSUME Counted(stuck) = RctMemCutoff, Fips = 1 PROVE QueryFailed'
    <3>1. InWindow(rct_mem_ctr) /\ ~(RctMemCutoff >= RctMemPermanent)
      BY <1>1, <1>2, <2>1
    <3>2. "intermittent" \in rct_mem_failure'
      BY <2>1, <3>1, Zenon DEF Measure, RctMemCompare
    <3> QED
      BY <2>1, <3>2, Zenon DEF QueryFailed, Failed
  <2>2. ASSUME Fips = 0 PROVE Counted(stuck) < RctMemCutoff
    BY <1>2, <1>3, <2>2, RctMemAssumption
  <2> QED
    BY <1>1, <1>2, <1>3, <1>4, <2>1, <2>2 DEF BelowCutoff
<1> QED
  BY <1>6, <1>7, <1>8, <1>9, <1>10, <1>11, Zenon DEF RdInv,
     RctMemNeverPermanent

\* A measurement that starts a recovery: it is the block's first.
LEMMA MeasureRecoverKeeps ==
  ASSUME RdInv, NEW stuck \in {0, 1}, NEW fails \in {0, 1},
         MeasureRecover(stuck, fails)
  PROVE  RdInv'
<1> USE RandomDataAssumption
<1>1. Len(frames) = 1 /\ frames \in Seq(0 .. Nosr) /\ frames[1] \in 0 .. Nosr - 1
  <2>1. Len(frames) \in {1, 2} /\ Len(frames) # 2
    BY Active DEF MeasureRecover, MayRecover, RdInv, RecoveryNotNested
  <2>2. Len(frames) = 1
    BY <2>1, Zenon
  <2> QED
    BY <2>2, Active, Measuring DEF MeasureRecover
<1>2. recoveries = 0
  <2>1. SUFFICES ASSUME recoveries = 1 PROVE FALSE
    BY Zenon DEF RdInv, RecoverySpent
  <2>2. rct_mem_ctr = Nosr /\ rct_mem_count < RctMemCutoff
    BY <1>1, <2>1, Measuring, Zenon DEF MeasureRecover, RdInv, RecoverySpent
  <2>3. Counted(stuck) = rct_mem_count
    BY <2>2 DEF Counted, InWindow, RdInv, RdTypeOK
  <2> QED
    BY <2>2, <2>3 DEF MeasureRecover, RdInv, RdTypeOK
<1>3. /\ frames' \in Seq(0 .. Nosr) /\ Len(frames') = 2
      /\ frames'[1] = frames[1] /\ frames'[2] = 0
  <2>1. frames' = Append(frames, 0)
    BY Zenon DEF MeasureRecover
  <2>2. 0 \in 0 .. Nosr
    OBVIOUS
  <2>3. /\ Append(frames, 0) \in Seq(0 .. Nosr)
        /\ Len(Append(frames, 0)) = Len(frames) + 1
        /\ Append(frames, 0)[Len(frames) + 1] = 0
        /\ \A i \in 1 .. Len(frames) : Append(frames, 0)[i] = frames[i]
    BY <1>1, <2>2, NumberAppended, Zenon
  <2>4. Len(frames) + 1 = 2 /\ 1 \in 1 .. Len(frames)
    BY <1>1
  <2> QED
    BY <2>1, <2>3, <2>4, Zenon
<1>4. /\ rct_mem_ctr' = 0 /\ rct_mem_count' = 0 /\ recoveries' = 1
      /\ in_recovery' = 1 /\ startup_state' = "completed"
      /\ saved_state' = startup_state /\ loops' = 0 /\ pending' = stuck
      /\ UNCHANGED <<rct_mem_failure, stuck_prime, source>>
  BY <1>2 DEF MeasureRecover, StartLoop, Parked
<1>5. /\ other_failure' \in {0, 1} /\ rct_count' \in 0 .. RctCutoff
      /\ parity' \in {0, 1}
  BY DEF MeasureRecover, OtherTests, RdInv, RdTypeOK
<1>6. RdTypeOK'
  BY <1>3, <1>4, <1>5 DEF RdInv, RdTypeOK, Stage
<1>7. StageUndisturbed' /\ RecoveryNotNested'
  <2>1. startup_state = source
    BY Zenon DEF MeasureRecover, MayRecover, RdInv, StageUndisturbed
  <2> QED
    BY <1>3, <1>4, <2>1 DEF StageUndisturbed, RecoveryNotNested
<1>8. KeepsUp' /\ RecoverySpent' /\ BelowCutoff'
  BY <1>1, <1>3, <1>4 DEF KeepsUp, RecoverySpent, BelowCutoff
<1> QED
  BY <1>4, <1>6, <1>7, <1>8, Zenon DEF RdInv, RctMemNeverPermanent

\* The calls and the measurement without a verdict.
LEMMA CallKeeps == RdInv /\ Call => RdInv'
<1> USE RandomDataAssumption
<1> SUFFICES ASSUME RdInv, Call PROVE RdInv'
  BY Zenon
<1>1. /\ frames' \in Seq(0 .. Nosr) /\ Len(frames') = 1 /\ frames'[1] = 0
      /\ frames = <<>> /\ Len(frames) = 0
  BY DEF Call
<1>2. in_recovery = 0
  BY <1>1 DEF RdInv, RdTypeOK, RecoveryNotNested
<1>3. RdTypeOK'
  BY <1>1 DEF Call, StartLoop, RdInv, RdTypeOK
<1>4. StageUndisturbed' /\ RecoveryNotNested'
  BY <1>1, <1>2 DEF Call, StageUndisturbed, RecoveryNotNested
<1>5. KeepsUp' /\ RecoverySpent'
  BY <1>1 DEF Call, StartLoop, KeepsUp, RecoverySpent
<1>6. BelowCutoff' /\ RctMemNeverPermanent'
  BY Zenon DEF Call, StartLoop, RdInv, BelowCutoff, QueryFailed, Failed,
     RctMemNeverPermanent
<1> QED
  BY <1>3, <1>4, <1>5, <1>6, Zenon DEF RdInv

\* Only the priming and nothing the invariant is about changes.
LEMMA MeasurePrimeKeeps == RdInv /\ MeasurePrime => RdInv'
<1> SUFFICES ASSUME RdInv, MeasurePrime PROVE RdInv'
  BY Zenon
<1>1. RdTypeOK'
  BY RandomDataAssumption DEF MeasurePrime, RdInv, RdTypeOK
<1>2. (QueryFailed <=> QueryFailed')
  BY Zenon DEF MeasurePrime, QueryFailed, Failed
<1> QED
  BY <1>1, <1>2, Zenon DEF MeasurePrime, RdInv, StageUndisturbed,
     RecoveryNotNested, KeepsUp, RecoverySpent, BelowCutoff,
     RctMemNeverPermanent

\* The recovery's next call.
LEMMA RecoverAgainKeeps == RdInv /\ RecoverAgain => RdInv'
<1> USE RandomDataAssumption
<1> SUFFICES ASSUME RdInv, RecoverAgain PROVE RdInv'
  BY Zenon
<1>1. frames \in Seq(0 .. Nosr) /\ Len(frames) = 2 /\ frames # <<>>
  <2>1. Len(frames) = 2
    BY Zenon DEF RecoverAgain
  <2> QED
    BY <2>1 DEF RdInv, RdTypeOK
<1>2. /\ frames' \in Seq(0 .. Nosr) /\ Len(frames') = 2
      /\ frames'[1] = frames[1] /\ frames'[2] = 0
  <2>1. frames' = [frames EXCEPT ![Len(frames)] = 0]
    BY <1>1, Zenon DEF RecoverAgain
  <2>2. 0 \in 0 .. Nosr /\ Len(frames) \in {1, 2}
    BY <1>1
  <2>3. /\ [frames EXCEPT ![Len(frames)] = 0] \in Seq(0 .. Nosr)
        /\ Len([frames EXCEPT ![Len(frames)] = 0]) = Len(frames)
        /\ [frames EXCEPT ![Len(frames)] = 0][Len(frames)] = 0
        /\ Len(frames) = 2 => [frames EXCEPT ![Len(frames)] = 0][1] = frames[1]
    BY <1>1, <2>2, ShortExcept, Zenon
  <2> QED
    BY <1>1, <2>1, <2>3, Zenon
<1>3. RdTypeOK'
  BY <1>2 DEF RecoverAgain, StartLoop, RdInv, RdTypeOK
<1>4. StageUndisturbed' /\ RecoveryNotNested'
  BY <1>1, <1>2, Zenon DEF RecoverAgain, RdInv, StageUndisturbed,
     RecoveryNotNested
<1>5. KeepsUp' /\ RecoverySpent'
  <2>1. rct_mem_ctr' = 0 /\ recoveries' = recoveries
    BY Zenon DEF RecoverAgain, StartLoop
  <2> QED
    BY <1>1, <1>2, <2>1 DEF RdInv, KeepsUp, RecoverySpent
<1>6. BelowCutoff' /\ RctMemNeverPermanent'
  BY Zenon DEF RecoverAgain, StartLoop, RdInv, BelowCutoff, QueryFailed,
     Failed, RctMemNeverPermanent
<1> QED
  BY <1>3, <1>4, <1>5, <1>6, Zenon DEF RdInv

\* The end of a recovery: the window it leaves is complete, or a test failed.
LEMMA RecoveryDoneKeeps == RdInv /\ RecoveryDone => RdInv'
<1> USE RandomDataAssumption
<1> SUFFICES ASSUME RdInv, RecoveryDone PROVE RdInv'
  BY Zenon
<1>1. /\ Len(frames) = 2 /\ frames # <<>>
      /\ frames[1] \in 0 .. Nosr - 1 /\ frames[2] \in 0 .. Nosr
  <2>1. Len(frames) = 2 /\ frames # <<>>
    BY DEF RecoveryDone
  <2> QED
    BY <2>1, Active DEF RdInv, RecoverySpent
<1>2. /\ Len(frames') = 1 /\ frames' \in Seq(0 .. Nosr)
      /\ frames'[1] = frames[1] + 1 - pending /\ frames'[1] \in 0 .. Nosr
  BY <1>1 DEF RecoveryDone, RdInv, RdTypeOK
<1>3. QueryFailed \/ rct_mem_ctr = Nosr
  BY <1>1 DEF RecoveryDone, LoopOver, RdInv, KeepsUp, RdTypeOK
<1>4. QueryFailed' <=> QueryFailed
  BY Zenon DEF RecoveryDone, QueryFailed, Failed
<1>5. rct_mem_ctr = Nosr => rct_mem_ctr' = Nosr
  BY DEF RecoveryDone, WindowResumed, CountUp, InWindow
<1>6. rct_mem_ctr' \in 0 .. Nosr
  BY DEF RecoveryDone, WindowResumed, CountUp, InWindow, RdInv, RdTypeOK
<1>7. RdTypeOK'
  BY <1>2, <1>6 DEF RecoveryDone, HandedBack, RdInv, RdTypeOK
<1>8. StageUndisturbed' /\ RecoveryNotNested'
  BY <1>1, <1>2 DEF RecoveryDone, HandedBack, RdInv, StageUndisturbed,
                    RecoveryNotNested
<1>9. KeepsUp' /\ RecoverySpent'
  BY <1>1, <1>2, <1>3, <1>4, <1>5
     DEF RecoveryDone, RdInv, KeepsUp, RecoverySpent
<1>10. BelowCutoff'
  <2>1. Fips = 0 => rct_mem_ctr = Nosr /\ rct_mem_ctr' = Nosr
    BY <1>3, <1>5 DEF QueryFailed
  <2> QED
    BY <1>4, <2>1, Zenon DEF RecoveryDone, RdInv, BelowCutoff
<1> QED
  BY <1>7, <1>8, <1>9, <1>10, Zenon DEF RecoveryDone, RdInv,
     RctMemNeverPermanent

\* The end of a block, or of a startup stage.
LEMMA LoopDoneKeeps == RdInv /\ LoopDone => RdInv'
<1> USE RandomDataAssumption
<1> SUFFICES ASSUME RdInv, LoopDone PROVE RdInv'
  BY Zenon
<1>1. in_recovery = 0 /\ in_recovery' = 0
  BY DEF LoopDone, RdInv, RdTypeOK, RecoveryNotNested
<1>2. QueryFailed' <=> QueryFailed
  BY Zenon DEF LoopDone, QueryFailed, Failed
<1>3. RctMemNeverPermanent'
  BY Zenon DEF LoopDone, RdInv, RctMemNeverPermanent
<1>4. CASE source = "memory"
  <2>1. /\ frames' \in Seq(0 .. Nosr) /\ Len(frames') = 1 /\ frames'[1] = 0
        /\ startup_state' = "sha3" /\ source' = "sha3"
        /\ rct_mem_ctr' = 0 /\ recoveries' = 0
    <3>1. frames' = <<0>>
      BY <1>4, Zenon DEF LoopDone
    <3> QED
      BY <1>4, <3>1 DEF LoopDone, NextStage, StartLoop
  <2>2. RdTypeOK'
    BY <1>4, <2>1 DEF LoopDone, RdInv, RdTypeOK, Stage
  <2>3. StageUndisturbed' /\ RecoveryNotNested' /\ KeepsUp' /\ RecoverySpent'
    BY <1>1, <2>1 DEF StageUndisturbed, RecoveryNotNested, KeepsUp,
       RecoverySpent
  <2>4. BelowCutoff'
    BY <1>2, <2>1, Zenon DEF LoopDone, RdInv, BelowCutoff
  <2> QED
    BY <1>3, <2>2, <2>3, <2>4, Zenon DEF RdInv
<1>5. CASE source # "memory"
  <2>1. /\ frames' = <<>> /\ Len(frames') = 0
        /\ UNCHANGED <<source, rct_mem_ctr, recoveries>>
    BY <1>5, Zenon DEF LoopDone
  <2>2. RdTypeOK'
    BY <1>5, <2>1 DEF LoopDone, NextStage, RdInv, RdTypeOK, Stage
  <2>3. StageUndisturbed' /\ RecoveryNotNested' /\ KeepsUp' /\ RecoverySpent'
    BY <1>1, <2>1
       DEF StageUndisturbed, RecoveryNotNested, KeepsUp, RecoverySpent, RdInv
  <2>4. BelowCutoff'
    BY <1>2, <2>1, Zenon DEF LoopDone, RdInv, BelowCutoff
  <2> QED
    BY <1>3, <2>2, <2>3, <2>4, Zenon DEF RdInv
<1> QED
  BY <1>4, <1>5, Zenon

-----------------------------------------------------------------------------

\* Every step preserves the inductive invariant.
LEMMA RdInvStep == RdInv /\ [RdNext]_rd_vars => RdInv'
<1> SUFFICES ASSUME RdInv, [RdNext]_rd_vars PROVE RdInv'
  BY Zenon
<1>1. CASE Call
  BY <1>1, CallKeeps, Zenon
<1>2. CASE MeasurePrime
  BY <1>2, MeasurePrimeKeeps, Zenon
<1>3. ASSUME NEW stuck \in {0, 1}, NEW fails \in {0, 1}, Measure(stuck, fails)
      PROVE  RdInv'
  BY <1>3, MeasureKeeps, Zenon
<1>4. ASSUME NEW stuck \in {0, 1}, NEW fails \in {0, 1},
             MeasureRecover(stuck, fails)
      PROVE  RdInv'
  BY <1>4, MeasureRecoverKeeps, Zenon
<1>5. CASE Return
  BY <1>5, RecoverAgainKeeps, RecoveryDoneKeeps, LoopDoneKeeps, Zenon DEF
     Return
<1>6. CASE UNCHANGED rd_vars
  BY <1>6 DEF rd_vars, RdInv, RdTypeOK, StageUndisturbed, RecoveryNotNested,
     KeepsUp, RecoverySpent, BelowCutoff, RctMemNeverPermanent, QueryFailed,
     Failed
<1> QED
  BY <1>1, <1>2, <1>3, <1>4, <1>5, <1>6, Zenon DEF RdNext, Step

\* The inductive invariant holds.
LEMMA RdInvHolds == RdSpec => []RdInv
BY RdInvInit, RdInvStep, PTL DEF RdSpec

\* The recovery loop of jent_rct_mem_insert() never disturbs the startup stage
\* it interrupts, is never entered twice at a time nor twice in one block, and
\* leaves its test no way to the permanent failure - for every rate and cutoff.
THEOREM RecoveryCorrect ==
  RdSpec => [](RecoveryContained /\ RctMemNeverPermanent)
<1>1. RdInv => RecoveryContained /\ RctMemNeverPermanent
  BY DEF RdInv, RecoverySpent, RecoveryContained
<1> QED
  BY <1>1, RdInvHolds, PTL

\* Whatever jent_rct_mem_insert() does to the counters of the loop it
\* interrupts, the window counter stays within the window and a loop within its
\* number of measurements, and jent_random_data() is active at most twice.
THEOREM RandomDataTypeCorrect == RdSpec => [](RdTypeOK /\ Len(frames) <= 2)
<1>1. RdInv => RdTypeOK /\ Len(frames) <= 2
  BY Zenon DEF RdInv, RecoveryNotNested
<1> QED
  BY <1>1, RdInvHolds, PTL

\* A block jent_random_data() ends without a failure has a complete window of
\* the RCT with memory behind it, below the cutoff.
THEOREM BlocksCovered == RdSpec => BlockCovered
<1>1. ASSUME RdInv, LoopDone, ~Failed
      PROVE  rct_mem_ctr = Nosr /\ rct_mem_count < RctMemCutoff
  <2>1. ~QueryFailed /\ frames # <<>> /\ Len(frames) = 1
    BY <1>1 DEF QueryFailed, LoopDone
  <2>2. frames[1] \in 0 .. Nosr /\ frames[1] >= Nosr
    BY <1>1, <2>1, Active, Zenon DEF LoopDone, LoopOver
  <2>3. frames[1] <= rct_mem_ctr /\ rct_mem_count < RctMemCutoff
    BY <1>1, <2>1, Zenon DEF RdInv, KeepsUp, BelowCutoff
  <2> QED
    BY <1>1, <2>2, <2>3, RandomDataAssumption DEF RdInv, RdTypeOK
<1>2. RdInv /\ [RdNext]_rd_vars =>
        [LoopDone /\ ~Failed =>
           rct_mem_ctr = Nosr /\ rct_mem_count < RctMemCutoff]_rd_vars
  BY <1>1, Zenon
<1> QED
  BY <1>2, RdInvHolds, PTL DEF RdSpec, BlockCovered
=============================================================================
