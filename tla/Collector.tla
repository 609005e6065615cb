----------------------------- MODULE Collector -----------------------------
(***************************************************************************)
(* The life of one instance in a compliance mode: its allocation with the  *)
(* startup, jent_read_entropy(), jent_read_entropy_safe() with the reset   *)
(* that replaces a failed collector at a higher oversampling rate, a bound *)
(* self test on another thread, and its release.                           *)
(*                                                                         *)
(* What a generation finds is an input here: no failure, an intermittent   *)
(* or a permanent one.  So is what jent_entropy_init_ex(),                 *)
(* jent_entropy_collector_alloc_internal() and jent_notime_settick()       *)
(* return.  Lengths are in blocks.                                         *)
(***************************************************************************)
EXTENDS Integers, FiniteSets

CONSTANTS MinOsr, MaxOsr,  \* JENT_MIN_OSR, JENT_MAX_OSR
          MaxMem,          \* the largest memory size, in steps
          MaxBlocks,       \* bound: blocks of one request
          MaxCalls         \* bound: successful requests of an instance

ASSUME CollectorAssumption ==
  /\ MinOsr \in Nat \ {0} /\ MaxOsr \in Nat /\ MinOsr <= MaxOsr
  /\ {MaxMem, MaxBlocks, MaxCalls} \subseteq Nat

VARIABLES ecs,       \* the heap: the collector at each address, or NoEc
          ec,        \* the caller's handle, an address or Null
          new_ec,    \* the collector in its startup, an address or Null
          op,        \* the API call being executed
          pc,        \* where it is
          want,      \* the blocks it is to return
          copied,    \* the blocks in the caller's buffer
          osr,       \* the rate of the reset's next attempt
          ret        \* what the last call returned

vars == <<ecs, ec, new_ec, op, pc, want, copied, osr, ret>>

Null == 0

\* The caller's collector, a replacement and the replacement's replacement.
Address == 1 .. 3

Clock == {"platform", "notime"}

Failure == {"none", "intermittent", "permanent"}

\* The members of struct rand_data that outlive a call.
Ec == [osr : MinOsr .. MaxOsr,
       clock : Clock,              \* enable_notime
       max_mem_set : {0, 1},
       mem : 0 .. MaxMem,          \* the size in ec->flags
       health_failure : Failure,
       selftest_failed : {0, 1},
       ticking : {0, 1},           \* notime_running
       uuid : {0, 1},              \* 1 once assigned
       reinit_count : Nat,
       read_invocations : Nat,
       bytes_output : Nat]

\* Memory that holds no collector: jent_zfree() leaves zeroes.
NoEc == [osr |-> 0, clock |-> "platform", max_mem_set |-> 0, mem |-> 0,
         health_failure |-> "none", selftest_failed |-> 0, ticking |-> 0,
         uuid |-> 0, reinit_count |-> 0, read_invocations |-> 0,
         bytes_output |-> 0]

Live == {a \in Address : ecs[a].osr # 0}

Unused == CHOOSE a \in Address : ecs[a].osr = 0

-----------------------------------------------------------------------------
(* Operations on a collector *)

\* jent_notime_settick() that succeeds.  First, with the thread of a collector
\* taken to run on in its replacement.
TickingUnlessReplaced(e) ==
  IF e.reinit_count > 0 THEN e
  ELSE [e EXCEPT !.ticking = IF e.clock = "notime" THEN 1 ELSE 0]

Ticking(e) == [e EXCEPT !.ticking = IF e.clock = "notime" THEN 1 ELSE 0]

\* jent_notime_unsettick()
NotTicking(e) == [e EXCEPT !.ticking = 0]

\* jent_random_data() with a failure f: the failure bits are sticky, and
\* jent_health_err() looks at the permanent ones first.
WithFailure(e, f) ==
  [e EXCEPT !.health_failure = IF @ = "none" THEN f ELSE @]

\* jent_read_entropy() at its end, with a request of n blocks fulfilled.
Accounted(e, n) ==
  [NotTicking(e) EXCEPT !.read_invocations = @ + 1, !.bytes_output = @ + n]

\* jent_entropy_collector_alloc_internal() for a new instance.
Fresh(rate, clock, cap) ==
  [osr |-> rate, clock |-> clock, max_mem_set |-> cap, mem |-> 0,
   health_failure |-> "none", selftest_failed |-> 0, ticking |-> 0,
   uuid |-> 0, reinit_count |-> 0, read_invocations |-> 0, bytes_output |-> 0]

\* jent_update_memsize(flags, 1), unless the caller set a maximum.  First, one
\* that ignores the maximum.
GrownAlways(e) == IF e.mem < MaxMem THEN e.mem + 1 ELSE e.mem

Grown(e) == IF e.max_mem_set = 0 /\ e.mem < MaxMem THEN e.mem + 1 ELSE e.mem

\* The rate a reset tries first.
NextRate(e) == e.osr + 1

\* What jent_health_failure_reset() carries over to a replacement.
Carried(e, n) ==
  [n EXCEPT !.uuid = e.uuid,
            !.reinit_count = e.reinit_count + 1,
            !.read_invocations = e.read_invocations,
            !.bytes_output = e.bytes_output]

\* What jent_health_failure_reset() makes of a new collector at a rate: the
\* clock is pinned, the identity and the accounting are carried over.
Replacement(e, rate) ==
  Carried(e, [Fresh(rate, e.clock, e.max_mem_set) EXCEPT !.mem = Grown(e)])

-----------------------------------------------------------------------------
(* The caller *)

Init ==
  /\ ecs = [a \in Address |-> NoEc]
  /\ ec = Null
  /\ new_ec = Null
  /\ op = "none"
  /\ pc = "idle"
  /\ want = 0
  /\ copied = 0
  /\ osr = MinOsr
  /\ ret = "ok"

\* jent_entropy_collector_alloc() up to its startup.
AllocBegin(rate, clock, cap) ==
  /\ pc = "idle" /\ ec = Null
  /\ op' = "alloc"
  /\ ecs' = [ecs EXCEPT ![Unused] = Fresh(rate, clock, cap)]
  /\ new_ec' = Unused
  /\ pc' = "settick"
  /\ want' = 0
  /\ copied' = 0
  /\ UNCHANGED <<ec, osr, ret>>

\* jent_entropy_collector_alloc_internal() refuses or runs out of memory.
AllocRefused ==
  /\ pc = "idle" /\ ec = Null
  /\ ret' = "null"
  /\ want' = 0
  /\ copied' = 0
  /\ UNCHANGED <<ecs, ec, new_ec, op, pc, osr>>

\* jent_read_entropy() or jent_read_entropy_safe() of n blocks.
ReadBegin(call, n) ==
  /\ pc = "idle" /\ ec # Null
  /\ ecs[ec].read_invocations < MaxCalls
  /\ op' = call
  /\ want' = n
  /\ copied' = 0
  /\ pc' = "read"
  /\ UNCHANGED <<ecs, ec, new_ec, osr, ret>>

\* Either of them without an instance, or with a length of zero: the state of
\* the instance.
ReadState ==
  /\ pc = "idle"
  /\ ret' = IF ec = Null THEN "einval"
            ELSE IF ecs[ec].selftest_failed = 1 THEN "selftest"
            ELSE IF ecs[ec].health_failure = "none" THEN "ok"
            ELSE ecs[ec].health_failure
  /\ want' = 0
  /\ copied' = 0
  /\ UNCHANGED <<ecs, ec, new_ec, op, pc, osr>>

\* jent_selftest() bound to the instance: idle, or on another thread while
\* jent_read_entropy() runs - jent_read_entropy_safe() may free the collector
\* under it and excludes it.
Selftest(failed) ==
  /\ ec # Null
  /\ pc = "idle" \/ op = "read"
  /\ ecs' = [ecs EXCEPT ![ec].selftest_failed = failed]
  /\ UNCHANGED <<ec, new_ec, op, pc, want, copied, osr, ret>>

\* jent_entropy_collector_free()
Free ==
  /\ pc = "idle" /\ ec # Null
  /\ ecs' = [ecs EXCEPT ![ec] = NoEc]
  /\ ec' = Null
  /\ UNCHANGED <<new_ec, op, pc, want, copied, osr, ret>>

-----------------------------------------------------------------------------
(* jent_read_entropy() *)

ReadSettick(fails) ==
  /\ pc = "read"
  /\ \/ /\ fails /\ ecs[ec].clock = "notime"
        /\ ret' = "notime"
        /\ pc' = "idle"
        /\ UNCHANGED ecs
     \/ /\ ~fails
        /\ ecs' = [ecs EXCEPT ![ec] = Ticking(@)]
        /\ pc' = "check"
        /\ UNCHANGED ret
  /\ UNCHANGED <<ec, new_ec, op, want, copied, osr>>

\* What the check before each block finds.
OutOfService(e) == e.selftest_failed = 1

ReadCheck ==
  /\ pc = "check"
  /\ \/ /\ OutOfService(ecs[ec])
        /\ ret' = "selftest"
        /\ pc' = "error"
     \/ /\ ~OutOfService(ecs[ec])
        /\ pc' = "generate"
        /\ UNCHANGED ret
  /\ UNCHANGED <<ecs, ec, new_ec, op, want, copied, osr>>

\* jent_random_data() and, if no health test failed, the copy of the block.
ReadGenerate(f) ==
  LET e == WithFailure(ecs[ec], f)
  IN  /\ pc = "generate"
      /\ ecs' = [ecs EXCEPT ![ec] = e]
      /\ \/ /\ e.health_failure # "none"
            /\ ret' = e.health_failure
            /\ pc' = "error"
            /\ UNCHANGED copied
         \/ /\ e.health_failure = "none"
            /\ copied' = copied + 1
            /\ pc' = IF copied' < want THEN "check" ELSE "done"
            /\ UNCHANGED ret
      /\ UNCHANGED <<ec, new_ec, op, want, osr>>

\* The request is fulfilled.
ReadDone ==
  /\ pc = "done"
  /\ ecs' = [ecs EXCEPT ![ec] = Accounted(@, want)]
  /\ ret' = "ok"
  /\ pc' = "idle"
  /\ UNCHANGED <<ec, new_ec, op, want, copied, osr>>

\* What an error leaves in the caller's buffer.  First, one that keeps it.
BufferKept(n) == n

Wiped(n) == 0

\* The errors jent_read_entropy_safe() meets with a reset.  First, all the
\* health test failures.
ResetOnAny(error) == error \in {"intermittent", "permanent"}

ResetOn(error) == error = "intermittent"

\* "A failure outputs nothing": what earlier blocks copied is wiped.  An
\* intermittent failure in jent_read_entropy_safe() goes on to the reset.
ReadError ==
  /\ pc = "error"
  /\ ecs' = [ecs EXCEPT ![ec] = NotTicking(@)]
  /\ copied' = Wiped(copied)
  /\ \/ /\ op = "safe" /\ ResetOn(ret)
        /\ osr' = NextRate(ecs[ec])
        /\ pc' = "reset"
     \/ /\ op = "read" \/ ~ResetOn(ret)
        /\ pc' = "idle"
        /\ UNCHANGED osr
  /\ UNCHANGED <<ec, new_ec, op, want, ret>>

-----------------------------------------------------------------------------
(* jent_health_failure_reset(), on the collector in its startup if there is *)
(* one, and on the caller's otherwise.                                      *)

Failing == IF new_ec # Null THEN new_ec ELSE ec

\* The call ends without a replacement: the collector in its startup, if any,
\* is freed, the caller's is left as it is.  First, without the freeing, and
\* with the request tried again.
GiveUpLeaking ==
  /\ new_ec' = Null
  /\ ret' = IF op = "alloc" THEN "null" ELSE "intermittent"
  /\ pc' = "idle"
  /\ UNCHANGED ecs

GiveUpRetrying ==
  /\ ecs' = [a \in Address |-> IF a = new_ec THEN NoEc ELSE ecs[a]]
  /\ new_ec' = Null
  /\ ret' = IF op = "alloc" THEN "null" ELSE "intermittent"
  /\ pc' = IF op = "alloc" THEN "idle" ELSE "read"

GiveUp ==
  /\ ecs' = [a \in Address |-> IF a = new_ec THEN NoEc ELSE ecs[a]]
  /\ new_ec' = Null
  /\ ret' = IF op = "alloc" THEN "null" ELSE "intermittent"
  /\ pc' = "idle"

\* jent_entropy_init_ex() at the next rate.
ResetInit(passes) ==
  /\ pc = "reset"
  /\ \/ /\ osr > MaxOsr
        /\ GiveUp
        /\ UNCHANGED osr
     \/ /\ osr <= MaxOsr
        /\ osr' = IF passes THEN osr ELSE osr + 1
        /\ pc' = IF passes THEN "replace" ELSE "reset"
        /\ UNCHANGED <<ecs, new_ec, ret>>
  /\ UNCHANGED <<ec, op, want, copied>>

\* The replacement is allocated.  In a startup it takes the place of the
\* collector that failed, which is freed; otherwise it has its own startup.
ResetReplace ==
  /\ pc = "replace"
  /\ ecs' = [a \in Address |->
               IF a = Unused THEN Replacement(ecs[Failing], osr)
               ELSE IF a = new_ec THEN NoEc
               ELSE ecs[a]]
  /\ new_ec' = Unused
  /\ pc' = "settick"
  /\ UNCHANGED <<ec, op, want, copied, osr, ret>>

\* It is not.
ResetNoMemory ==
  /\ pc = "replace"
  /\ GiveUp
  /\ UNCHANGED <<ec, op, want, copied, osr>>

-----------------------------------------------------------------------------
(* jent_entropy_collector_startup() *)

\* At its beginning and after each reset.
StartupSettick(fails) ==
  /\ pc = "settick"
  /\ \/ /\ fails /\ ecs[new_ec].clock = "notime"
        /\ GiveUp
     \/ /\ ~fails
        /\ ecs' = [ecs EXCEPT ![new_ec] = Ticking(@)]
        /\ pc' = "startup"
        /\ UNCHANGED <<new_ec, ret>>
  /\ UNCHANGED <<ec, op, want, copied, osr>>

\* Both startup stages.  Any failure is followed by a reset.
StartupFails(f) ==
  /\ pc = "startup"
  /\ ecs' = [ecs EXCEPT ![new_ec] = WithFailure(@, f)]
  /\ osr' = NextRate(ecs[new_ec])
  /\ pc' = "reset"
  /\ UNCHANGED <<ec, new_ec, op, want, copied, ret>>

\* An allocation hands its collector out, with an identifier.
StartupOfAlloc ==
  /\ pc = "startup" /\ op = "alloc"
  /\ ecs' = [ecs EXCEPT ![new_ec] = [NotTicking(@) EXCEPT !.uuid = 1]]
  /\ ec' = new_ec
  /\ new_ec' = Null
  /\ ret' = "ok"
  /\ pc' = "idle"
  /\ UNCHANGED <<op, want, copied, osr>>

\* A replacement takes the place of the caller's collector, which is freed, and
\* the request starts over.
StartupOfReset ==
  /\ pc = "startup" /\ op = "safe"
  /\ ecs' = [a \in Address |-> IF a = ec THEN NoEc
                               ELSE IF a = new_ec THEN NotTicking(ecs[a])
                               ELSE ecs[a]]
  /\ ec' = new_ec
  /\ new_ec' = Null
  /\ pc' = "read"
  /\ UNCHANGED <<op, want, copied, osr, ret>>

-----------------------------------------------------------------------------

Request ==
  \/ \E rate \in MinOsr .. MaxOsr, clock \in Clock, cap \in {0, 1} :
       AllocBegin(rate, clock, cap)
  \/ AllocRefused
  \/ \E call \in {"read", "safe"}, n \in 1 .. MaxBlocks : ReadBegin(call, n)
  \/ ReadState
  \/ Free

Reading ==
  \/ \E fails \in BOOLEAN : ReadSettick(fails)
  \/ ReadCheck
  \/ \E f \in Failure : ReadGenerate(f)
  \/ ReadDone
  \/ ReadError

Resetting ==
  \/ \E passes \in BOOLEAN : ResetInit(passes)
  \/ ResetReplace
  \/ ResetNoMemory

Starting ==
  \/ \E fails \in BOOLEAN : StartupSettick(fails)
  \/ \E f \in Failure \ {"none"} : StartupFails(f)
  \/ StartupOfAlloc
  \/ StartupOfReset

Work == Reading \/ Resetting \/ Starting

Next == Request \/ Work \/ \E failed \in {0, 1} : Selftest(failed)

Spec == Init /\ [][Next]_vars

\* A call that was made keeps running: its thread is scheduled.
FairSpec == Spec /\ WF_vars(Work)

-----------------------------------------------------------------------------
(* Properties *)

\* Every variable has its type.  Of the code it says that the memory size a
\* reset grows stays within JENT_MAX_MEMSIZE_MAX and the rate within
\* JENT_MAX_OSR.
TypeOK ==
  /\ ecs \in [Address -> Ec \cup {NoEc}]
  /\ {ec, new_ec} \subseteq Address \cup {Null}
  /\ op \in {"none", "alloc", "read", "safe"}
  /\ pc \in {"idle", "read", "check", "generate", "done", "error",
             "reset", "replace", "settick", "startup"}
  /\ {want, copied} \subseteq Nat
  /\ osr \in MinOsr .. MaxOsr + 1
  /\ ret \in {"ok", "null", "einval", "notime", "selftest",
              "intermittent", "permanent"}

\* Every collector that was allocated is the caller's or the one in its
\* startup, and a call that returns leaves only the caller's: on no path of
\* jent_health_failure_reset() and jent_entropy_collector_startup() is a
\* collector leaked, freed twice or handed out after it was freed.
NoCollectorLost ==
  /\ Live = {ec, new_ec} \ {Null}
  /\ new_ec # Null => new_ec # ec
  /\ pc = "idle" => new_ec = Null
  /\ pc \in {"settick", "startup"} => new_ec # Null

\* A collector that measures with the internal timer has its counting thread
\* running, also after the resets of a startup - "otherwise
\* jent_get_nstime_internal will spin forever" - and between two calls no
\* counting thread of the instance runs.
CountingThreadRuns ==
  /\ pc = "generate" /\ ecs[ec].clock = "notime" => ecs[ec].ticking = 1
  /\ pc = "startup" /\ ecs[new_ec].clock = "notime" => ecs[new_ec].ticking = 1
  /\ pc = "idle" => \A a \in Address : ecs[a].ticking = 0

\* Before and after a step of an instance.
Kept(P(_, _)) == ec # Null /\ ec' # Null => P(ecs[ec], ecs'[ec'])

\* A reallocation is invisible to the caller but in the rate and in what the
\* reset may grow: the identifier and the clock stay, a maximum the caller set
\* for the memory is kept, and each reinitialization that is counted raises
\* the rate by at least one.
InstanceKept ==
  [][Kept(LAMBDA e, n :
            /\ n.uuid = e.uuid /\ n.clock = e.clock
            /\ n.max_mem_set = e.max_mem_set
            /\ e.max_mem_set = 1 => n.mem = e.mem
            /\ n.reinit_count >= e.reinit_count
            /\ n.osr - e.osr >= n.reinit_count - e.reinit_count
            /\ ec' # ec => n.reinit_count > e.reinit_count)]_vars

\* A verdict against the caller's instance is not lost.  Only a self test that
\* passes puts an instance back in service whose self test failed: no reset of
\* jent_read_entropy_safe() replaces it by a collector that knows nothing of
\* the failure.  A permanent health failure is final: no call brings the
\* instance back, and it returns no further block.
VerdictsKept ==
  [][Kept(LAMBDA e, n :
            /\ e.selftest_failed = 1 /\ n.selftest_failed = 0
                 => ec' = ec /\ pc' = pc
            /\ e.health_failure = "permanent"
                 => /\ n.health_failure = "permanent"
                    /\ n.read_invocations = e.read_invocations)]_vars

\* Every call returns: jent_read_entropy_safe() climbs the rates at most once
\* to JENT_MAX_OSR, also where a reset fails within a startup of a reset.
CallReturns == (pc # "idle") ~> (pc = "idle")

\* The instance behaves as EntropyService promises: a call returns all blocks or
\* none, and through every reallocation, whichever call made it, the accounting
\* is that of the requests the caller saw succeed.
Service ==
  INSTANCE EntropyService WITH
    open <- IF ec = Null THEN 0 ELSE 1,
    busy <- IF pc = "idle" THEN 0 ELSE 1,
    asked <- want,
    data <- IF pc = "idle" THEN copied ELSE 0,
    reads <- IF ec = Null THEN 0 ELSE ecs[ec].read_invocations,
    blocks <- IF ec = Null THEN 0 ELSE ecs[ec].bytes_output

ImplementsService == Service!ServiceSpec
=============================================================================
