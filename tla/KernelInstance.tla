--------------------------- MODULE KernelInstance ---------------------------
(***************************************************************************)
(* One instance of the kernel module: its collector, the mutex that guards *)
(* it, and everybody who comes for it.  The kind of the instance says who  *)
(* they are:                                                               *)
(*   "file"   an open file of /dev/jitterentropy, with the read(2) and     *)
(*            ioctl(2) callers that share it and its status in procfs;     *)
(*   "hwrng"  the instance behind the hw_random core, with that core's     *)
(*            readers and its status in procfs;                            *)
(*   "tfm"    an instance of the crypto API, with its generating threads;  *)
(*   "raw"    an open file of the raw entropy test interface, whose mutex  *)
(*            is one for all the files of that interface.                  *)
(* All but the last have the periodic self test on the workqueue.          *)
(*                                                                         *)
(* A blocking read may replace the collector under the mutex, so whoever   *)
(* has loaded the pointer must still hold the mutex when it uses it.  The  *)
(* entropy source itself is reduced to what a read of it can report.  A    *)
(* file holds one of the slots of InstanceSlots from its open to the end   *)
(* of its release, while other processes come for theirs.                  *)
(***************************************************************************)
EXTENDS Integers, FiniteSets

CONSTANTS Reader,       \* the threads that share the instance
          MaxChunks,    \* the longest request, in JENT_CHARDEV_READ_BUF_SIZE
          MaxSamples,   \* the longest request for raw samples
          Batch,        \* JENT_TESTING_SAMPLES
          LoopCount,    \* the loop counts of JENT_IOCLOOPCNT, with 0
          Opener,       \* the processes that open the device
          File,         \* the one whose file this is
          Privileged,   \* those with CAP_SYS_RESOURCE
          max_instances, INT_MAX,
          None

Actor == Reader \cup {"procfs", "work"}

Collector == {1, 2}     \* the collector in use, and its replacement

\* The names are apart, the processes that open the device finitely many, and the
\* sizes natural numbers.
ASSUME InstanceAssumption ==
  /\ Reader \cap {"procfs", "work", "elsewhere"} = {}
  /\ None \notin Actor \cup {"elsewhere"}
  /\ None \notin Collector \cup LoopCount \cup {0}
  /\ File \in Opener
  /\ IsFiniteSet(Opener)
  /\ {max_instances, INT_MAX, MaxChunks, MaxSamples, Batch} \subseteq Nat

EAGAIN == -1
ERESTARTSYS == -2
EIO == -3
EFAULT == -4

VARIABLES kind,         \* of the instance
          open_instances, opening, cur, limit, full,    \* of InstanceSlots
          verbose,      \* jent_verbose
          phase,        \* of the instance: "closed", "opening", "open", or how
                        \* far its end has come
          fips,         \* fips_enabled
          periodic,     \* selftest_interval is not zero
          nonblock,     \* O_NONBLOCK in file->f_flags
          proc,         \* ctx->proc exists
          lock,         \* the owner of ctx->lock
          ec,           \* ctx->entropy_collector
          health,       \* the health failure the collector keeps
          gate,         \* the collector's own mark of a failed self test
          failed,       \* ctx->selftest.failed
          work,         \* ctx->selftest.work: "idle", "pending" or "running"
          pc,           \* where every actor is
          using,        \* the collector every actor works on
          nb, left, ret,        \* the locals of jent_chardev_read()
          copied,       \* history: the chunks this read handed to its caller
          spilled,      \* history: and a part of one more, before a fault
          panicked,     \* panic() was called
          loop_cnt,     \* ctx->loop_cnt of a raw instance
          session,      \* the local loop_cnt of jent_testing_extract_user()
          primed, taken,        \* its locals primed and i
          stamp,        \* history: the loop count the collector's last time
                        \* stamp was taken at, None once something came between
          recorded      \* history: what the deltas of this read span, a loop
                        \* count or None

Slots == INSTANCE InstanceSlots WITH pc <- opening

slot_vars == <<open_instances, opening, cur, limit, full>>
boot_vars == <<kind, verbose, fips, periodic>>
file_vars == <<boot_vars, slot_vars, phase, nonblock, proc>>
raw_vars  == <<loop_cnt, session, primed, taken, stamp, recorded>>
read_vars == <<nb, left, ret, copied, spilled, raw_vars>>
ec_vars   == <<ec, health, gate>>
vars == <<file_vars, lock, ec_vars, failed, work, pc, using, read_vars,
          panicked>>

Goto(a, label) == pc' = [pc EXCEPT ![a] = label]

Drop(a) == using' = [using EXCEPT ![a] = None]

-----------------------------------------------------------------------------
(* The beginning and the end of an instance *)

\* The steps of other openers, and of this one before it has its slot and after
\* it got none.
Opening(p) ==
  /\ kind = "file"
  /\ ~panicked
  /\ \/ Slots!Ask(p) \/ Slots!Load(p) \/ Slots!Refused(p) \/ Slots!Swap(p)
     \/ Slots!SwapFails(p) \/ Slots!Exempt(p) \/ Slots!Deny(p)
     \/ Slots!AllocationFails(p)
     \/ p # File /\ (Slots!Allocated(p) \/ Slots!Close(p))
  /\ UNCHANGED <<boot_vars, phase, nonblock, proc, lock, ec_vars, failed, work,
                 pc, using, read_vars, panicked>>

\* What a verbose module logs the status of: an instance of the crypto API, as
\* long as __ratelimit() lets it, and one of the test interface.
Logs(limited) ==
  /\ verbose
  /\ kind = "raw" \/ (kind = "tfm" /\ ~limited)

\* The rest of jent_chardev_open() with a slot, jent_hwrng_init(),
\* jent_kcapi_tfm_init() or jent_testing_open(): a collector, its self test and
\* its status file, which is optional.
Open(r) ==
  /\ phase = "closed"
  /\ ~panicked
  /\ IF kind = "file" THEN Slots!Allocated(File) ELSE UNCHANGED slot_vars
  /\ \E limited \in BOOLEAN :
       /\ phase' = IF Logs(limited) THEN "opening" ELSE "open"
       /\ Goto(r, IF Logs(limited) THEN "log" ELSE "idle")
  /\ nonblock' \in {FALSE, kind = "file"}
  /\ proc' \in {FALSE, (kind \in {"file", "hwrng"})}
  /\ ec' = 1
  /\ health' = "ok"
  /\ gate' = FALSE
  /\ failed' = FALSE
  /\ work' = IF periodic THEN "pending" ELSE "idle"
  /\ UNCHANGED <<boot_vars, lock, using, read_vars, panicked>>

\* A signal ends the mutex_lock_interruptible() of jent_testing_open(), which
\* frees what it has.
OpenInterrupted(r) ==
  /\ kind = "raw"
  /\ phase = "opening"
  /\ ~panicked
  /\ pc[r] = "log"
  /\ lock # None
  /\ phase' = "closed"
  /\ ec' = None
  /\ Goto(r, "idle")
  /\ UNCHANGED <<boot_vars, slot_vars, nonblock, proc, lock, health, gate, failed,
                 work, using, read_vars, panicked>>

\* fcntl(F_SETFL) by one of the threads.
SetFlags ==
  /\ kind = "file"
  /\ phase = "open"
  /\ ~panicked
  /\ nonblock' = ~nonblock
  /\ UNCHANGED <<boot_vars, slot_vars, phase, proc, lock, ec_vars, failed, work,
                 pc, using, read_vars, panicked>>

\* The end begins with the status file: proc_remove() lets no new reader in.
\* Nobody is inside any more of a file without a reference to it and of an
\* instance its user frees; the readers of the hwrng still come.
Release ==
  /\ phase = "open"
  /\ ~panicked
  /\ kind # "hwrng" => \A r \in Reader : pc[r] = "idle"
  /\ phase' = "unpublish"
  /\ proc' = FALSE
  /\ UNCHANGED <<boot_vars, slot_vars, nonblock, lock, ec_vars, failed, work,
                 pc, using, read_vars, panicked>>

\* proc_remove() has waited for the reader inside.  hwrng_unregister() lets no
\* new read in.
Unregister ==
  /\ phase = "unpublish"
  /\ ~panicked
  /\ pc["procfs"] = "idle"
  /\ phase' = "unregister"
  /\ UNCHANGED <<boot_vars, slot_vars, nonblock, proc, lock, ec_vars, failed,
                 work, pc, using, read_vars, panicked>>

\* What hwrng_unregister() waits for.
ReadersGone == \A r \in Reader : pc[r] = "idle"

\* cancel_delayed_work_sync() takes a pending run off the queue and lets no run
\* be queued again.
Cancel ==
  /\ phase = "unregister"
  /\ ~panicked
  /\ ReadersGone
  /\ phase' = "cancel"
  /\ work' = IF work = "pending" THEN "idle" ELSE work
  /\ UNCHANGED <<boot_vars, slot_vars, nonblock, proc, lock, ec_vars, failed, pc,
                 using, read_vars, panicked>>

\* What cancel_delayed_work_sync() waits for.
WorkStopped == work = "idle"

\* The collector, the mutex and the context are freed, and the slot is free.
Free ==
  /\ phase = "cancel"
  /\ ~panicked
  /\ WorkStopped
  /\ IF kind = "file" THEN Slots!Close(File) ELSE UNCHANGED slot_vars
  /\ phase' = "closed"
  /\ nonblock' = FALSE
  /\ ec' = None
  /\ health' = "ok"
  /\ gate' = FALSE
  /\ failed' = FALSE
  /\ loop_cnt' = 0
  /\ UNCHANGED <<boot_vars, proc, lock, work, pc, using, nb, left, ret, copied,
                 spilled, session, primed, taken, stamp, recorded, panicked>>

-----------------------------------------------------------------------------
(* jent_chardev_read(), jent_hwrng_read() and jent_kcapi_random() *)

\* The result after an error with n chunks delivered so far: "Preserve an
\* already accumulated partial count".  First, one that does not.
WithErrorOnly(n, err) == err

WithError(n, err) == IF n = 0 THEN err ELSE n

\* A read of n chunks; a non-blocking one is capped at one.
Read(r, n) ==
  /\ kind = "file"
  /\ phase = "open"
  /\ ~panicked
  /\ pc[r] = "idle"
  /\ left' = [left EXCEPT ![r] = IF nonblock THEN 1 ELSE n]
  /\ ret' = [ret EXCEPT ![r] = 0]
  /\ copied' = [copied EXCEPT ![r] = 0]
  /\ Goto(r, "iterate")
  /\ UNCHANGED <<file_vars, lock, ec_vars, failed, work, using, nb, spilled,
                 raw_vars, panicked>>

\* A read by the hw_random core, waiting or not, or a generation: one request
\* that goes straight into the buffer of the caller.
Request(r) ==
  /\ \/ kind = "hwrng" /\ phase \in {"open", "unpublish"}
     \/ kind = "tfm" /\ phase = "open"
  /\ ~panicked
  /\ pc[r] = "idle"
  /\ \E wait \in {TRUE, kind = "tfm"} : nb' = [nb EXCEPT ![r] = ~wait]
  /\ Goto(r, "lock")
  /\ UNCHANGED <<file_vars, lock, ec_vars, failed, work, using, left, ret, copied,
                 spilled, raw_vars, panicked>>

\* The head of the loop reads the flags of the file again.
Iterate(r) ==
  /\ pc[r] = "iterate"
  /\ ~panicked
  /\ nb' = [nb EXCEPT ![r] = nonblock]
  /\ Goto(r, IF left[r] = 0 THEN "done" ELSE "lock")
  /\ UNCHANGED <<file_vars, lock, ec_vars, failed, work, using, left, ret,
                 copied, spilled, raw_vars, panicked>>

\* The mutex is free: both ways of taking it succeed.
LockRead(r) ==
  /\ pc[r] = "lock"
  /\ ~panicked
  /\ lock = None
  /\ lock' = r
  /\ using' = [using EXCEPT ![r] = ec]
  /\ Goto(r, "generate")
  /\ UNCHANGED <<file_vars, ec_vars, failed, work, read_vars, panicked>>

\* mutex_trylock() fails, which is "no data available" to the hw_random core, or
\* a signal ends mutex_lock_interruptible(); a generation waits for the mutex
\* come what may.
LockReadFails(r) ==
  /\ kind # "tfm"
  /\ pc[r] = "lock"
  /\ ~panicked
  /\ lock # None
  /\ ret' = [ret EXCEPT ![r] =
               WithError(ret[r], IF ~nb[r] THEN ERESTARTSYS
                                 ELSE IF kind = "hwrng" THEN 0 ELSE EAGAIN)]
  /\ Goto(r, "done")
  /\ UNCHANGED <<file_vars, lock, ec_vars, failed, work, using, nb, left,
                 copied, spilled, raw_vars, panicked>>

\* What a read of the collector may do to it and report: <<the collector, the
\* failure it keeps, what is reported>>.  jent_read_entropy() returns a failure
\* it meets; jent_read_entropy_safe() replaces the collector over an
\* intermittent one, as often as it takes, and gives up on a permanent one.
Outcome(r) ==
  IF gate \/ health = "permanent" THEN {<<ec, health, "permanent">>}
  ELSE LET fine == IF health = "ok" THEN {<<ec, "ok", "ok">>} ELSE {}
           kept == {<<ec, f, f>> : f \in IF health = "ok"
                                          THEN {"intermittent", "permanent"}
                                          ELSE {health}}
           replaced == {<<c, f, f>> : c \in Collector \ {ec},
                                      f \in {"ok", "intermittent", "permanent"}}
       IN  fine \cup kept \cup IF nb[r] THEN {} ELSE replaced

\* mutex_unlock() comes before the result is looked at.  First, one that is
\* skipped on an error.
UnlockOnSuccess(report) == IF report = "ok" THEN None ELSE lock

Unlock(report) == None

\* jent_map_read_error() and jent_map_user_read_error(): a health failure that
\* stays and a failed self test end a FIPS kernel; the crypto API tells them
\* from a failure that was not recovered, read(2) does not.
Panics(report) == fips /\ report = "permanent"

MapError(report) ==
  IF kind = "tfm" /\ report = "permanent" THEN EFAULT ELSE EIO

\* jent_read_entropy{,_safe}() under the mutex.  A file has its chunk in a
\* buffer of its own, the others are done; a verbose module logs the status of
\* a crypto API instance whose collector was replaced, fail or not, taking the
\* mutex again for it.
Generate(r) ==
  /\ pc[r] = "generate"
  /\ ~panicked
  /\ \E o \in Outcome(r), limited \in BOOLEAN :
       /\ ec' = o[1]
       /\ health' = o[2]
       /\ lock' = Unlock(o[3])
       /\ panicked' = Panics(o[3])
       /\ \/ /\ o[3] = "ok"
             /\ IF kind = "file" THEN UNCHANGED <<ret, copied>>
                ELSE /\ ret' = [ret EXCEPT ![r] = IF kind = "tfm" THEN 0 ELSE 1]
                     /\ copied' = [copied EXCEPT ![r] = 1]
          \/ /\ o[3] # "ok"
             /\ ret' = [ret EXCEPT ![r] = WithError(ret[r], MapError(o[3]))]
             /\ UNCHANGED copied
       /\ Goto(r, IF Logs(limited) /\ o[1] # using[r] THEN "log"
                  ELSE IF kind = "file" /\ o[3] = "ok" THEN "copy" ELSE "done")
  /\ Drop(r)
  /\ UNCHANGED <<file_vars, gate, failed, work, nb, left, spilled, raw_vars>>

\* copy_to_user(), and the signal that ends the loop early.
Copy(r) ==
  /\ pc[r] = "copy"
  /\ ~panicked
  /\ left' = [left EXCEPT ![r] = @ - 1]
  /\ ret' = [ret EXCEPT ![r] = @ + 1]
  /\ copied' = [copied EXCEPT ![r] = @ + 1]
  /\ \E signal_pending \in BOOLEAN :
       Goto(r, IF signal_pending THEN "done" ELSE "iterate")
  /\ UNCHANGED <<file_vars, lock, ec_vars, failed, work, using, nb, spilled,
                 raw_vars, panicked>>

\* copy_to_user() faults, at once or with a part of the chunk already in the
\* buffer of the caller; how much that is is not looked at.
CopyFaults(r) ==
  /\ pc[r] = "copy"
  /\ ~panicked
  /\ ret' = [ret EXCEPT ![r] = WithError(ret[r], EFAULT)]
  /\ \E part \in BOOLEAN : spilled' = [spilled EXCEPT ![r] = part]
  /\ Goto(r, "done")
  /\ UNCHANGED <<file_vars, lock, ec_vars, failed, work, using, nb, left,
                 copied, raw_vars, panicked>>

\* The buffer is wiped and the call returns.
Return(r) ==
  /\ pc[r] = "done"
  /\ ~panicked
  /\ ret' = [ret EXCEPT ![r] = 0]
  /\ copied' = [copied EXCEPT ![r] = 0]
  /\ spilled' = [spilled EXCEPT ![r] = FALSE]
  /\ left' = [left EXCEPT ![r] = 0]
  /\ nb' = [nb EXCEPT ![r] = FALSE]
  /\ session' = [session EXCEPT ![r] = 0]
  /\ recorded' = [recorded EXCEPT ![r] = {}]
  /\ Goto(r, "idle")
  /\ UNCHANGED <<file_vars, lock, ec_vars, failed, work, using, loop_cnt, primed,
                 taken, stamp, panicked>>

-----------------------------------------------------------------------------
(* The status: the ioctls of the file's threads and the file in procfs *)

\* A thread of the file, or a reader let in by procfs.
Ask(a) ==
  /\ ~panicked
  /\ pc[a] = "idle"
  /\ \/ a \in Reader /\ kind \in {"file", "raw"} /\ phase = "open"
     \/ a = "procfs" /\ proc
  /\ Goto(a, "ask")
  /\ UNCHANGED <<file_vars, lock, ec_vars, failed, work, using, read_vars,
                 panicked>>

\* The pointer is loaded under the mutex.  First, before it is taken.
MayLoadUnlocked == TRUE

MayLoad == lock = None

LockShow(a) ==
  /\ pc[a] \in {"ask", "log"}
  /\ ~panicked
  /\ MayLoad
  /\ lock' = a
  /\ using' = [using EXCEPT ![a] = ec]
  /\ Goto(a, IF pc[a] = "ask" THEN "show" ELSE "show_log")
  /\ UNCHANGED <<file_vars, ec_vars, failed, work, read_vars, panicked>>

\* A signal ends mutex_lock_interruptible(): -ERESTARTSYS.
AskInterrupted(a) ==
  /\ pc[a] \in {"ask", "order"}
  /\ ~panicked
  /\ lock # None
  /\ Goto(a, "idle")
  /\ UNCHANGED <<file_vars, lock, ec_vars, failed, work, using, read_vars,
                 panicked>>

\* jent_status() or the one field, and mutex_unlock().  There is always a
\* collector, jent_read_entropy_safe() keeps the old one when it gets no other, so
\* that jent_status_render() never has to report -EIO for the lack of one.  The log
\* ends the initialization of an instance or the generation that came before it.
Show(a) ==
  /\ pc[a] \in {"show", "show_log"}
  /\ ~panicked
  /\ lock' = None
  /\ Drop(a)
  /\ phase' = IF phase = "opening" THEN "open" ELSE phase
  /\ Goto(a, IF pc[a] = "show" \/ phase = "opening" THEN "idle" ELSE "done")
  /\ UNCHANGED <<boot_vars, slot_vars, nonblock, proc, ec_vars, failed, work,
                 read_vars, panicked>>

-----------------------------------------------------------------------------
(* jent_testing_extract_user() *)

\* A read of n whole samples.
Extract(r, n) ==
  /\ kind = "raw"
  /\ phase = "open"
  /\ ~panicked
  /\ pc[r] = "idle"
  /\ left' = [left EXCEPT ![r] = n]
  /\ Goto(r, "snapshot")
  /\ UNCHANGED <<file_vars, lock, ec_vars, failed, work, using, nb, ret, copied,
                 spilled, raw_vars, panicked>>

\* The loop count of the whole session is read under the mutex.
Snapshot(r) ==
  /\ pc[r] = "snapshot"
  /\ ~panicked
  /\ lock = None
  /\ session' = [session EXCEPT ![r] = loop_cnt]
  /\ Goto(r, "batch")
  /\ UNCHANGED <<file_vars, lock, ec_vars, failed, work, using, nb, left, ret,
                 copied, spilled, loop_cnt, primed, taken, stamp, recorded,
                 panicked>>

\* The head of the loop, with its look at the signals.
NextBatch(r) ==
  /\ pc[r] = "batch"
  /\ ~panicked
  /\ \/ /\ left[r] > 0
        /\ Goto(r, "batch_lock")
        /\ UNCHANGED ret
     \/ /\ left[r] > 0
        /\ ret' = [ret EXCEPT ![r] = WithError(ret[r], ERESTARTSYS)]
        /\ Goto(r, "done")
     \/ /\ left[r] = 0
        /\ Goto(r, "done")
        /\ UNCHANGED ret
  /\ UNCHANGED <<file_vars, lock, ec_vars, failed, work, using, nb, left, copied,
                 spilled, raw_vars, panicked>>

LockBatch(r) ==
  /\ pc[r] = "batch_lock"
  /\ ~panicked
  /\ lock = None
  /\ lock' = r
  /\ using' = [using EXCEPT ![r] = ec]
  /\ primed' = FALSE
  /\ taken' = [taken EXCEPT ![r] = 0]
  /\ Goto(r, "sample")
  /\ UNCHANGED <<file_vars, ec_vars, failed, work, nb, left, ret, copied, spilled,
                 loop_cnt, session, stamp, recorded, panicked>>

\* A signal ends mutex_lock_interruptible().
ExtractInterrupted(r) ==
  /\ pc[r] \in {"snapshot", "batch_lock"}
  /\ ~panicked
  /\ lock # None
  /\ ret' = [ret EXCEPT ![r] = WithError(ret[r], ERESTARTSYS)]
  /\ Goto(r, "done")
  /\ UNCHANGED <<file_vars, lock, ec_vars, failed, work, using, nb, left, copied,
                 spilled, raw_vars, panicked>>

\* Whether the priming still counts after the look at need_resched().  First,
\* one that forgets that schedule() ran somebody else.
StillPrimedAnyway(resched) == primed

StillPrimed(resched) == primed /\ ~resched

BatchDone(r) == taken[r] = left[r] \/ taken[r] = Batch

\* A pass of the loop over the samples: a priming if one is due, and a sample,
\* whose delta spans whatever came since the collector's last time stamp.
Sample(r) ==
  /\ pc[r] = "sample"
  /\ ~panicked
  /\ ~BatchDone(r)
  /\ \E resched \in BOOLEAN :
       LET since == IF ~StillPrimed(resched) THEN session[r]
                    ELSE IF resched THEN None ELSE stamp
       IN  recorded' = [recorded EXCEPT ![r] = @ \cup {since}]
  /\ primed' = TRUE
  /\ stamp' = session[r]
  /\ taken' = [taken EXCEPT ![r] = @ + 1]
  /\ UNCHANGED <<file_vars, lock, ec_vars, failed, work, pc, using, nb, left, ret,
                 copied, spilled, loop_cnt, session, panicked>>

\* The batch is complete, or a signal ends it early.
EndBatch(r) ==
  /\ pc[r] = "sample"
  /\ ~panicked
  /\ lock' = None
  /\ primed' = FALSE
  /\ stamp' = None
  /\ Drop(r)
  /\ \/ /\ taken[r] > 0
        /\ Goto(r, "deliver")
        /\ UNCHANGED ret
     \/ /\ taken[r] = 0
        /\ ret' = [ret EXCEPT ![r] = WithError(ret[r], ERESTARTSYS)]
        /\ Goto(r, "done")
  /\ UNCHANGED <<file_vars, ec_vars, failed, work, nb, left, copied, spilled,
                 loop_cnt, session, taken, recorded, panicked>>

\* copy_to_user(), without the mutex: it leaves not_copied of the samples.
Deliver(r, not_copied) ==
  LET len == taken[r] - not_copied
  IN  /\ pc[r] = "deliver"
      /\ ~panicked
      /\ not_copied <= taken[r]
      /\ left' = [left EXCEPT ![r] = @ - len]
      /\ copied' = [copied EXCEPT ![r] = @ + len]
      /\ ret' = [ret EXCEPT ![r] = IF not_copied = 0 THEN @ + len
                                   ELSE WithError(@ + len, EFAULT)]
      /\ taken' = [taken EXCEPT ![r] = 0]
      /\ Goto(r, IF not_copied = 0 THEN "batch" ELSE "done")
      /\ UNCHANGED <<file_vars, lock, ec_vars, failed, work, using, nb, spilled,
                     loop_cnt, session, primed, stamp, recorded, panicked>>

\* JENT_IOCLOOPCNT by one of the threads, with a count it may set.
SetLoopCount(c) ==
  /\ kind = "raw"
  /\ phase = "open"
  /\ ~panicked
  /\ lock = None
  /\ loop_cnt' = c
  /\ UNCHANGED <<file_vars, lock, ec_vars, failed, work, pc, using, nb, left, ret,
                 copied, spilled, session, primed, taken, stamp, recorded,
                 panicked>>

\* Another file of the interface has the mutex for a batch or for an ioctl.
Elsewhere ==
  /\ kind = "raw"
  /\ ~panicked
  /\ lock = None
  /\ lock' = "elsewhere"
  /\ UNCHANGED <<file_vars, ec_vars, failed, work, pc, using, read_vars, panicked>>

ElsewhereDone ==
  /\ lock = "elsewhere"
  /\ ~panicked
  /\ lock' = None
  /\ UNCHANGED <<file_vars, ec_vars, failed, work, pc, using, read_vars, panicked>>

-----------------------------------------------------------------------------
(* The self test: JENT_IOCSELFTEST of a privileged thread, and the work item *)

Order(r) ==
  /\ kind = "file"
  /\ phase = "open"
  /\ ~panicked
  /\ pc[r] = "idle"
  /\ Goto(r, "order")
  /\ UNCHANGED <<file_vars, lock, ec_vars, failed, work, using, read_vars,
                 panicked>>

\* The run of the test interface is bound to no instance, and takes no mutex;
\* its failure ends a FIPS kernel all the same.
UnboundTestFails ==
  /\ kind = "raw"
  /\ phase = "open"
  /\ ~panicked
  /\ fips
  /\ panicked' = TRUE
  /\ UNCHANGED <<file_vars, lock, ec_vars, failed, work, pc, using, read_vars>>

\* The delay has passed: jent_selftest_instance_work_fn() starts.
Expire ==
  /\ work = "pending"
  /\ ~panicked
  /\ work' = "running"
  /\ Goto("work", "order")
  /\ UNCHANGED <<file_vars, lock, ec_vars, failed, using, read_vars, panicked>>

LockTest(a) ==
  /\ pc[a] = "order"
  /\ ~panicked
  /\ lock = None
  /\ lock' = a
  /\ using' = [using EXCEPT ![a] = ec]
  /\ Goto(a, "test")
  /\ UNCHANGED <<file_vars, ec_vars, failed, work, read_vars, panicked>>

\* "The module keeps a failure": no run after one that failed.  First, one that
\* would bring the instance back.
RunsAgain == TRUE

Runs == ~failed

\* The work item is queued again unless the instance failed; a queueing under
\* cancel_delayed_work_sync() is refused.
Requeued(fail) == IF fail \/ phase = "cancel" THEN "idle" ELSE "pending"

\* jent_selftest_execute() under the mutex: the verdict opens or closes the
\* collector's gate, a failure is kept, under fips_enabled it ends in panic().
Test(a) ==
  /\ pc[a] = "test"
  /\ ~panicked
  /\ \E broken \in BOOLEAN :
       /\ ~Runs => broken
       /\ gate' = IF Runs THEN broken ELSE gate
       /\ failed' = (failed \/ broken)
       /\ panicked' = (Runs /\ broken /\ fips)
  /\ lock' = None
  /\ Drop(a)
  /\ Goto(a, IF a # "work" THEN "idle" ELSE IF failed' THEN "stop" ELSE "queue")
  /\ UNCHANGED <<file_vars, ec, health, work, read_vars>>

\* The end of the work item, with what it saw under the mutex.
Requeue ==
  /\ pc["work"] \in {"stop", "queue"}
  /\ ~panicked
  /\ work' = Requeued(pc["work"] = "stop")
  /\ Goto("work", "idle")
  /\ UNCHANGED <<file_vars, lock, ec_vars, failed, using, read_vars, panicked>>

-----------------------------------------------------------------------------

Init ==
  /\ kind \in {"file", "hwrng", "tfm", "raw"}
  /\ Slots!Init
  /\ verbose \in {FALSE, (kind \in {"tfm", "raw"})}
  /\ phase = "closed"
  /\ fips \in BOOLEAN
  /\ periodic \in {FALSE, kind # "raw"}
  /\ nonblock = FALSE
  /\ proc = FALSE
  /\ lock = None
  /\ ec = None
  /\ health = "ok"
  /\ gate = FALSE
  /\ failed = FALSE
  /\ work = "idle"
  /\ pc = [a \in Actor |-> "idle"]
  /\ using = [a \in Actor |-> None]
  /\ nb = [r \in Reader |-> FALSE]
  /\ left = [r \in Reader |-> 0]
  /\ ret = [r \in Reader |-> 0]
  /\ copied = [r \in Reader |-> 0]
  /\ spilled = [r \in Reader |-> FALSE]
  /\ panicked = FALSE
  /\ loop_cnt = 0
  /\ session = [r \in Reader |-> 0]
  /\ primed = FALSE
  /\ taken = [r \in Reader |-> 0]
  /\ stamp = None
  /\ recorded = [r \in Reader |-> {}]

\* A thread gets the mutex it waits for.
Locks(r) ==
  LockRead(r) \/ LockShow(r) \/ LockTest(r) \/ Snapshot(r) \/ LockBatch(r)

\* What a thread does on its own once it is inside.
Inside(r) ==
  \/ Iterate(r) \/ Generate(r) \/ Copy(r) \/ CopyFaults(r) \/ Return(r)
  \/ Show(r) \/ Test(r)
  \/ NextBatch(r) \/ Sample(r) \/ EndBatch(r)
  \/ \E not_copied \in 0 .. Batch : Deliver(r, not_copied)

Next ==
  \/ \E p \in Opener : Opening(p)
  \/ SetFlags \/ Release \/ Unregister \/ Cancel \/ Free
  \/ UnboundTestFails \/ Elsewhere \/ ElsewhereDone
  \/ \E c \in LoopCount : SetLoopCount(c)
  \/ \E r \in Reader : \/ Open(r) \/ OpenInterrupted(r) \/ Request(r)
                       \/ \E n \in 1 .. MaxSamples : Extract(r, n)
                       \/ ExtractInterrupted(r)
                       \/ \E n \in 1 .. MaxChunks : Read(r, n)
                       \/ Order(r) \/ Ask(r)
                       \/ LockReadFails(r) \/ AskInterrupted(r)
                       \/ Locks(r) \/ Inside(r)
  \/ Ask("procfs") \/ AskInterrupted("procfs")
  \/ LockShow("procfs") \/ Show("procfs")
  \/ Expire \/ LockTest("work") \/ Test("work") \/ Requeue

Spec == Init /\ [][Next]_vars

\* A thread in the kernel goes on, a release goes on, the workqueue runs what is
\* due; and the mutex is handed to a waiter that has waited long enough, so that
\* nobody waits for it forever.
FairSpec ==
  /\ Spec
  /\ WF_vars(Unregister) /\ WF_vars(Cancel)
  /\ WF_vars(Free) /\ WF_vars(Expire) /\ WF_vars(Requeue)
  /\ WF_vars(ElsewhereDone) /\ WF_vars(Show("procfs")) /\ WF_vars(Test("work"))
  /\ SF_vars(LockTest("work")) /\ SF_vars(LockShow("procfs"))
  /\ \A r \in Reader : WF_vars(Inside(r)) /\ SF_vars(Locks(r))

-----------------------------------------------------------------------------
(* Properties *)

\* Whoever works on a collector works on the one the context points to: no
\* recovery of jent_read_entropy_safe(), and no end of an instance - neither
\* jent_chardev_release() nor jent_hwrng_exit() nor jent_kcapi_tfm_cleanup() -
\* frees a collector that the status, a self test or another read is using.  A
\* freed context is at rest: nobody holds its mutex or is about to take it, and no
\* run of the self test is queued or executing.
NoUseAfterFree ==
  /\ \A a \in Actor :
       pc[a] \in {"generate", "sample", "show", "show_log", "test"} =>
         using[a] = ec /\ ec # None
  /\ ec = None => /\ lock \notin Actor
                  /\ work = "idle"
                  /\ \A a \in Actor : pc[a] = "idle"

\* What a read returns is what it delivered: as many chunks or samples as its
\* caller got whole, or an error if there were none - never an error that hides
\* one, and never the 0 that reads as an end of file.  jent_hwrng_read() has the
\* 0 for a caller that did not want to wait, and only for that;
\* jent_kcapi_random() has it for success, and only for that.  Bytes that reach
\* the caller without being reported are a part of the one chunk of
\* jent_chardev_read() whose copy faulted, inside what was asked for.
ReadReportsDelivered ==
  \A r \in Reader :
    pc[r] = "done" =>
      /\ CASE copied[r] > 0 -> ret[r] = IF kind = "tfm" THEN 0 ELSE copied[r]
           [] copied[r] = 0 -> \/ ret[r] < 0
                               \/ kind = "hwrng" /\ nb[r] /\ ret[r] = 0
      /\ spilled[r] => kind = "file" /\ left[r] > 0

\* "the module keeps the instance out of service rather than let a later
\* passing run bring it back": once a self test bound to the instance has
\* failed, no read of any interface generates from it, and only another instance
\* gets rid of the failure.
FailureKept ==
  [][failed /\ phase' # "closed" =>
       /\ failed'
       /\ \A r \in Reader : pc[r] = "generate" /\ pc'[r] # "generate" =>
                             pc'[r] # "copy" /\ copied'[r] = copied[r]]_vars

\* Every read, ioctl(2) and generation returns, and every end of an instance
\* does: the mutex is released on every path of every handler, and the run of
\* the self test that jent_selftest_instance_exit() waits for, which waits for
\* the mutex and queues itself again, comes to an end.
CallsReturn ==
  /\ \A r \in Reader : pc[r] # "idle" ~> pc[r] = "idle" \/ panicked
  /\ phase = "unpublish" ~> phase = "closed" \/ panicked

\* jent_proc_instance_inc() admits "exactly the free slots" while files are
\* opened, fail to open and are released, see InstanceSlots; and a file has its
\* slot as long as it has its collector, so that the limit bounds the memory
\* that the device takes.
SlotsExact ==
  /\ Slots!SlotsExact
  /\ kind = "file" /\ ec # None => opening[File] = "open"

\* "the recorded raw data must correspond exactly to" what was asked for: no
\* delta of a read of jent_testing_extract_user() spans a gap - a reschedule,
\* the copy between two batches, another reader - and all of them are measured
\* at one loop count, whatever JENT_IOCLOOPCNT sets meanwhile.
RecordingHomogeneous ==
  \A r \in Reader :
    None \notin recorded[r] /\ Cardinality(recorded[r]) <= 1
=============================================================================
