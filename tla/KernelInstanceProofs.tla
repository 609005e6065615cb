------------------------ MODULE KernelInstanceProofs ------------------------
(***************************************************************************)
(* An instance of the kernel module is safe with any number of threads     *)
(* that share it and of processes that open the device, requests of any    *)
(* length, any batch size and any limit.                                   *)
(***************************************************************************)
EXTENDS KernelInstance, FiniteSetTheorems, TLAPS

-----------------------------------------------------------------------------
(* The invariant of the context *)

\* Where an actor works on the collector.
Critical == {"generate", "sample", "show", "show_log", "test"}

Logging == {"log", "show_log"}

Sampling == {"batch", "batch_lock", "sample", "deliver"}

Label == {"idle", "iterate", "lock", "copy", "ask", "order", "snapshot", "done",
          "stop", "queue"} \cup Critical \cup Logging \cup Sampling

ContextTypes ==
  /\ kind \in {"file", "hwrng", "tfm", "raw"}
  /\ phase \in {"closed", "opening", "open", "unpublish", "unregister",
                "cancel"}
  /\ work \in {"idle", "pending", "running"}
  /\ ec \in Collector \cup {None}
  /\ {periodic, proc, failed, gate} \subseteq BOOLEAN
  /\ pc \in [Actor -> Label]
  /\ DOMAIN using = Actor

\* The mutex is held by whoever works on the collector, who works on the one
\* that the context points to.
LockShape ==
  \A a \in Actor : /\ pc[a] \in Critical <=> lock = a
                   /\ pc[a] \in Critical => using[a] = ec

\* The collector is there from the open to the free, and a failure of its self
\* test closes its gate.
PhaseShape ==
  /\ ec = None <=> phase = "closed"
  /\ phase = "closed" => work = "idle" /\ \A a \in Actor : pc[a] = "idle"
  /\ proc => phase = "open" /\ kind \in {"file", "hwrng"}
  /\ failed => gate /\ phase # "closed" /\ kind # "raw"

\* Where a thread is says which interface it came through, and how far the end
\* of the instance can have come.
ReaderAt(label) ==
  /\ label \notin {"stop", "queue"}
  /\ label \in {"iterate", "copy", "order", "test"} => kind = "file"
  /\ label \in {"lock", "generate"} => kind # "raw"
  /\ label \in Sampling \cup {"snapshot"} => kind = "raw"
  /\ label \in Logging => kind \in {"tfm", "raw"}
  /\ label # "idle" =>
       \/ phase = "open"
       \/ phase = "opening" /\ label \in Logging
       \/ phase \in {"unpublish", "unregister"} /\ kind = "hwrng"

\* Only the one that opens an instance can be there before it is open.
ReaderShape ==
  /\ \A r \in Reader : ReaderAt(pc[r])
  /\ phase = "opening" =>
       \A r, q \in Reader : pc[r] # "idle" /\ pc[q] # "idle" => r = q

\* The reader of the status file, and the work item.
OthersShape ==
  /\ pc["procfs"] \in {"idle", "ask", "show"}
  /\ pc["procfs"] # "idle" =>
       kind \in {"file", "hwrng"} /\ phase \in {"open", "unpublish"}
  /\ pc["work"] \in {"idle", "order", "test", "stop", "queue"}
  /\ pc["work"] = "idle" <=> work # "running"
  /\ work # "idle" => periodic
  /\ periodic => kind # "raw"
  /\ work = "pending" => phase # "cancel"
  /\ phase = "opening" => kind \in {"tfm", "raw"}

ContextInv ==
  ContextTypes /\ LockShape /\ PhaseShape /\ ReaderShape /\ OthersShape

-----------------------------------------------------------------------------
(* The invariant of the reads *)

Reported(r) ==
  CASE copied[r] > 0 -> ret[r] = IF kind = "tfm" THEN 0 ELSE copied[r]
    [] copied[r] = 0 -> \/ ret[r] < 0
                        \/ kind = "hwrng" /\ nb[r] /\ ret[r] = 0

ReadTypes ==
  /\ DOMAIN nb = Reader
  /\ ret \in [Reader -> Int]
  /\ left \in [Reader -> Nat]
  /\ copied \in [Reader -> Nat]
  /\ taken \in [Reader -> Nat]
  /\ session \in [Reader -> LoopCount \cup {0}]
  /\ loop_cnt \in LoopCount \cup {0}
  /\ DOMAIN recorded = Reader

\* A loop that goes on has something left or has delivered something.
ReadAt(r) ==
  /\ pc[r] \in {"idle", "ask", "show", "order", "test", "snapshot"} =>
       ret[r] = 0 /\ copied[r] = 0
  /\ pc[r] \in {"iterate", "lock", "generate", "copy"} \cup Sampling =>
       ret[r] = copied[r]
  /\ pc[r] \in {"iterate", "batch"} => left[r] > 0 \/ copied[r] > 0
  /\ pc[r] \in {"copy", "snapshot", "batch_lock", "sample", "deliver"} =>
       left[r] > 0
  /\ pc[r] \in {"lock", "generate"} =>
       IF kind = "file" THEN left[r] > 0 ELSE copied[r] = 0
  /\ pc[r] \in {"sample", "deliver"} => taken[r] <= left[r]
  /\ pc[r] = "deliver" => taken[r] > 0
  /\ pc[r] = "done" => Reported(r)
  /\ pc[r] \in Logging =>
       IF phase = "opening" THEN ret[r] = 0 /\ copied[r] = 0 ELSE Reported(r)

\* What a read has recorded was measured at the loop count of its session.
RecordAt(r) ==
  /\ recorded[r] \subseteq {session[r]}
  /\ pc[r] \notin Sampling \cup {"done"} => recorded[r] = {}
  /\ pc[r] = "sample" /\ primed => stamp = session[r]

ReadInv == ReadTypes /\ \A r \in Reader : ReadAt(r) /\ RecordAt(r)

\* A part of a chunk is with the caller only of a read of a file that ended there.
SpillInv ==
  /\ DOMAIN spilled = Reader
  /\ \A r \in Reader : spilled[r] => /\ pc[r] = "done"
                                    /\ kind = "file" /\ left[r] > 0

-----------------------------------------------------------------------------
(* The context *)

\* At the beginning there is no instance.
LEMMA ContextInitially == Init => ContextInv
<1>. SUFFICES ASSUME Init PROVE ContextInv
  BY Zenon
<1>1. ContextTypes
  BY Zenon DEF Init, ContextTypes, Label
<1>2. LockShape
  BY InstanceAssumption, Zenon DEF Init, LockShape, Critical
<1>3. PhaseShape
  BY Zenon DEF Init, PhaseShape
<1>4. ReaderShape
  BY Zenon DEF Init, ReaderShape, ReaderAt, Logging, Sampling, Actor
<1>5. OthersShape
  BY Zenon DEF Init, OthersShape, Actor
<1>. QED
  BY <1>1, <1>2, <1>3, <1>4, <1>5, Zenon DEF ContextInv

\* A thread goes on without the mutex.
LEMMA WalkKeeps ==
  ASSUME ContextInv, NEW r \in Reader, NEW label \in Label \ Critical,
         pc[r] \notin Critical, Goto(r, label), ReaderAt(label),
         phase = "opening" => label = "idle" \/ pc[r] # "idle",
         UNCHANGED <<kind, phase, periodic, proc, lock, ec, using, failed, gate,
                     work>>
  PROVE  ContextInv'
<1>. USE DEF ContextInv
<1>1. r \in Actor /\ r # "procfs" /\ r # "work"
  BY InstanceAssumption, Zenon DEF Actor
<1>2. pc'[r] = label /\ \A a \in Actor \ {r} : pc'[a] = pc[a]
  BY <1>1, Zenon DEF ContextTypes, Goto
<1>3. ContextTypes'
  BY <1>1, Zenon DEF ContextTypes, Goto
<1>4. LockShape'
  BY <1>1, <1>2, Zenon DEF LockShape
<1>5. PhaseShape'
  BY <1>1, <1>2, Zenon DEF PhaseShape, ReaderAt
<1>6. ReaderShape'
  <2>1. \A q \in Reader : ReaderAt(pc'[q])
    BY <1>2, Zenon DEF ReaderShape, Actor
  <2>2. phase = "opening" =>
          \A s, q \in Reader : pc'[s] # "idle" /\ pc'[q] # "idle" => s = q
    BY <1>2, Zenon DEF ReaderShape, Actor
  <2>. QED
    BY <2>1, <2>2, Zenon DEF ReaderShape, ReaderAt
<1>7. OthersShape'
  BY <1>1, <1>2, Zenon DEF OthersShape, Actor
<1>. QED
  BY <1>3, <1>4, <1>5, <1>6, <1>7, Zenon

\* An actor gets the mutex and loads the pointer.
LEMMA TakeKeeps ==
  ASSUME ContextInv, NEW a \in Actor, NEW label \in Critical,
         lock = None, lock' = a, using' = [using EXCEPT ![a] = ec],
         pc[a] # "idle", Goto(a, label),
         a \in Reader => ReaderAt(label),
         a = "procfs" => label = "show",
         a = "work" => label = "test",
         UNCHANGED <<kind, phase, periodic, proc, ec, failed, gate, work>>
  PROVE  ContextInv'
<1>. USE DEF ContextInv
<1>1. pc'[a] = label /\ \A b \in Actor \ {a} : pc'[b] = pc[b]
  BY Zenon DEF ContextTypes, Goto
<1>2. using'[a] = ec /\ \A b \in Actor \ {a} : using'[b] = using[b]
  BY Zenon DEF ContextTypes
<1>3. ContextTypes'
  BY Zenon DEF ContextTypes, Goto, Label
<1>4. LockShape'
  <2>1. \A b \in Actor : b # None
    BY InstanceAssumption, Zenon
  <2>. QED
    BY <1>1, <1>2, <2>1, Zenon DEF LockShape
<1>5. PhaseShape'
  BY <1>1, Zenon DEF PhaseShape
<1>6. ReaderShape'
  <2>1. \A q \in Reader : ReaderAt(pc'[q])
    BY <1>1, Zenon DEF ReaderShape, Actor
  <2>2. phase = "opening" =>
          \A s, q \in Reader : pc'[s] # "idle" /\ pc'[q] # "idle" => s = q
    BY <1>1, Zenon DEF ReaderShape, Actor
  <2>. QED
    BY <2>1, <2>2, Zenon DEF ReaderShape, ReaderAt
<1>7. OthersShape'
  BY <1>1 DEF OthersShape, Actor, Critical
<1>. QED
  BY <1>3, <1>4, <1>5, <1>6, <1>7, Zenon

\* It lets go of both; a read may have replaced the collector meanwhile, a self
\* test may have closed the gate.
LEMMA DropKeeps ==
  ASSUME ContextInv, NEW a \in Actor, NEW label \in Label \ Critical,
         pc[a] \in Critical, lock' = None, Drop(a), Goto(a, label),
         a \in Reader => ReaderAt(label),
         a = "procfs" => label = "idle",
         a = "work" => label \in {"stop", "queue"},
         ec' \in Collector,
         {failed', gate'} \subseteq BOOLEAN,
         failed' => gate' /\ kind # "raw",
         UNCHANGED <<kind, phase, periodic, proc, work>>
  PROVE  ContextInv'
<1>. USE DEF ContextInv
<1>1. pc'[a] = label /\ \A b \in Actor \ {a} : pc'[b] = pc[b]
  BY Zenon DEF ContextTypes, Goto
<1>2. lock = a /\ \A b \in Actor \ {a} : pc[b] \notin Critical
  BY Zenon DEF LockShape
<1>3. pc[a] # "idle" /\ phase # "closed"
  BY Zenon DEF PhaseShape, Critical
<1>4. ContextTypes'
  BY Zenon DEF ContextTypes, Goto, Drop
<1>5. LockShape'
  <2>1. \A b \in Actor : b # None
    BY InstanceAssumption, Zenon
  <2>. QED
    BY <1>1, <1>2, <2>1, Zenon DEF LockShape
<1>6. PhaseShape'
  <2>1. ec # None /\ ec' # None
    BY <1>3, InstanceAssumption, Zenon DEF PhaseShape
  <2>. QED
    BY <1>3, <2>1, Zenon DEF PhaseShape
<1>7. ReaderShape'
  <2>1. \A q \in Reader : ReaderAt(pc'[q])
    BY <1>1, Zenon DEF ReaderShape, Actor
  <2>2. phase = "opening" =>
          \A s, q \in Reader : pc'[s] # "idle" /\ pc'[q] # "idle" => s = q
    BY <1>1, <1>3, Zenon DEF ReaderShape, Actor
  <2>. QED
    BY <2>1, <2>2, Zenon DEF ReaderShape, ReaderAt
<1>8. OthersShape'
  BY <1>1, <1>3, Zenon DEF OthersShape, Actor, Critical
<1>. QED
  BY <1>4, <1>5, <1>6, <1>7, <1>8, Zenon

\* Somebody who is not an actor of this instance steps.
LEMMA StillKeeps ==
  ASSUME ContextInv, lock' = lock \/ {lock, lock'} \subseteq {None, "elsewhere"},
         UNCHANGED <<kind, phase, periodic, proc, ec, failed, gate, work, pc,
                     using>>
  PROVE  ContextInv'
<1>. USE DEF ContextInv
<1>1. LockShape'
  BY InstanceAssumption, Zenon DEF LockShape, Actor
<1>2. ContextTypes' /\ PhaseShape' /\ OthersShape'
  BY Zenon DEF ContextTypes, PhaseShape, OthersShape
<1>3. ReaderShape'
  BY Zenon DEF ReaderShape, ReaderAt
<1>. QED
  BY <1>1, <1>2, <1>3, Zenon

\* An instance is opened by a thread that may stay for the log.
LEMMA OpenKeeps ==
  ASSUME ContextInv, NEW r \in Reader, Open(r)
  PROVE  ContextInv'
<1>. USE DEF ContextInv
<1>1. PICK limited \in BOOLEAN :
        /\ phase' = IF Logs(limited) THEN "opening" ELSE "open"
        /\ Goto(r, IF Logs(limited) THEN "log" ELSE "idle")
  BY Zenon DEF Open
<1>2. /\ phase = "closed" /\ work = "idle" /\ \A a \in Actor : pc[a] = "idle"
      /\ proc' \in {FALSE, (kind \in {"file", "hwrng"})}
      /\ ec' = 1 /\ gate' = FALSE /\ failed' = FALSE
      /\ work' = IF periodic THEN "pending" ELSE "idle"
      /\ UNCHANGED <<kind, periodic, lock, using>>
  BY Zenon DEF Open, PhaseShape, boot_vars
<1>3. r \in Actor /\ r # "procfs" /\ r # "work"
  BY InstanceAssumption, Zenon DEF Actor
<1>. DEFINE label == IF Logs(limited) THEN "log" ELSE "idle"
<1>4. pc'[r] = label /\ \A a \in Actor \ {r} : pc'[a] = "idle"
  BY <1>1, <1>2, <1>3, Zenon DEF ContextTypes, Goto
<1>5. Logs(limited) => kind \in {"tfm", "raw"}
  BY Zenon DEF Logs
<1>6. proc' \in BOOLEAN /\ (proc' => kind \in {"file", "hwrng"})
  <2>1. proc' = FALSE \/ proc' = (kind \in {"file", "hwrng"})
    BY <1>2, Zenon
  <2>2. CASE proc' = FALSE
    BY <2>2, Zenon
  <2>3. CASE proc' = (kind \in {"file", "hwrng"})
    <3>1. proc' \in BOOLEAN
      BY <2>3
    <3>2. proc' => kind \in {"file", "hwrng"}
      BY <2>3, Zenon
    <3>. QED
      BY <3>1, <3>2, Zenon
  <2>. QED
    BY <2>1, <2>2, <2>3, Zenon
<1>7. ContextTypes'
  BY <1>1, <1>2, <1>6, Zenon DEF ContextTypes, Goto, Label, Collector, Logging
<1>8. LockShape'
  <2>1. \A a \in Actor : lock # a
    BY <1>2, Zenon DEF LockShape, Critical
  <2>. QED
    BY <1>2, <1>3, <1>4, <2>1, Zenon DEF LockShape, Critical
<1>9. PhaseShape'
  <2>1. ec' # None
    BY <1>2, InstanceAssumption, Zenon DEF Collector
  <2>. QED
    BY <1>1, <1>2, <1>5, <1>6, <2>1, Zenon DEF PhaseShape
<1>10. ReaderShape'
  <2>1. \A q \in Reader : ReaderAt(pc[q])'
    BY <1>1, <1>2, <1>4, <1>5, Zenon DEF ReaderAt, Actor, Logging, Sampling
  <2>. QED
    BY <1>4, <2>1, Zenon DEF ReaderShape, Actor
<1>11. OthersShape'
  BY <1>1, <1>2, <1>3, <1>4, <1>5, Zenon DEF OthersShape, Actor
<1>. QED
  BY <1>7, <1>8, <1>9, <1>10, <1>11, Zenon

\* An interrupted open of the test interface leaves nobody behind.
LEMMA OpenInterruptedKeeps ==
  ASSUME ContextInv, NEW r \in Reader, OpenInterrupted(r)
  PROVE  ContextInv'
<1>. USE DEF ContextInv
<1>1. /\ kind = "raw" /\ phase = "opening" /\ pc[r] = "log"
      /\ phase' = "closed" /\ ec' = None /\ Goto(r, "idle")
      /\ UNCHANGED <<kind, periodic, proc, lock, gate, failed, work, using>>
  BY Zenon DEF OpenInterrupted, boot_vars
<1>2. r \in Actor /\ r # "procfs" /\ r # "work"
  BY InstanceAssumption, Zenon DEF Actor
<1>3. pc'[r] = "idle" /\ \A a \in Actor \ {r} : pc'[a] = pc[a]
  BY <1>1, <1>2, Zenon DEF ContextTypes, Goto
<1>4. work = "idle" /\ pc["work"] = "idle" /\ pc["procfs"] = "idle"
  BY <1>1, Zenon DEF OthersShape
<1>5. \A a \in Actor : pc'[a] = "idle"
  BY <1>1, <1>3, <1>4, Zenon DEF ReaderShape, Actor
<1>6. ContextTypes'
  BY <1>1, <1>2, Zenon DEF ContextTypes, Goto, Label
<1>7. LockShape'
  <2>1. \A a \in Actor : lock # a
    BY <1>1, <1>3, <1>5, Zenon DEF LockShape, Critical
  <2>. QED
    BY <1>1, <1>5, <2>1, Zenon DEF LockShape, Critical
<1>8. PhaseShape'
  BY <1>1, <1>4, <1>5, Zenon DEF PhaseShape
<1>9. ReaderShape'
  <2>1. \A q \in Reader : ReaderAt(pc[q])'
    BY <1>5, Zenon DEF ReaderAt, Actor, Logging, Sampling
  <2>. QED
    BY <1>1, <2>1, Zenon DEF ReaderShape
<1>10. OthersShape'
  BY <1>1, <1>4, <1>5, Zenon DEF OthersShape, Actor
<1>. QED
  BY <1>6, <1>7, <1>8, <1>9, <1>10, Zenon

\* The end of an instance, step by step.
LEMMA EndKeeps ==
  ASSUME ContextInv, Release \/ Unregister \/ Cancel
  PROVE  ContextInv'
<1>. USE DEF ContextInv
<1>1. UNCHANGED <<kind, periodic, lock, ec, gate, failed, pc, using>>
  BY Zenon DEF Release, Unregister, Cancel, boot_vars, ec_vars
<1>2. \/ /\ phase = "open" /\ phase' = "unpublish" /\ proc' = FALSE
         /\ kind # "hwrng" => \A r \in Reader : pc[r] = "idle"
         /\ UNCHANGED work
      \/ /\ phase = "unpublish" /\ phase' = "unregister" /\ UNCHANGED proc
         /\ pc["procfs"] = "idle"
         /\ UNCHANGED work
      \/ /\ phase = "unregister" /\ phase' = "cancel" /\ UNCHANGED proc
         /\ \A r \in Reader : pc[r] = "idle"
         /\ work' = IF work = "pending" THEN "idle" ELSE work
  BY Zenon DEF Release, Unregister, Cancel, ReadersGone
<1>3. ContextTypes'
  BY <1>1, <1>2, Zenon DEF ContextTypes
<1>4. LockShape'
  BY <1>1, Zenon DEF LockShape
<1>5. PhaseShape'
  BY <1>1, <1>2 DEF PhaseShape
<1>6. ReaderShape'
  <2>1. \A q \in Reader : ReaderAt(pc[q])'
    <3>. TAKE q \in Reader
    <3>1. ReaderAt(pc[q])
      BY Zenon DEF ReaderShape
    <3>2. kind # "hwrng" => pc[q] = "idle"
      BY <1>2, <3>1, Zenon DEF ReaderAt
    <3>3. phase' = "cancel" => pc[q] = "idle"
      BY <1>2, Zenon
    <3>. QED
      BY <1>1, <1>2, <3>1, <3>2, <3>3, Zenon DEF ReaderAt
  <2>. QED
    BY <1>2, <2>1, Zenon DEF ReaderShape
<1>7. OthersShape'
  BY <1>1, <1>2, Zenon DEF OthersShape
<1>. QED
  BY <1>3, <1>4, <1>5, <1>6, <1>7, Zenon

\* Freeing the context keeps its invariant.
LEMMA FreeKeeps ==
  ASSUME ContextInv, Free
  PROVE  ContextInv'
<1>. USE DEF ContextInv
<1>1. /\ phase = "cancel" /\ phase' = "closed" /\ ec' = None /\ work = "idle"
      /\ gate' = FALSE /\ failed' = FALSE
      /\ UNCHANGED <<kind, periodic, proc, lock, work, pc, using>>
  BY Zenon DEF Free, WorkStopped, boot_vars
<1>2. \A a \in Actor : pc[a] = "idle"
  BY <1>1, Zenon DEF ReaderShape, ReaderAt, OthersShape, Actor
<1>3. ContextTypes'
  BY <1>1, Zenon DEF ContextTypes
<1>4. LockShape'
  BY <1>1, <1>2, Zenon DEF LockShape, Critical
<1>5. PhaseShape'
  BY <1>1, <1>2, Zenon DEF PhaseShape
<1>6. ReaderShape'
  <2>1. \A q \in Reader : ReaderAt(pc[q])'
    BY <1>1, <1>2, Zenon DEF ReaderAt, Actor, Logging, Sampling
  <2>. QED
    BY <1>1, <2>1, Zenon DEF ReaderShape
<1>7. OthersShape'
  BY <1>1, Zenon DEF OthersShape
<1>. QED
  BY <1>3, <1>4, <1>5, <1>6, <1>7, Zenon

\* The work item starts when its time has come, and ends after its run.
LEMMA WorkKeeps ==
  ASSUME ContextInv, Expire \/ Requeue
  PROVE  ContextInv'
<1>. USE DEF ContextInv
<1>1. UNCHANGED <<kind, phase, periodic, proc, lock, ec, gate, failed, using>>
  BY Zenon DEF Expire, Requeue, file_vars, boot_vars, ec_vars
<1>2. \/ work = "pending" /\ work' = "running" /\ Goto("work", "order")
      \/ /\ pc["work"] \in {"stop", "queue"}
         /\ work' \in {"idle", "pending"}
         /\ work' = "pending" => phase # "cancel"
         /\ Goto("work", "idle")
  BY Zenon DEF Expire, Requeue, Requeued
<1>3. "work" \in Actor /\ "work" # "procfs" /\ "work" \notin Reader
  BY InstanceAssumption, Zenon DEF Actor
<1>4. /\ \A a \in Actor \ {"work"} : pc'[a] = pc[a]
      /\ pc'["work"] = IF work' = "running" THEN "order" ELSE "idle"
  BY <1>2, <1>3, Zenon DEF ContextTypes, Goto
<1>5. pc["work"] \notin Critical /\ phase # "closed"
  BY <1>2, <1>3, Zenon DEF OthersShape, PhaseShape, Critical
<1>6. ContextTypes'
  BY <1>1, <1>2, Zenon DEF ContextTypes, Goto, Label
<1>7. LockShape'
  BY <1>1, <1>3, <1>4, <1>5, Zenon DEF LockShape, Critical
<1>8. PhaseShape'
  BY <1>1, <1>5, Zenon DEF PhaseShape
<1>9. ReaderShape'
  <2>1. \A q \in Reader : pc'[q] = pc[q]
    BY <1>3, <1>4, Zenon DEF Actor
  <2>. QED
    BY <1>1, <2>1, Zenon DEF ReaderShape, ReaderAt
<1>10. OthersShape'
  <2>1. pc'["procfs"] = pc["procfs"]
    BY <1>4, Zenon DEF Actor
  <2>2. work # "idle"
    BY <1>2, Zenon DEF OthersShape
  <2>. QED
    BY <1>1, <1>2, <1>4, <2>1, <2>2, Zenon DEF OthersShape
<1>. QED
  BY <1>6, <1>7, <1>8, <1>9, <1>10, Zenon

\* The log at the end of an open is the last of it.
LEMMA ShowKeeps ==
  ASSUME ContextInv, NEW a \in Reader \cup {"procfs"}, Show(a)
  PROVE  ContextInv'
<1>. USE DEF ContextInv
<1>1. /\ pc[a] \in {"show", "show_log"} /\ lock' = None /\ Drop(a)
      /\ phase' = IF phase = "opening" THEN "open" ELSE phase
      /\ Goto(a, IF pc[a] = "show" \/ phase = "opening" THEN "idle" ELSE "done")
      /\ UNCHANGED <<kind, periodic, proc, ec, failed, gate, work>>
  BY Zenon DEF Show, boot_vars, ec_vars
<1>2. a \in Actor /\ a # "work" /\ (a = "procfs" => a \notin Reader)
  BY InstanceAssumption, Zenon DEF Actor
<1>3. a \in Reader => ReaderAt(pc[a])
  BY Zenon DEF ReaderShape
<1>4. pc[a] \in Critical /\ phase # "closed" /\ ec \in Collector
  BY <1>1, <1>2, Zenon DEF Critical, PhaseShape, ContextTypes
<1>5. CASE phase # "opening"
  <2>. DEFINE label == IF pc[a] = "show" \/ phase = "opening" THEN "idle" ELSE "done"
  <2>1. /\ label \in Label \ Critical
        /\ a \in Reader => ReaderAt(label)
        /\ a = "procfs" => label = "idle"
    BY <1>1, <1>2, <1>3, <1>5, Zenon DEF ReaderAt, OthersShape, Label,
       Critical, Logging, Sampling
  <2>2. {failed', gate'} \subseteq BOOLEAN /\ (failed' => gate' /\ kind # "raw")
    BY <1>1, Zenon DEF ContextTypes, PhaseShape
  <2>3. UNCHANGED phase
    BY <1>1, <1>5, Zenon
  <2>. HIDE DEF label
  <2>4. Goto(a, label)
    BY <1>1, Zenon DEF label
  <2>. QED
    BY <1>1, <1>2, <1>4, <2>1, <2>2, <2>3, <2>4, DropKeeps, Zenon
<1>6. CASE phase = "opening"
  <2>1. a \in Reader
    BY <1>2, <1>4, <1>6, Zenon DEF OthersShape, Critical
  <2>2. pc'[a] = "idle" /\ \A b \in Actor \ {a} : pc'[b] = pc[b]
    BY <1>1, <1>2, <1>6, Zenon DEF ContextTypes, Goto
  <2>3. \A q \in Reader : pc'[q] = "idle"
    BY <1>4, <1>6, <2>1, <2>2, Zenon DEF ReaderShape, Critical, Actor
  <2>4. ContextTypes'
    BY <1>1, <1>2, Zenon DEF ContextTypes, Goto, Drop, Label
  <2>5. LockShape'
    <3>1. \A b \in Actor : b # None
      BY InstanceAssumption, Zenon
    <3>2. \A b \in Actor \ {a} : pc[b] \notin Critical
      BY <1>2, <1>4, Zenon DEF LockShape
    <3>3. "idle" \notin Critical
      BY Zenon DEF Critical
    <3>. QED
      BY <1>1, <2>2, <3>1, <3>2, <3>3, Zenon DEF LockShape
  <2>6. PhaseShape'
    BY <1>1, <1>4, <1>6, Zenon DEF PhaseShape
  <2>7. ReaderShape'
    <3>1. \A q \in Reader : ReaderAt(pc[q])'
      BY <2>3, Zenon DEF ReaderAt, Logging, Sampling
    <3>. QED
      BY <2>3, <3>1, Zenon DEF ReaderShape
  <2>8. OthersShape'
    BY <1>1, <1>2, <1>6, <2>1, <2>2, Zenon DEF OthersShape, Actor
  <2>. QED
    BY <2>4, <2>5, <2>6, <2>7, <2>8, Zenon
<1>. QED
  BY <1>5, <1>6, Zenon

\* A read of the collector, which may be another one afterwards.
LEMMA GenerateKeeps ==
  ASSUME ContextInv, NEW r \in Reader, Generate(r)
  PROVE  ContextInv'
<1>1. PICK o \in Outcome(r), limited \in BOOLEAN :
        /\ ec' = o[1]
        /\ lock' = Unlock(o[3])
        /\ Goto(r, IF Logs(limited) /\ o[1] # using[r] THEN "log"
                   ELSE IF kind = "file" /\ o[3] = "ok" THEN "copy" ELSE "done")
  BY Zenon DEF Generate
<1>2. /\ pc[r] = "generate" /\ Drop(r)
      /\ UNCHANGED <<kind, phase, periodic, proc, failed, gate, work>>
  BY Zenon DEF Generate, file_vars, boot_vars
<1>3. r \in Actor /\ r # "procfs" /\ r # "work"
  BY InstanceAssumption, Zenon DEF Actor
<1>4. pc[r] \in Critical /\ phase # "closed" /\ ec \in Collector
  BY <1>2, <1>3, Zenon DEF Critical, ContextInv, PhaseShape, ContextTypes
<1>5. ec' \in Collector
  BY <1>1, <1>4 DEF Outcome
<1>6. {failed', gate'} \subseteq BOOLEAN /\ (failed' => gate' /\ kind # "raw")
  BY <1>2, Zenon DEF ContextInv, ContextTypes, PhaseShape
<1>7. ReaderAt(pc[r])
  BY Zenon DEF ContextInv, ReaderShape
<1>. DEFINE label == IF Logs(limited) /\ o[1] # using[r] THEN "log"
                     ELSE IF kind = "file" /\ o[3] = "ok" THEN "copy" ELSE "done"
<1>8. label \in Label \ Critical /\ ReaderAt(label)
  BY <1>2, <1>7, Zenon DEF ReaderAt, Logs, Label, Critical, Logging, Sampling
<1>9. Goto(r, label)
  BY <1>1, Zenon
<1>. HIDE DEF label
<1>. QED
  BY <1>1, <1>2, <1>3, <1>4, <1>5, <1>6, <1>8, <1>9, DropKeeps, Zenon DEF
     Unlock

\* The end of a batch.
LEMMA EndBatchKeeps ==
  ASSUME ContextInv, NEW r \in Reader, EndBatch(r)
  PROVE  ContextInv'
<1>1. /\ pc[r] = "sample" /\ lock' = None /\ Drop(r)
      /\ UNCHANGED <<kind, phase, periodic, proc, ec, failed, gate, work>>
  BY Zenon DEF EndBatch, file_vars, boot_vars, ec_vars
<1>2. PICK label \in {"deliver", "done"} : Goto(r, label)
  BY Zenon DEF EndBatch
<1>3. r \in Actor /\ r # "procfs" /\ r # "work"
  BY InstanceAssumption, Zenon DEF Actor
<1>4. pc[r] \in Critical /\ phase # "closed" /\ ec' \in Collector
  BY <1>1, <1>3, Zenon DEF Critical, ContextInv, PhaseShape, ContextTypes
<1>5. {failed', gate'} \subseteq BOOLEAN /\ (failed' => gate' /\ kind # "raw")
  BY <1>1, Zenon DEF ContextInv, ContextTypes, PhaseShape
<1>6. ReaderAt(pc[r])
  BY Zenon DEF ContextInv, ReaderShape
<1>7. label \in Label \ Critical /\ ReaderAt(label)
  BY <1>1, <1>2, <1>6, Zenon DEF ReaderAt, Label, Critical, Logging, Sampling
<1>. QED
  BY <1>1, <1>2, <1>3, <1>4, <1>5, <1>7, DropKeeps, Zenon

\* A run of the self test: a failure is kept by both the module and the gate.
LEMMA TestKeeps ==
  ASSUME ContextInv, NEW a \in Reader \cup {"work"}, Test(a)
  PROVE  ContextInv'
<1>1. /\ pc[a] = "test" /\ lock' = None /\ Drop(a)
      /\ Goto(a, IF a # "work" THEN "idle" ELSE IF failed' THEN "stop" ELSE "queue")
      /\ UNCHANGED <<kind, phase, periodic, proc, ec, work>>
  BY Zenon DEF Test, file_vars, boot_vars
<1>2. PICK broken \in BOOLEAN : /\ gate' = IF Runs THEN broken ELSE gate
                                /\ failed' = (failed \/ broken)
                                /\ ~Runs => broken
  BY Zenon DEF Test
<1>3. a \in Actor /\ a # "procfs" /\ (a = "work" => a \notin Reader)
  BY InstanceAssumption, Zenon DEF Actor
<1>4. pc[a] \in Critical /\ phase # "closed" /\ ec' \in Collector
  BY <1>1, <1>3, Zenon DEF Critical, ContextInv, PhaseShape, ContextTypes
<1>5. kind # "raw"
  <2>1. CASE a \in Reader
    BY <1>1, <2>1, Zenon DEF ContextInv, ReaderShape, ReaderAt
  <2>2. CASE a = "work"
    BY <1>1, <2>2, Zenon DEF ContextInv, OthersShape
  <2>. QED
    BY <2>1, <2>2, Zenon
<1>6. {failed', gate'} \subseteq BOOLEAN /\ (failed' => gate')
  <2>1. {failed, gate} \subseteq BOOLEAN /\ (failed => gate)
    BY Zenon DEF ContextInv, ContextTypes, PhaseShape
  <2>. QED
    BY <1>2, <2>1, Zenon DEF Runs
<1>7. PICK label \in {"idle", "stop", "queue"} :
        /\ Goto(a, label)
        /\ a # "work" => label = "idle"
        /\ a = "work" => label \in {"stop", "queue"}
  BY <1>1, Zenon
<1>8. label \in Label \ Critical /\ ReaderAt("idle")
  BY Zenon DEF ReaderAt, Label, Critical, Logging, Sampling
<1>. QED
  BY <1>1, <1>3, <1>4, <1>5, <1>6, <1>7, <1>8, DropKeeps, Zenon

\* The ways to the mutex.
LEMMA LocksKeep ==
  ASSUME ContextInv, NEW a \in Actor,
         \/ a \in Reader /\ (LockRead(a) \/ LockBatch(a))
         \/ a # "work" /\ LockShow(a)
         \/ a # "procfs" /\ LockTest(a)
  PROVE  ContextInv'
<1>1. /\ lock = None /\ lock' = a /\ using' = [using EXCEPT ![a] = ec]
      /\ UNCHANGED <<kind, phase, periodic, proc, ec, failed, gate, work>>
  BY Zenon DEF LockRead, LockBatch, LockShow, LockTest, MayLoad, file_vars,
     boot_vars, ec_vars
<1>2. PICK label \in Critical :
        /\ Goto(a, label)
        /\ \/ a \in Reader /\ pc[a] = "lock" /\ label = "generate"
           \/ a \in Reader /\ pc[a] = "batch_lock" /\ label = "sample"
           \/ a # "work" /\ pc[a] = "ask" /\ label = "show"
           \/ a # "work" /\ pc[a] = "log" /\ label = "show_log"
           \/ a # "procfs" /\ pc[a] = "order" /\ label = "test"
  BY Zenon DEF LockRead, LockBatch, LockShow, LockTest, Critical
<1>3. a \in Reader => ReaderAt(label)
  <2>. SUFFICES ASSUME a \in Reader PROVE ReaderAt(label)
    BY Zenon
  <2>1. ReaderAt(pc[a])
    BY Zenon DEF ContextInv, ReaderShape
  <2>. QED
    BY <1>2, <2>1, Zenon DEF ReaderAt, Logging, Sampling
<1>4. a = "procfs" => label = "show"
  BY <1>2, InstanceAssumption, Zenon DEF ContextInv, OthersShape
<1>5. a = "work" => label = "test"
  BY <1>2, InstanceAssumption, Zenon
<1>6. pc[a] # "idle"
  BY <1>2, Zenon
<1>. QED
  BY <1>1, <1>2, <1>3, <1>4, <1>5, <1>6, TakeKeeps, Zenon

\* The steps of a thread of its own that leave mutex and context alone.
Walks(r) ==
  \/ \E n \in 1 .. MaxChunks : Read(r, n)
  \/ \E n \in 1 .. MaxSamples : Extract(r, n)
  \/ \E not_copied \in 0 .. Batch : Deliver(r, not_copied)
  \/ Request(r) \/ Iterate(r) \/ LockReadFails(r) \/ Copy(r) \/ CopyFaults(r)
  \/ Return(r) \/ Ask(r) \/ AskInterrupted(r) \/ Snapshot(r) \/ NextBatch(r)
  \/ ExtractInterrupted(r) \/ Order(r)

\* So do the steps of a reader that only move the reader on.
LEMMA WalksKeep ==
  ASSUME ContextInv, NEW r \in Reader, Walks(r)
  PROVE  ContextInv'
<1>1. UNCHANGED <<kind, phase, periodic, proc, lock, ec, using, failed, gate, work>>
  BY Zenon DEF Walks, Read, Extract, Deliver, Request, Iterate, LockReadFails,
     Copy, CopyFaults, Return, Ask, AskInterrupted, Snapshot, NextBatch,
     ExtractInterrupted, Order, file_vars, boot_vars, ec_vars
<1>2. r # "procfs"
  BY InstanceAssumption, Zenon
<1>3. PICK label : /\ Goto(r, label)
                   /\ \/ /\ pc[r] = "idle" /\ label = "iterate"
                         /\ kind = "file" /\ phase = "open"
                      \/ /\ pc[r] = "idle" /\ label = "snapshot"
                         /\ kind = "raw" /\ phase = "open"
                      \/ /\ pc[r] = "idle" /\ label = "lock"
                         /\ \/ kind = "hwrng" /\ phase \in {"open", "unpublish"}
                            \/ kind = "tfm" /\ phase = "open"
                      \/ /\ pc[r] = "idle" /\ label = "ask" /\ phase = "open"
                      \/ /\ pc[r] = "idle" /\ label = "order"
                         /\ kind = "file" /\ phase = "open"
                      \/ pc[r] = "deliver" /\ label \in {"batch", "done"}
                      \/ pc[r] = "iterate" /\ label \in {"lock", "done"}
                      \/ pc[r] = "lock" /\ label = "done"
                      \/ pc[r] = "copy" /\ label \in {"iterate", "done"}
                      \/ pc[r] = "done" /\ label = "idle"
                      \/ pc[r] \in {"ask", "order"} /\ label = "idle"
                      \/ pc[r] = "snapshot" /\ label \in {"batch", "done"}
                      \/ pc[r] = "batch" /\ label \in {"batch_lock", "done"}
                      \/ pc[r] = "batch_lock" /\ label = "done"
  BY <1>2, Zenon DEF Walks, Read, Extract, Deliver, Request, Iterate,
     LockReadFails, Copy, CopyFaults, Return, Ask, AskInterrupted, Snapshot,
     NextBatch, ExtractInterrupted, Order
<1>4. ReaderAt(pc[r])
  BY Zenon DEF ContextInv, ReaderShape
<1>5. /\ label \in Label \ Critical /\ pc[r] \notin Critical
      /\ phase = "opening" => label = "idle" \/ pc[r] # "idle"
  BY <1>3, Zenon DEF Label, Critical, Logging, Sampling
<1>6. ReaderAt(label)
  BY <1>3, <1>4, Zenon DEF ReaderAt, Logging, Sampling
<1>. QED
  BY <1>1, <1>3, <1>5, <1>6, WalkKeeps, Zenon

\* The reader of the status file comes only to an instance that is published.
LEMMA ProcfsKeeps ==
  ASSUME ContextInv, Ask("procfs") \/ AskInterrupted("procfs")
  PROVE  ContextInv'
<1>. USE DEF ContextInv
<1>1. UNCHANGED <<kind, phase, periodic, proc, lock, ec, using, failed, gate, work>>
  BY Zenon DEF Ask, AskInterrupted, file_vars, boot_vars, ec_vars
<1>2. "procfs" \in Actor /\ "procfs" \notin Reader /\ "work" # "procfs"
  BY InstanceAssumption, Zenon DEF Actor
<1>3. PICK label \in {"ask", "idle"} :
        /\ Goto("procfs", label)
        /\ label = "ask" => proc
        /\ pc["procfs"] \in {"idle", "ask", "order"}
        /\ label = "idle" => pc["procfs"] # "idle"
  BY <1>2, Zenon DEF Ask, AskInterrupted
<1>4. pc'["procfs"] = label /\ \A a \in Actor \ {"procfs"} : pc'[a] = pc[a]
  BY <1>2, <1>3, Zenon DEF ContextTypes, Goto
<1>5. phase # "closed"
  BY <1>2, <1>3, Zenon DEF PhaseShape
<1>6. ContextTypes'
  BY <1>1, <1>3, Zenon DEF ContextTypes, Goto, Label
<1>7. LockShape'
  BY <1>1, <1>2, <1>3, <1>4, Zenon DEF LockShape, Critical
<1>8. PhaseShape'
  BY <1>1, <1>5, Zenon DEF PhaseShape
<1>9. ReaderShape'
  <2>1. \A q \in Reader : pc'[q] = pc[q]
    BY <1>2, <1>4, Zenon DEF Actor
  <2>. QED
    BY <1>1, <2>1, Zenon DEF ReaderShape, ReaderAt
<1>10. OthersShape'
  <2>1. pc'["work"] = pc["work"]
    BY <1>2, <1>4, Zenon DEF Actor
  <2>2. label = "ask" => kind \in {"file", "hwrng"} /\ phase = "open"
    BY <1>3, Zenon DEF PhaseShape
  <2>. QED
    BY <1>1, <1>4, <2>1, <2>2, Zenon DEF OthersShape
<1>. QED
  BY <1>6, <1>7, <1>8, <1>9, <1>10, Zenon

\* Every step keeps the invariant of the context.
LEMMA ContextPreserved == ContextInv /\ [Next]_vars => ContextInv'
<1>. SUFFICES ASSUME ContextInv, [Next]_vars PROVE ContextInv'
  BY Zenon
<1>1. ASSUME \/ \E p \in Opener : Opening(p)
             \/ SetFlags \/ UnboundTestFails \/ Elsewhere \/ ElsewhereDone
             \/ \E c \in LoopCount : SetLoopCount(c)
             \/ \E r \in Reader : Sample(r)
             \/ UNCHANGED vars
      PROVE  ContextInv'
  <2>1. UNCHANGED <<kind, phase, periodic, proc, ec, failed, gate, work, pc, using>>
    BY <1>1, Zenon DEF Opening, SetFlags, UnboundTestFails, Elsewhere,
       ElsewhereDone, SetLoopCount, Sample, vars, file_vars, boot_vars, ec_vars
  <2>2. lock' = lock \/ {lock, lock'} \subseteq {None, "elsewhere"}
    BY <1>1, Zenon DEF Opening, SetFlags, UnboundTestFails, Elsewhere,
       ElsewhereDone, SetLoopCount, Sample, vars
  <2>. QED
    BY <2>1, <2>2, StillKeeps, Zenon
<1>2. ASSUME Release \/ Unregister \/ Cancel \/ Free \/ Expire \/ Requeue
      PROVE  ContextInv'
  BY <1>2, EndKeeps, FreeKeeps, WorkKeeps, Zenon
<1>3. ASSUME NEW r \in Reader, Open(r) \/ OpenInterrupted(r)
      PROVE  ContextInv'
  BY <1>3, OpenKeeps, OpenInterruptedKeeps, Zenon
<1>4. ASSUME NEW r \in Reader, Walks(r)
      PROVE  ContextInv'
  BY <1>4, WalksKeep, Zenon
<1>5. ASSUME NEW r \in Reader,
             LockRead(r) \/ LockShow(r) \/ LockTest(r) \/ LockBatch(r)
      PROVE  ContextInv'
  <2>1. r \in Actor /\ r # "procfs" /\ r # "work"
    BY InstanceAssumption, Zenon DEF Actor
  <2>. QED
    BY <1>5, <2>1, LocksKeep, Zenon
<1>6. ASSUME NEW r \in Reader, Generate(r) \/ Show(r) \/ Test(r) \/ EndBatch(r)
      PROVE  ContextInv'
  BY <1>6, GenerateKeeps, ShowKeeps, TestKeeps, EndBatchKeeps, Zenon
<1>7. ASSUME \/ Ask("procfs") \/ AskInterrupted("procfs")
             \/ LockShow("procfs") \/ Show("procfs")
      PROVE  ContextInv'
  <2>1. "procfs" \in Actor /\ "procfs" # "work"
    BY Zenon DEF Actor
  <2>. QED
    BY <1>7, <2>1, ProcfsKeeps, LocksKeep, ShowKeeps, Zenon
<1>8. ASSUME LockTest("work") \/ Test("work")
      PROVE  ContextInv'
  <2>1. "work" \in Actor /\ "procfs" # "work"
    BY Zenon DEF Actor
  <2>. QED
    BY <1>8, <2>1, LocksKeep, TestKeeps, Zenon
<1>. QED
  BY <1>1, <1>2, <1>3, <1>4, <1>5, <1>6, <1>7, <1>8, Zenon DEF Next, Locks,
     Inside, Walks

-----------------------------------------------------------------------------
(* The reads *)

\* No read is going on at the beginning.
LEMMA ReadsInitially == Init => ReadInv
<1>. SUFFICES ASSUME Init PROVE ReadInv
  BY Zenon
<1>1. ReadTypes
  BY DEF Init, ReadTypes
<1>2. \A r \in Reader : ReadAt(r) /\ RecordAt(r)
  BY Zenon DEF Init, ReadAt, RecordAt, Sampling, Logging, Actor
<1>. QED
  BY <1>1, <1>2, Zenon DEF ReadInv

\* The locals of a thread.
SameLocals(q) ==
  /\ pc'[q] = pc[q] /\ nb'[q] = nb[q] /\ ret'[q] = ret[q]
  /\ left'[q] = left[q] /\ copied'[q] = copied[q] /\ taken'[q] = taken[q]
  /\ session'[q] = session[q] /\ recorded'[q] = recorded[q]

\* A thread that does not step keeps what is known about it, unless the collector
\* was sampled under it or the instance opened under it.
LEMMA LocalsKept ==
  ASSUME ReadInv, NEW q \in Reader, SameLocals(q), UNCHANGED kind,
         (phase' = "opening" <=> phase = "opening") \/ pc[q] \notin Logging,
         UNCHANGED <<primed, stamp>> \/ pc[q] # "sample"
  PROVE  ReadAt(q)' /\ RecordAt(q)'
<1>1. ReadAt(q) /\ RecordAt(q)
  BY Zenon DEF ReadInv
<1>2. Reported(q)' <=> Reported(q)
  BY Zenon DEF Reported, SameLocals
<1>3. ReadAt(q)'
  BY <1>1, <1>2, Zenon DEF ReadAt, SameLocals
<1>4. RecordAt(q)'
  BY <1>1 DEF RecordAt, SameLocals
<1>. QED
  BY <1>3, <1>4, Zenon

\* A step of one thread.
LEMMA ThreadStep ==
  ASSUME ReadInv, NEW r \in Reader, UNCHANGED kind,
         \A q \in Reader \ {r} :
           /\ SameLocals(q)
           /\ (phase' = "opening" <=> phase = "opening") \/ pc[q] \notin Logging
           /\ UNCHANGED <<primed, stamp>> \/ pc[q] # "sample",
         ReadTypes', ReadAt(r)', RecordAt(r)'
  PROVE  ReadInv'
<1>1. \A q \in Reader \ {r} : ReadAt(q)' /\ RecordAt(q)'
  BY LocalsKept, Zenon
<1>. QED
  BY <1>1, Zenon DEF ReadInv

\* A step of nobody who reads.
LEMMA NoThreadStep ==
  ASSUME ReadInv, UNCHANGED kind,
         \A q \in Reader : pc'[q] = pc[q],
         phase' = "opening" <=> phase = "opening",
         UNCHANGED <<nb, left, ret, copied, session, primed, taken, stamp,
                     recorded>>,
         loop_cnt' \in LoopCount \cup {0}
  PROVE  ReadInv'
<1>1. ReadTypes'
  BY Zenon DEF ReadInv, ReadTypes
<1>2. \A q \in Reader : SameLocals(q)
  BY Zenon DEF SameLocals
<1>3. \A q \in Reader : ReadAt(q)' /\ RecordAt(q)'
  BY <1>2, LocalsKept, Zenon
<1>. QED
  BY <1>1, <1>3, Zenon DEF ReadInv

\* A thread that only goes elsewhere.
LEMMA GotoReads ==
  ASSUME ContextInv, ReadInv, NEW r \in Reader, NEW label, Goto(r, label),
         UNCHANGED <<kind, phase, nb, left, ret, copied, loop_cnt, session,
                     primed, taken, stamp, recorded>>,
         \/ /\ pc[r] \in {"idle", "ask", "show", "order", "test"}
            /\ label \in {"idle", "ask", "show", "order", "test"}
         \/ pc[r] = "lock" /\ label = "generate"
         \/ pc[r] = "log" /\ label = "show_log"
  PROVE  ReadInv'
<1>1. pc'[r] = label /\ \A q \in Reader \ {r} : pc'[q] = pc[q]
  BY Zenon DEF ContextInv, ContextTypes, Goto, Actor
<1>2. ReadTypes' /\ \A q \in Reader \ {r} : SameLocals(q)
  BY <1>1, Zenon DEF ReadInv, ReadTypes, SameLocals
<1>3. ReadAt(r) /\ RecordAt(r)
  BY Zenon DEF ReadInv
<1>4. Reported(r)' <=> Reported(r)
  BY Zenon DEF Reported
<1>5. ReadAt(r)'
  BY <1>1, <1>3, <1>4, Zenon DEF ReadAt, Sampling, Logging
<1>6. RecordAt(r)'
  BY <1>1, <1>3, Zenon DEF RecordAt, Sampling
<1>. QED
  BY <1>2, <1>5, <1>6, ThreadStep, Zenon

\* A call begins with nothing delivered.
LEMMA StartReads ==
  ASSUME ContextInv, ReadInv, NEW r \in Reader,
         \/ \E n \in 1 .. MaxChunks : Read(r, n)
         \/ \E n \in 1 .. MaxSamples : Extract(r, n)
         \/ Request(r)
  PROVE  ReadInv'
<1>1. /\ pc[r] = "idle"
      /\ UNCHANGED <<kind, phase, loop_cnt, session, primed, taken, stamp, recorded>>
      /\ Goto(r, pc'[r]) /\ pc'[r] \in {"iterate", "snapshot", "lock"}
      /\ pc'[r] = "iterate" => kind = "file"
      /\ pc'[r] = "lock" => kind # "file"
  BY Zenon DEF Read, Extract, Request, Goto, file_vars, boot_vars, raw_vars,
     ContextInv, ContextTypes, Actor
<1>2. \A q \in Reader \ {r} : pc'[q] = pc[q]
  BY <1>1, Zenon DEF ContextInv, ContextTypes, Goto, Actor
<1>3. ReadAt(r) /\ RecordAt(r) /\ ReadTypes
  BY Zenon DEF ReadInv
<1>4. ret[r] = 0 /\ copied[r] = 0 /\ recorded[r] = {}
  BY <1>1, <1>3, Zenon DEF ReadAt, RecordAt, Sampling
<1>5. \/ /\ pc'[r] = "lock" /\ UNCHANGED <<left, ret, copied>>
         /\ \E b : nb' = [nb EXCEPT ![r] = b]
      \/ /\ pc'[r] # "lock" /\ UNCHANGED nb
         /\ \E n \in Nat \ {0} : left' = [left EXCEPT ![r] = n]
         /\ ret' \in {ret, [ret EXCEPT ![r] = 0]}
         /\ copied' \in {copied, [copied EXCEPT ![r] = 0]}
  <2>1. ASSUME NEW n \in 1 .. MaxChunks, Read(r, n)
        PROVE  \E m \in Nat \ {0} : left' = [left EXCEPT ![r] = m]
    <3>1. n \in Nat \ {0} /\ 1 \in Nat \ {0}
      BY InstanceAssumption
    <3>. QED
      BY <2>1, <3>1, Zenon DEF Read
  <2>2. ASSUME NEW n \in 1 .. MaxSamples, Extract(r, n)
        PROVE  \E m \in Nat \ {0} : left' = [left EXCEPT ![r] = m]
    <3>1. n \in Nat \ {0}
      BY InstanceAssumption
    <3>. QED
      BY <2>2, <3>1, Zenon DEF Extract
  <2>3. ASSUME Request(r)
        PROVE  \E b : nb' = [nb EXCEPT ![r] = b]
    BY <2>3, Zenon DEF Request
  <2>4. r \in Actor
    BY Zenon DEF Actor
  <2>. QED
    BY <2>1, <2>2, <2>3, <2>4, Zenon DEF Read, Extract, Request, Goto,
       ContextInv, ContextTypes, raw_vars
<1>6. ReadTypes'
  BY <1>1, <1>3, <1>5 DEF ReadTypes
<1>7. \A q \in Reader \ {r} : SameLocals(q)
  BY <1>1, <1>2, <1>3, <1>5, Zenon DEF SameLocals, ReadTypes
<1>8. /\ ret'[r] = 0 /\ copied'[r] = 0
      /\ pc'[r] # "lock" => left'[r] > 0
  BY <1>3, <1>4, <1>5 DEF ReadTypes
<1>9. ReadAt(r)'
  BY <1>1, <1>8, Zenon DEF ReadAt, Sampling, Logging
<1>10. RecordAt(r)'
  BY <1>1, <1>4, Zenon DEF RecordAt
<1>. QED
  BY <1>1, <1>6, <1>7, <1>9, <1>10, ThreadStep, Zenon

\* The loop over the chunks of a read, up to its end for whatever reason.
LEMMA ChunkReads ==
  ASSUME ContextInv, ReadInv, NEW r \in Reader,
         Iterate(r) \/ LockReadFails(r) \/ Copy(r) \/ CopyFaults(r)
  PROVE  ReadInv'
<1>1. /\ UNCHANGED <<kind, phase, loop_cnt, session, primed, taken, stamp, recorded>>
      /\ Goto(r, pc'[r])
  BY Zenon DEF Iterate, LockReadFails, Copy, CopyFaults, Goto, file_vars,
     boot_vars, raw_vars, ContextInv, ContextTypes, Actor
<1>2. \A q \in Reader \ {r} : pc'[q] = pc[q]
  BY <1>1, Zenon DEF ContextInv, ContextTypes, Goto, Actor
<1>3. ReadAt(r) /\ RecordAt(r) /\ ReadTypes
  BY Zenon DEF ReadInv
<1>4. r \in Actor /\ pc \in [Actor -> Label] /\ ReaderAt(pc[r])
  BY Zenon DEF Actor, ContextInv, ContextTypes, ReaderShape
<1>5. CASE Iterate(r)
  <2>1. /\ nb' = [nb EXCEPT ![r] = nonblock]
        /\ UNCHANGED <<left, ret, copied>>
        /\ pc[r] = "iterate"
        /\ pc'[r] = IF left[r] = 0 THEN "done" ELSE "lock"
    BY <1>4, <1>5, Zenon DEF Iterate, Goto
  <2>2. kind = "file"
    BY <1>4, <2>1, Zenon DEF ReaderAt
  <2>3. ReadTypes' /\ \A q \in Reader \ {r} : SameLocals(q)
    BY <1>1, <1>2, <1>3, <2>1, Zenon DEF ReadTypes, SameLocals
  <2>4. /\ ret[r] = copied[r] /\ left[r] \in Nat /\ copied[r] \in Nat
        /\ left[r] > 0 \/ copied[r] > 0
    BY <1>3, <2>1, Zenon DEF ReadAt, ReadTypes
  <2>5. ASSUME left[r] = 0 PROVE Reported(r)'
    <3>1. copied'[r] > 0 /\ ret'[r] = copied'[r]
      BY <2>1, <2>4, <2>5
    <3>. QED
      BY <1>1, <2>2, <3>1, Zenon DEF Reported
  <2>6. ReadAt(r)'
    BY <1>1, <2>1, <2>2, <2>4, <2>5 DEF ReadAt, Sampling, Logging
  <2>7. RecordAt(r)'
    BY <1>1, <1>3, <2>1, Zenon DEF RecordAt, Sampling
  <2>. QED
    BY <1>1, <2>3, <2>6, <2>7, ThreadStep, Zenon
<1>6. CASE LockReadFails(r) \/ CopyFaults(r)
  <2>1. PICK err \in {0, EAGAIN, ERESTARTSYS, EFAULT} :
          /\ ret' = [ret EXCEPT ![r] = WithError(ret[r], err)]
          /\ err = 0 => kind = "hwrng" /\ nb[r]
    BY <1>6 DEF LockReadFails, CopyFaults, EAGAIN, ERESTARTSYS, EFAULT
  <2>2. /\ UNCHANGED <<nb, left, copied>>
        /\ pc[r] \in {"lock", "copy"} /\ pc'[r] = "done"
        /\ pc[r] = "lock" => kind # "tfm"
    BY <1>4, <1>6, Zenon DEF LockReadFails, CopyFaults, Goto
  <2>3. kind # "tfm"
    BY <1>4, <2>2, Zenon DEF ReaderAt
  <2>4. ret[r] = copied[r] /\ copied[r] \in Nat
    BY <1>3, <2>2, Zenon DEF ReadAt, ReadTypes
  <2>5. ret'[r] = IF copied[r] = 0 THEN err ELSE copied[r]
    BY <1>3, <2>1, <2>4, Zenon DEF WithError, ReadTypes
  <2>6. ReadTypes' /\ \A q \in Reader \ {r} : SameLocals(q)
    <3>1. WithError(ret[r], err) \in Int
      BY <2>4 DEF WithError, EAGAIN, ERESTARTSYS, EFAULT
    <3>. QED
      BY <1>1, <1>2, <1>3, <2>1, <2>2, <3>1, Zenon DEF ReadTypes, SameLocals
  <2>7. Reported(r)'
    <3>1. CASE copied[r] > 0
      <4>1. copied'[r] > 0 /\ ret'[r] = copied'[r]
        BY <2>2, <2>4, <2>5, <3>1
      <4>. QED
        BY <1>1, <2>3, <4>1, Zenon DEF Reported
    <3>2. CASE copied[r] = 0
      <4>1. copied'[r] = 0 /\ ret'[r] = err
        BY <2>2, <2>5, <3>2, Zenon
      <4>2. ret'[r] < 0 \/ (kind = "hwrng" /\ nb'[r] /\ ret'[r] = 0)
        BY <2>1, <2>2, <4>1 DEF EAGAIN, ERESTARTSYS, EFAULT
      <4>. QED
        BY <1>1, <4>1, <4>2 DEF Reported
    <3>. QED
      BY <2>4, <3>1, <3>2
  <2>8. ReadAt(r)'
    BY <2>2, <2>7, Zenon DEF ReadAt, Sampling, Logging
  <2>9. RecordAt(r)'
    BY <1>1, <1>3, <2>2, Zenon DEF RecordAt, Sampling
  <2>. QED
    BY <1>1, <2>6, <2>8, <2>9, ThreadStep, Zenon
<1>7. CASE Copy(r)
  <2>1. /\ left' = [left EXCEPT ![r] = @ - 1]
        /\ ret' = [ret EXCEPT ![r] = @ + 1]
        /\ copied' = [copied EXCEPT ![r] = @ + 1]
        /\ UNCHANGED nb
        /\ pc[r] = "copy" /\ pc'[r] \in {"done", "iterate"}
    BY <1>4, <1>7, Zenon DEF Copy, Goto
  <2>2. kind = "file"
    BY <1>4, <2>1, Zenon DEF ReaderAt
  <2>3. /\ ret[r] = copied[r] /\ copied[r] \in Nat
        /\ left[r] > 0 /\ left[r] \in Nat
    BY <1>3, <2>1, Zenon DEF ReadAt, ReadTypes
  <2>4. ret'[r] = copied'[r] /\ copied'[r] > 0
    BY <1>3, <2>1, <2>3 DEF ReadTypes
  <2>5. ReadTypes' /\ \A q \in Reader \ {r} : SameLocals(q)
    BY <1>1, <1>2, <1>3, <2>1, <2>3 DEF ReadTypes, SameLocals
  <2>6. Reported(r)'
    BY <1>1, <2>2, <2>4, Zenon DEF Reported
  <2>7. ReadAt(r)'
    BY <2>1, <2>4, <2>6, Zenon DEF ReadAt, Sampling, Logging
  <2>8. RecordAt(r)'
    BY <1>1, <1>3, <2>1, Zenon DEF RecordAt, Sampling
  <2>. QED
    BY <1>1, <2>5, <2>7, <2>8, ThreadStep, Zenon
<1>. QED
  BY <1>5, <1>6, <1>7, Zenon

\* The call returns.
LEMMA ReturnReads ==
  ASSUME ContextInv, ReadInv, NEW r \in Reader, Return(r)
  PROVE  ReadInv'
<1>1. /\ UNCHANGED <<kind, phase, loop_cnt, primed, taken, stamp>>
      /\ pc'[r] = "idle" /\ \A q \in Reader \ {r} : pc'[q] = pc[q]
  BY Zenon DEF Return, Goto, file_vars, boot_vars, ContextInv, ContextTypes,
     Actor
<1>2. ReadTypes' /\ \A q \in Reader \ {r} : SameLocals(q)
  BY <1>1 DEF ReadInv, ReadTypes, SameLocals, Return
<1>3. ret'[r] = 0 /\ copied'[r] = 0 /\ recorded'[r] = {}
  BY Zenon DEF ReadInv, ReadTypes, Return
<1>4. ReadAt(r)'
  BY <1>1, <1>3, Zenon DEF ReadAt, Sampling, Logging
<1>5. RecordAt(r)'
  BY <1>1, <1>3, Zenon DEF RecordAt, Sampling
<1>. QED
  BY <1>1, <1>2, <1>4, <1>5, ThreadStep, Zenon

\* What an error leaves of the samples delivered so far.
LEMMA ErrorReported ==
  ASSUME NEW r \in Reader, NEW n \in Nat, NEW err \in Int, err < 0,
         kind' # "tfm", copied'[r] = n, ret'[r] = WithError(n, err)
  PROVE  Reported(r)'
<1>1. CASE n = 0
  BY <1>1 DEF WithError, Reported
<1>2. CASE n > 0
  <2>1. ret'[r] = n /\ copied'[r] > 0
    BY <1>2 DEF WithError
  <2>. QED
    BY <2>1, Zenon DEF Reported
<1>. QED
  BY <1>1, <1>2

\* The loop over the batches of a read of raw samples, outside the mutex.
LEMMA BatchReads ==
  ASSUME ContextInv, ReadInv, NEW r \in Reader,
         \/ Snapshot(r) \/ NextBatch(r) \/ ExtractInterrupted(r)
         \/ \E not_copied \in 0 .. Batch : Deliver(r, not_copied)
  PROVE  ReadInv'
<1>1. /\ UNCHANGED <<kind, phase, loop_cnt, nb, primed, stamp, recorded>>
      /\ \A q \in Reader \ {r} : pc'[q] = pc[q]
      /\ pc[r] \in Sampling \cup {"snapshot"}
  BY Zenon DEF Snapshot, NextBatch, ExtractInterrupted, Deliver, Goto,
     file_vars, boot_vars, raw_vars, ContextInv, ContextTypes, Actor, Sampling
<1>2. ReadAt(r) /\ RecordAt(r) /\ ReadTypes
  BY Zenon DEF ReadInv
<1>3. r \in Actor /\ pc \in [Actor -> Label] /\ kind = "raw"
  BY <1>1, Zenon DEF Actor, ContextInv, ContextTypes, ReaderShape, ReaderAt
<1>4. /\ ret[r] = copied[r] /\ copied[r] \in Nat /\ left[r] \in Nat
      /\ taken[r] \in Nat
  BY <1>1, <1>2, Zenon DEF ReadAt, ReadTypes
<1>5. CASE Snapshot(r)
  <2>1. /\ pc[r] = "snapshot" /\ pc'[r] = "batch"
        /\ UNCHANGED <<left, ret, copied, taken>>
        /\ session' = [session EXCEPT ![r] = loop_cnt]
    BY <1>3, <1>5, Zenon DEF Snapshot, Goto
  <2>2. ReadTypes' /\ \A q \in Reader \ {r} : SameLocals(q)
    BY <1>1, <1>2, <2>1, Zenon DEF ReadTypes, SameLocals
  <2>3. ReadAt(r)'
    BY <1>2, <1>4, <2>1, Zenon DEF ReadAt, Sampling, Logging
  <2>4. RecordAt(r)'
    BY <1>1, <1>2, <2>1, Zenon DEF RecordAt, Sampling
  <2>. QED
    BY <1>1, <2>2, <2>3, <2>4, ThreadStep, Zenon
<1>6. CASE NextBatch(r) \/ ExtractInterrupted(r)
  <2>1. /\ UNCHANGED <<left, copied, taken, session>>
        /\ \/ /\ pc[r] = "batch" /\ pc'[r] = "batch_lock" /\ left[r] > 0
              /\ ret' = ret
           \/ /\ pc[r] = "batch" /\ pc'[r] = "done" /\ left[r] = 0
              /\ ret' = ret
           \/ /\ pc'[r] = "done"
              /\ ret' = [ret EXCEPT ![r] = WithError(ret[r], ERESTARTSYS)]
    BY <1>3, <1>6, Zenon DEF NextBatch, ExtractInterrupted, Goto, raw_vars
  <2>2. WithError(ret[r], ERESTARTSYS) \in Int
    BY <1>4 DEF WithError, ERESTARTSYS
  <2>3. ReadTypes' /\ \A q \in Reader \ {r} : SameLocals(q)
    BY <1>1, <1>2, <2>1, <2>2, Zenon DEF ReadTypes, SameLocals
  <2>4. ASSUME pc'[r] = "done" PROVE Reported(r)'
    <3>1. CASE pc[r] = "batch" /\ left[r] = 0 /\ ret' = ret
      <4>1. copied[r] > 0
        BY <1>2, <1>4, <3>1 DEF ReadAt
      <4>. QED
        BY <1>1, <1>3, <1>4, <2>1, <3>1, <4>1, Zenon DEF Reported
    <3>2. CASE ret' = [ret EXCEPT ![r] = WithError(ret[r], ERESTARTSYS)]
      <4>1. ret'[r] = WithError(copied[r], ERESTARTSYS) /\ copied'[r] = copied[r]
        BY <1>2, <1>4, <2>1, <3>2, Zenon DEF ReadTypes
      <4>. QED
        BY <1>1, <1>3, <1>4, <4>1, ErrorReported DEF ERESTARTSYS
    <3>. QED
      BY <2>1, <2>4, <3>1, <3>2, Zenon
  <2>5. ReadAt(r)'
    BY <1>4, <2>1, <2>4, Zenon DEF ReadAt, Sampling, Logging
  <2>6. RecordAt(r)'
    BY <1>1, <1>2, <2>1, Zenon DEF RecordAt, Sampling
  <2>. QED
    BY <1>1, <2>3, <2>5, <2>6, ThreadStep, Zenon
<1>7. ASSUME NEW not_copied \in 0 .. Batch, Deliver(r, not_copied)
      PROVE  ReadInv'
  <2>. DEFINE len == taken[r] - not_copied
  <2>1. /\ pc[r] = "deliver" /\ UNCHANGED session
        /\ pc'[r] = IF not_copied = 0 THEN "batch" ELSE "done"
        /\ not_copied <= taken[r]
        /\ left' = [left EXCEPT ![r] = left[r] - len]
        /\ copied' = [copied EXCEPT ![r] = copied[r] + len]
        /\ ret' = [ret EXCEPT ![r] = IF not_copied = 0 THEN ret[r] + len
                                     ELSE WithError(ret[r] + len, EFAULT)]
        /\ taken' = [taken EXCEPT ![r] = 0]
    BY <1>3, <1>7, Zenon DEF Deliver, Goto
  <2>2. taken[r] <= left[r] /\ taken[r] > 0
    BY <1>2, <2>1, Zenon DEF ReadAt
  <2>3. not_copied \in Nat /\ len \in Nat /\ len <= left[r]
    BY <1>4, <2>1, <2>2, InstanceAssumption
  <2>. HIDE DEF len
  <2>4. /\ left[r] - len \in Nat /\ copied[r] + len \in Nat
        /\ ret[r] + len = copied[r] + len
        /\ WithError(ret[r] + len, EFAULT) \in Int
    BY <1>4, <2>3 DEF WithError, EFAULT
  <2>5. ReadTypes' /\ \A q \in Reader \ {r} : SameLocals(q)
    BY <1>1, <1>2, <2>1, <2>3, <2>4, SMTT(30) DEF ReadTypes, SameLocals
  <2>6. copied'[r] = copied[r] + len
    BY <1>2, <2>1, Zenon DEF ReadTypes
  <2>7. ASSUME not_copied # 0 PROVE Reported(r)'
    <3>1. ret'[r] = WithError(copied[r] + len, EFAULT)
      BY <1>2, <2>1, <2>4, <2>7, Zenon DEF ReadTypes
    <3>2. EFAULT \in Int /\ EFAULT < 0
      BY DEF EFAULT
    <3>3. kind' # "tfm"
      BY <1>1, <1>3, Zenon
    <3>. QED
      BY <2>4, <2>6, <3>1, <3>2, <3>3, ErrorReported, Zenon
  <2>8. ASSUME not_copied = 0 PROVE ret'[r] = copied'[r] /\ copied'[r] > 0
    BY <1>2, <1>4, <2>1, <2>2, <2>4, <2>6, <2>8 DEF ReadTypes, len
  <2>9. ReadAt(r)'
    BY <2>1, <2>7, <2>8, Zenon DEF ReadAt, Sampling, Logging
  <2>10. RecordAt(r)'
    BY <1>1, <1>2, <2>1, Zenon DEF RecordAt, Sampling
  <2>. QED
    BY <1>1, <2>5, <2>9, <2>10, ThreadStep, Zenon
<1>. QED
  BY <1>5, <1>6, <1>7, Zenon

\* A batch under the mutex: nobody else samples meanwhile, and the first sample
\* of it, like the one after a reschedule, is primed anew.
LEMMA SampleReads ==
  ASSUME ContextInv, ReadInv, NEW r \in Reader,
         LockBatch(r) \/ Sample(r) \/ EndBatch(r)
  PROVE  ReadInv'
<1>1. /\ UNCHANGED <<kind, phase, loop_cnt, nb, left, copied, session>>
      /\ \A q \in Reader \ {r} : pc'[q] = pc[q]
      /\ pc[r] \in {"batch_lock", "sample"}
  BY Zenon DEF LockBatch, Sample, EndBatch, Goto, file_vars, boot_vars,
     ContextInv, ContextTypes, Actor
<1>2. ReadAt(r) /\ RecordAt(r) /\ ReadTypes
  BY Zenon DEF ReadInv
<1>3. r \in Actor /\ pc \in [Actor -> Label] /\ kind = "raw"
  BY <1>1, Zenon DEF Actor, ContextInv, ContextTypes, ReaderShape, ReaderAt,
     Sampling
<1>4. /\ ret[r] = copied[r] /\ copied[r] \in Nat /\ left[r] \in Nat
      /\ left[r] > 0 /\ taken[r] \in Nat
  BY <1>1, <1>2, Zenon DEF ReadAt, ReadTypes, Sampling
<1>5. \A q \in Reader \ {r} : pc[q] # "sample"
  <2>1. lock \in {r, None}
    BY <1>3, Zenon DEF LockBatch, Sample, EndBatch, ContextInv, LockShape,
       Critical
  <2>2. None \notin Reader
    BY InstanceAssumption, Zenon DEF Actor
  <2>. QED
    BY <2>1, <2>2, Zenon DEF ContextInv, LockShape, Critical, Actor
<1>6. CASE LockBatch(r)
  <2>1. /\ pc'[r] = "sample" /\ pc[r] = "batch_lock" /\ primed' = FALSE
        /\ taken' = [taken EXCEPT ![r] = 0]
        /\ UNCHANGED <<ret, recorded>>
    BY <1>3, <1>6, Zenon DEF LockBatch, Goto
  <2>2. ReadTypes' /\ \A q \in Reader \ {r} : SameLocals(q)
    BY <1>1, <1>2, <2>1, Zenon DEF ReadTypes, SameLocals
  <2>3. taken'[r] = 0
    BY <1>2, <2>1, Zenon DEF ReadTypes
  <2>4. ReadAt(r)'
    BY <1>1, <1>4, <2>1, <2>3 DEF ReadAt, Sampling, Logging
  <2>5. RecordAt(r)'
    BY <1>1, <1>2, <2>1, Zenon DEF RecordAt, Sampling
  <2>. QED
    BY <1>1, <1>5, <2>2, <2>4, <2>5, ThreadStep, Zenon
<1>7. CASE Sample(r)
  <2>1. /\ pc'[r] = "sample" /\ pc[r] = "sample" /\ stamp' = session[r]
        /\ taken' = [taken EXCEPT ![r] = taken[r] + 1]
        /\ UNCHANGED ret
        /\ taken[r] # left[r]
    BY <1>7, Zenon DEF Sample, BatchDone
  <2>2. recorded' = [recorded EXCEPT ![r] = recorded[r] \cup {session[r]}]
    <3>1. primed => stamp = session[r]
      BY <1>2, <2>1, Zenon DEF RecordAt
    <3>. QED
      BY <1>7, <3>1, Zenon DEF Sample, StillPrimed
  <2>3. ReadTypes' /\ \A q \in Reader \ {r} : SameLocals(q)
    BY <1>1, <1>2, <1>4, <2>1, <2>2 DEF ReadTypes, SameLocals
  <2>4. taken'[r] = taken[r] + 1 /\ taken[r] <= left[r]
    BY <1>2, <2>1, Zenon DEF ReadTypes, ReadAt
  <2>5. ReadAt(r)'
    BY <1>1, <1>4, <2>1, <2>4 DEF ReadAt, Sampling, Logging
  <2>6. recorded'[r] = recorded[r] \cup {session[r]}
    BY <1>2, <2>2, Zenon DEF ReadTypes
  <2>7. RecordAt(r)'
    BY <1>1, <1>2, <2>1, <2>6, Zenon DEF RecordAt, Sampling
  <2>. QED
    BY <1>1, <1>5, <2>3, <2>5, <2>7, ThreadStep, Zenon
<1>8. CASE EndBatch(r)
  <2>1. /\ pc[r] = "sample" /\ UNCHANGED <<taken, recorded>>
        /\ \/ /\ pc'[r] = "deliver" /\ taken[r] > 0
              /\ ret' = ret
           \/ /\ pc'[r] = "done"
              /\ ret' = [ret EXCEPT ![r] = WithError(ret[r], ERESTARTSYS)]
    BY <1>3, <1>8, Zenon DEF EndBatch, Goto
  <2>2. WithError(ret[r], ERESTARTSYS) \in Int
    BY <1>4 DEF WithError, ERESTARTSYS
  <2>3. ReadTypes' /\ \A q \in Reader \ {r} : SameLocals(q)
    BY <1>1, <1>2, <2>1, <2>2, Zenon DEF ReadTypes, SameLocals
  <2>4. ASSUME pc'[r] = "done" PROVE Reported(r)'
    <3>1. ret'[r] = WithError(copied[r], ERESTARTSYS) /\ copied'[r] = copied[r]
      BY <1>1, <1>2, <1>4, <2>1, <2>4, Zenon DEF ReadTypes
    <3>2. ERESTARTSYS \in Int /\ ERESTARTSYS < 0
      BY DEF ERESTARTSYS
    <3>3. kind' # "tfm"
      BY <1>1, <1>3, Zenon
    <3>. QED
      BY <1>4, <3>1, <3>2, <3>3, ErrorReported, Zenon
  <2>5. taken[r] <= left[r]
    BY <1>2, <2>1, Zenon DEF ReadAt
  <2>6. ReadAt(r)'
    BY <1>1, <1>4, <2>1, <2>4, <2>5, Zenon DEF ReadAt, Sampling, Logging
  <2>7. RecordAt(r)'
    BY <1>1, <1>2, <2>1, Zenon DEF RecordAt, Sampling
  <2>. QED
    BY <1>1, <1>5, <2>3, <2>6, <2>7, ThreadStep, Zenon
<1>. QED
  BY <1>6, <1>7, <1>8, Zenon

\* The end of a generation: a file goes on with its chunk, the others have their
\* result.
LEMMA GenerateReads ==
  ASSUME ContextInv, ReadInv, NEW r \in Reader, Generate(r)
  PROVE  ReadInv'
<1>1. /\ UNCHANGED <<kind, phase, loop_cnt, nb, left, session, primed, taken,
                     stamp, recorded>>
      /\ \A q \in Reader \ {r} : pc'[q] = pc[q]
      /\ pc[r] = "generate"
  BY Zenon DEF Generate, Goto, file_vars, boot_vars, raw_vars, ContextInv,
     ContextTypes, Actor
<1>2. ReadAt(r) /\ RecordAt(r) /\ ReadTypes
  BY Zenon DEF ReadInv
<1>3. /\ r \in Actor /\ pc \in [Actor -> Label] /\ kind # "raw"
      /\ kind \in {"file", "hwrng", "tfm", "raw"}
      /\ phase # "opening"
  BY <1>1, Zenon DEF Actor, ContextInv, ContextTypes, ReaderShape, ReaderAt,
     Logging
<1>4. /\ ret[r] = copied[r] /\ copied[r] \in Nat /\ left[r] \in Nat
      /\ IF kind = "file" THEN left[r] > 0 ELSE copied[r] = 0
  BY <1>1, <1>2, Zenon DEF ReadAt, ReadTypes
<1>5. PICK o \in Outcome(r), limited \in BOOLEAN :
        /\ \/ /\ o[3] = "ok"
              /\ IF kind = "file" THEN UNCHANGED <<ret, copied>>
                 ELSE /\ ret' = [ret EXCEPT ![r] = IF kind = "tfm" THEN 0 ELSE 1]
                      /\ copied' = [copied EXCEPT ![r] = 1]
           \/ /\ o[3] # "ok"
              /\ ret' = [ret EXCEPT ![r] = WithError(ret[r], MapError(o[3]))]
              /\ UNCHANGED copied
        /\ Goto(r, IF Logs(limited) /\ o[1] # using[r] THEN "log"
                   ELSE IF kind = "file" /\ o[3] = "ok" THEN "copy" ELSE "done")
  BY Zenon DEF Generate
<1>6. /\ pc'[r] \in {"log", "copy", "done"}
      /\ pc'[r] = "copy" <=> kind = "file" /\ o[3] = "ok"
      /\ pc'[r] = "log" => kind = "tfm"
  BY <1>3, <1>5, Zenon DEF Goto, Logs
<1>7. MapError(o[3]) \in Int /\ MapError(o[3]) < 0
  BY DEF MapError, EIO, EFAULT
<1>8. WithError(ret[r], MapError(o[3])) \in Int
  BY <1>4, <1>7 DEF WithError
<1>9. ReadTypes' /\ \A q \in Reader \ {r} : SameLocals(q)
  BY <1>1, <1>2, <1>5, <1>8 DEF ReadTypes, SameLocals
<1>10. ASSUME pc'[r] # "copy" PROVE Reported(r)'
  <2>1. CASE o[3] = "ok"
    <3>1. copied'[r] = 1 /\ ret'[r] = IF kind' = "tfm" THEN 0 ELSE 1
      BY <1>1, <1>2, <1>5, <1>6, <1>10, <2>1, Zenon DEF ReadTypes
    <3>. QED
      BY <3>1 DEF Reported
  <2>2. CASE o[3] # "ok"
    <3>1. /\ ret'[r] = WithError(copied[r], MapError(o[3]))
          /\ copied'[r] = copied[r]
      BY <1>2, <1>4, <1>5, <2>2, Zenon DEF ReadTypes
    <3>2. CASE copied[r] = 0
      BY <1>7, <3>1, <3>2 DEF WithError, Reported
    <3>3. CASE copied[r] # 0
      <4>1. kind' # "tfm"
        BY <1>1, <1>4, <3>3, Zenon
      <4>. QED
        BY <1>4, <1>7, <3>1, <4>1, ErrorReported, Zenon
    <3>. QED
      BY <3>2, <3>3, Zenon
  <2>. QED
    BY <2>1, <2>2, Zenon
<1>11. ASSUME pc'[r] = "copy" PROVE ret'[r] = copied'[r] /\ left'[r] > 0
  BY <1>1, <1>4, <1>5, <1>6, <1>11, Zenon
<1>12. ReadAt(r)'
  BY <1>1, <1>3, <1>6, <1>10, <1>11, Zenon DEF ReadAt, Sampling, Logging
<1>13. RecordAt(r)'
  BY <1>1, <1>2, <1>6, Zenon DEF RecordAt, Sampling
<1>. QED
  BY <1>1, <1>9, <1>12, <1>13, ThreadStep, Zenon

\* The status that was shown or logged.
LEMMA ShowReads ==
  ASSUME ContextInv, ReadInv, NEW r \in Reader, Show(r)
  PROVE  ReadInv'
<1>1. /\ UNCHANGED <<kind, loop_cnt, nb, left, ret, copied, session, primed, taken,
                     stamp, recorded>>
      /\ \A q \in Reader \ {r} : pc'[q] = pc[q]
      /\ pc[r] \in {"show", "show_log"}
      /\ phase' = IF phase = "opening" THEN "open" ELSE phase
      /\ pc'[r] = IF pc[r] = "show" \/ phase = "opening" THEN "idle" ELSE "done"
  BY Zenon DEF Show, Goto, boot_vars, read_vars, raw_vars, ContextInv,
     ContextTypes, Actor
<1>2. ReadAt(r) /\ RecordAt(r) /\ ReadTypes
  BY Zenon DEF ReadInv
<1>3. \A q \in Reader \ {r} : phase = "opening" => pc[q] \notin Logging
  BY <1>1, Zenon DEF ContextInv, ReaderShape, Logging
<1>4. ReadTypes' /\ \A q \in Reader \ {r} : SameLocals(q)
  BY <1>1, <1>2, Zenon DEF ReadTypes, SameLocals
<1>5. Reported(r)' <=> Reported(r)
  BY <1>1, Zenon DEF Reported
<1>6. ReadAt(r)'
  <2>1. CASE pc[r] = "show"
    BY <1>1, <1>2, <2>1, Zenon DEF ReadAt, Sampling, Logging
  <2>2. CASE pc[r] = "show_log" /\ phase = "opening"
    BY <1>1, <1>2, <2>2, Zenon DEF ReadAt, Sampling, Logging
  <2>3. CASE pc[r] = "show_log" /\ phase # "opening"
    BY <1>1, <1>2, <1>5, <2>3, Zenon DEF ReadAt, Sampling, Logging
  <2>. QED
    BY <1>1, <2>1, <2>2, <2>3, Zenon
<1>7. RecordAt(r)'
  BY <1>1, <1>2, Zenon DEF RecordAt, Sampling
<1>8. \A q \in Reader \ {r} :
        (phase' = "opening" <=> phase = "opening") \/ pc[q] \notin Logging
  BY <1>1, <1>3, Zenon
<1>. QED
  BY <1>1, <1>4, <1>6, <1>7, <1>8, ThreadStep, Zenon

\* The beginning of an instance, where the one that opens it may log its status.
LEMMA OpenReads ==
  ASSUME ContextInv, ReadInv, NEW r \in Reader, Open(r) \/ OpenInterrupted(r)
  PROVE  ReadInv'
<1>1. /\ UNCHANGED <<kind, loop_cnt, nb, left, ret, copied, session, primed, taken,
                     stamp, recorded>>
      /\ \A q \in Reader \ {r} : pc'[q] = pc[q]
      /\ pc'[r] = "idle" \/ (pc'[r] = "log" /\ phase' = "opening")
  BY Zenon DEF Open, OpenInterrupted, Goto, boot_vars, read_vars, raw_vars,
     ContextInv, ContextTypes, Actor
<1>2. ReadAt(r) /\ RecordAt(r) /\ ReadTypes
  BY Zenon DEF ReadInv
<1>3. /\ pc[r] = "idle" \/ (pc[r] = "log" /\ phase = "opening")
      /\ \A q \in Reader \ {r} : pc[q] \notin Logging
  <2>1. CASE Open(r)
    BY <2>1, Zenon DEF Open, ContextInv, PhaseShape, Logging, Actor
  <2>2. CASE OpenInterrupted(r)
    BY <2>2, Zenon DEF OpenInterrupted, ContextInv, ReaderShape, Logging
  <2>. QED
    BY <2>1, <2>2, Zenon
<1>4. ReadTypes' /\ \A q \in Reader \ {r} : SameLocals(q)
  BY <1>1, <1>2, Zenon DEF ReadTypes, SameLocals
<1>5. ret[r] = 0 /\ copied[r] = 0 /\ recorded[r] = {}
  BY <1>2, <1>3, Zenon DEF ReadAt, RecordAt, Logging, Sampling
<1>6. ReadAt(r)'
  BY <1>1, <1>5, Zenon DEF ReadAt, Sampling, Logging
<1>7. RecordAt(r)'
  BY <1>1, <1>2, <1>5, Zenon DEF RecordAt, Sampling
<1>. QED
  BY <1>1, <1>3, <1>4, <1>6, <1>7, ThreadStep, Zenon

\* Nobody else touches the locals of a read.
LEMMA OthersRead ==
  ASSUME ContextInv, ReadInv,
         \/ \E p \in Opener : Opening(p)
         \/ SetFlags \/ Release \/ Unregister \/ Cancel \/ Free
         \/ UnboundTestFails \/ Elsewhere \/ ElsewhereDone
         \/ \E c \in LoopCount : SetLoopCount(c)
         \/ Ask("procfs") \/ AskInterrupted("procfs")
         \/ LockShow("procfs") \/ Show("procfs")
         \/ Expire \/ LockTest("work") \/ Test("work") \/ Requeue
         \/ UNCHANGED vars
  PROVE  ReadInv'
<1>1. \A q \in Reader : q # "procfs" /\ q # "work" /\ q \in Actor
  BY InstanceAssumption, Zenon DEF Actor
<1>2. loop_cnt \in LoopCount \cup {0} /\ pc \in [Actor -> Label]
  BY Zenon DEF ReadInv, ReadTypes, ContextInv, ContextTypes
<1>3. CASE \/ \E p \in Opener : Opening(p)
           \/ SetFlags \/ Release \/ Unregister \/ Cancel \/ Free
           \/ UnboundTestFails \/ Elsewhere \/ ElsewhereDone
           \/ \E c \in LoopCount : SetLoopCount(c)
           \/ UNCHANGED vars
  <2>1. /\ UNCHANGED <<kind, pc, nb, left, ret, copied, session, primed, taken,
                       stamp, recorded>>
        /\ loop_cnt' \in LoopCount \cup {0}
    BY <1>2, <1>3, Zenon DEF Opening, SetFlags, Release, Unregister, Cancel,
       Free, UnboundTestFails, Elsewhere, ElsewhereDone, SetLoopCount, vars,
       file_vars, boot_vars, read_vars, raw_vars
  <2>2. phase' = "opening" <=> phase = "opening"
    BY <1>3, Zenon DEF Opening, SetFlags, Release, Unregister, Cancel, Free,
       UnboundTestFails, Elsewhere, ElsewhereDone, SetLoopCount, vars,
       file_vars
  <2>. QED
    BY <2>1, <2>2, NoThreadStep, Zenon
<1>4. CASE \/ Ask("procfs") \/ AskInterrupted("procfs")
           \/ LockShow("procfs") \/ Show("procfs")
           \/ Expire \/ LockTest("work") \/ Test("work") \/ Requeue
  <2>1. /\ UNCHANGED <<kind, loop_cnt, nb, left, ret, copied, session, primed,
                       taken, stamp, recorded>>
        /\ \E a \in {"procfs", "work"} : \E label : Goto(a, label)
    BY <1>4, Zenon DEF Ask, AskInterrupted, LockShow, Show, Expire, LockTest,
       Test, Requeue, file_vars, boot_vars, read_vars, raw_vars
  <2>2. \A q \in Reader : pc'[q] = pc[q]
    BY <1>1, <1>2, <2>1, Zenon DEF Goto
  <2>3. phase' = phase
    BY <1>4, Zenon DEF Ask, AskInterrupted, LockShow, Show, Expire, LockTest,
       Test, Requeue, file_vars, ContextInv, OthersShape
  <2>. QED
    BY <1>2, <2>1, <2>2, <2>3, NoThreadStep, Zenon
<1>. QED
  BY <1>3, <1>4, Zenon

\* Every step keeps what is known about the reads.
LEMMA ReadsPreserved == ContextInv /\ ReadInv /\ [Next]_vars => ReadInv'
<1>. SUFFICES ASSUME ContextInv, ReadInv, [Next]_vars PROVE ReadInv'
  BY Zenon
<1>1. ASSUME NEW r \in Reader,
             \/ Order(r) \/ Ask(r) \/ AskInterrupted(r)
             \/ LockRead(r) \/ LockShow(r) \/ LockTest(r) \/ Test(r)
      PROVE  ReadInv'
  <2>1. /\ UNCHANGED <<kind, phase, nb, left, ret, copied, loop_cnt, session, primed,
                       taken, stamp, recorded>>
        /\ r # "work"
    BY <1>1, InstanceAssumption, Zenon DEF Order, Ask, AskInterrupted,
       LockRead, LockShow, LockTest, Test, file_vars, boot_vars, read_vars,
       raw_vars
  <2>2. PICK label : Goto(r, label)
                     /\ \/ /\ pc[r] \in {"idle", "ask", "show", "order", "test"}
                           /\ label \in {"idle", "ask", "show", "order", "test"}
                        \/ pc[r] = "lock" /\ label = "generate"
                        \/ pc[r] = "log" /\ label = "show_log"
    BY <1>1, <2>1, Zenon DEF Order, Ask, AskInterrupted, LockRead, LockShow,
       LockTest, Test
  <2>. QED
    BY <2>1, <2>2, GotoReads, Zenon
<1>. QED
  BY <1>1, StartReads, ChunkReads, ReturnReads, BatchReads, SampleReads,
     GenerateReads, ShowReads, OpenReads, OthersRead, Zenon DEF Next, Locks,
     Inside

\* The steps of a thread of the instance.
ThreadActs(q) ==
  \/ Open(q) \/ OpenInterrupted(q) \/ Request(q)
  \/ \E n \in 1 .. MaxSamples : Extract(q, n)
  \/ ExtractInterrupted(q)
  \/ \E n \in 1 .. MaxChunks : Read(q, n)
  \/ Order(q) \/ Ask(q) \/ LockReadFails(q) \/ AskInterrupted(q)
  \/ Locks(q) \/ Inside(q)

\* A thread writes its own locals only, and a finished call only returns.
LEMMA OwnLocals ==
  ASSUME ContextInv, NEW q \in Reader, ThreadActs(q)
  PROVE  /\ kind' = kind
         /\ pc' = pc \/ \E l : Goto(q, l)
         /\ left' = left \/ \E n : left' = [left EXCEPT ![q] = n]
         /\ spilled' = spilled \/ CopyFaults(q) \/ Return(q)
         /\ pc[q] = "done" => Return(q)
<1>1. pc[q] = "done" => phase # "closed"
  BY Zenon DEF ContextInv, PhaseShape, Actor
<1>2. kind' = kind
  BY Zenon DEF ThreadActs, Open, OpenInterrupted, Request, Extract,
     ExtractInterrupted, Read, Order, Ask, LockReadFails, AskInterrupted,
     Locks, LockRead, LockShow, LockTest, Snapshot, LockBatch, Inside,
     Iterate, Generate, Copy, CopyFaults, Return, Show, Test, NextBatch,
     Sample, EndBatch, Deliver, file_vars, boot_vars
<1>3. pc' = pc \/ \E l : Goto(q, l)
  BY Zenon DEF ThreadActs, Open, OpenInterrupted, Request, Extract,
     ExtractInterrupted, Read, Order, Ask, LockReadFails, AskInterrupted,
     Locks, LockRead, LockShow, LockTest, Snapshot, LockBatch, Inside,
     Iterate, Generate, Copy, CopyFaults, Return, Show, Test, NextBatch,
     Sample, EndBatch, Deliver
<1>4. left' = left \/ \E n : left' = [left EXCEPT ![q] = n]
  BY Zenon DEF ThreadActs, Open, OpenInterrupted, Request, Extract,
     ExtractInterrupted, Read, Order, Ask, LockReadFails, AskInterrupted,
     Locks, LockRead, LockShow, LockTest, Snapshot, LockBatch, Inside,
     Iterate, Generate, Copy, CopyFaults, Return, Show, Test, NextBatch,
     Sample, EndBatch, Deliver, read_vars
<1>5. spilled' = spilled \/ CopyFaults(q) \/ Return(q)
  BY Zenon DEF ThreadActs, Open, OpenInterrupted, Request, Extract,
     ExtractInterrupted, Read, Order, Ask, LockReadFails, AskInterrupted,
     Locks, LockRead, LockShow, LockTest, Snapshot, LockBatch, Inside,
     Iterate, Generate, Copy, Show, Test, NextBatch,
     Sample, EndBatch, Deliver, read_vars
<1>6. pc[q] = "done" => Return(q)
  BY <1>1 DEF ThreadActs, Open, OpenInterrupted, Request, Extract,
     ExtractInterrupted, Read, Order, Ask, LockReadFails, AskInterrupted,
     Locks, LockRead, LockShow, LockTest, Snapshot, LockBatch, Inside,
     Iterate, Generate, Copy, CopyFaults, Show, Test, NextBatch,
     Sample, EndBatch, Deliver
<1>. QED
  BY <1>2, <1>3, <1>4, <1>5, <1>6, Zenon

\* Every step keeps what is known about the chunks that were copied in part.
LEMMA SpillsPreserved ==
  ContextInv /\ ReadInv /\ SpillInv /\ [Next]_vars => SpillInv'
<1>. SUFFICES ASSUME ContextInv, ReadInv, SpillInv, [Next]_vars PROVE SpillInv'
  BY Zenon
<1>1. /\ pc \in [Actor -> Label] /\ DOMAIN left = Reader /\ DOMAIN spilled = Reader
      /\ \A q \in Reader : q \in Actor /\ q # "procfs" /\ q # "work"
  BY InstanceAssumption, Zenon DEF ContextInv, ContextTypes, ReadInv, ReadTypes,
     SpillInv, Actor
<1>2. ASSUME NEW q \in Reader, ThreadActs(q) PROVE SpillInv'
  <2>1. /\ kind' = kind
        /\ pc' = pc \/ \E l : Goto(q, l)
        /\ left' = left \/ \E n : left' = [left EXCEPT ![q] = n]
        /\ spilled' = spilled \/ CopyFaults(q) \/ Return(q)
        /\ pc[q] = "done" => Return(q)
    BY <1>2, OwnLocals, Zenon
  <2>2. \A r \in Reader \ {q} : pc'[r] = pc[r] /\ left'[r] = left[r]
    BY <1>1, <2>1, Zenon DEF Goto
  <2>3. CASE Return(q)
    <3>1. spilled' = [spilled EXCEPT ![q] = FALSE]
      BY <2>3, Zenon DEF Return
    <3>2. DOMAIN spilled' = Reader /\ ~spilled'[q]
      BY <1>1, <3>1, Zenon
    <3>3. \A r \in Reader \ {q} : spilled'[r] = spilled[r]
      BY <1>1, <3>1, Zenon
    <3>. QED
      BY <2>1, <2>2, <3>2, <3>3, Zenon DEF SpillInv
  <2>4. CASE CopyFaults(q)
    <3>1. PICK part \in BOOLEAN : spilled' = [spilled EXCEPT ![q] = part]
      BY <2>4, Zenon DEF CopyFaults
    <3>2. DOMAIN spilled' = Reader /\ \A r \in Reader \ {q} : spilled'[r] = spilled[r]
      BY <1>1, <3>1, Zenon
    <3>3. pc[q] = "copy" /\ pc'[q] = "done" /\ left' = left
      BY <1>1, <2>4, Zenon DEF CopyFaults, Goto
    <3>4. kind = "file" /\ left[q] > 0
      BY <3>3, Zenon DEF ContextInv, ReaderShape, ReaderAt, ReadInv, ReadAt
    <3>. QED
      BY <2>1, <2>2, <3>2, <3>3, <3>4, Zenon DEF SpillInv
  <2>5. CASE spilled' = spilled /\ ~Return(q)
    <3>1. ~spilled[q]
      BY <2>1, <2>5, Zenon DEF SpillInv
    <3>. QED
      BY <1>1, <2>1, <2>2, <2>5, <3>1, Zenon DEF SpillInv
  <2>. QED
    BY <2>1, <2>3, <2>4, <2>5, Zenon
<1>3. ASSUME UNCHANGED <<kind, left, spilled>>, \A r \in Reader : pc'[r] = pc[r]
      PROVE  SpillInv'
  BY <1>3, Zenon DEF SpillInv
<1>4. CASE \/ \E p \in Opener : Opening(p)
           \/ SetFlags \/ Release \/ Unregister \/ Cancel \/ Free
           \/ UnboundTestFails \/ Elsewhere \/ ElsewhereDone
           \/ \E c \in LoopCount : SetLoopCount(c)
           \/ UNCHANGED vars
  <2>1. UNCHANGED <<kind, left, spilled, pc>>
    BY <1>4, Zenon DEF Opening, SetFlags, Release, Unregister, Cancel,
       Free, UnboundTestFails, Elsewhere, ElsewhereDone, SetLoopCount, vars,
       file_vars, boot_vars, read_vars
  <2>. QED
    BY <1>3, <2>1, Zenon
<1>5. CASE \/ Ask("procfs") \/ AskInterrupted("procfs")
           \/ LockShow("procfs") \/ Show("procfs")
           \/ Expire \/ LockTest("work") \/ Test("work") \/ Requeue
  <2>1. /\ UNCHANGED <<kind, left, spilled>>
        /\ \E a \in {"procfs", "work"} : \E label : Goto(a, label)
    BY <1>5, Zenon DEF Ask, AskInterrupted, LockShow, Show, Expire, LockTest,
       Test, Requeue, file_vars, boot_vars, read_vars
  <2>2. \A r \in Reader : pc'[r] = pc[r]
    BY <1>1, <2>1, Zenon DEF Goto
  <2>. QED
    BY <1>3, <2>1, <2>2, Zenon
<1>. QED
  BY <1>2, <1>4, <1>5, Zenon DEF Next, ThreadActs

-----------------------------------------------------------------------------
(* The theorems on the context and the reads *)

\* The mutex, the collector, the threads and the work item of an instance stay
\* consistent, whoever comes for it in whatever order.
THEOREM ContextInvariant == Spec => []ContextInv
  BY ContextInitially, ContextPreserved, PTL DEF Spec

\* Where a thread is in its read says what the read has delivered, recorded and
\* is about to return, whatever the other threads do.
THEOREM ReadInvariant == Spec => []ReadInv
  BY ContextInvariant, ReadsInitially, ReadsPreserved, PTL DEF Spec

\* No recovery of jent_read_entropy_safe() and no end of an instance -
\* jent_chardev_release(), jent_hwrng_exit(), jent_kcapi_tfm_cleanup() - frees a
\* collector that the status, a self test or another read is using, with any
\* number of threads; and a freed context is at rest.
THEOREM CollectorOutlivesUse == Spec => []NoUseAfterFree
<1>1. ContextInv => NoUseAfterFree
  <2>. SUFFICES ASSUME ContextInv PROVE NoUseAfterFree
    BY Zenon
  <2>1. LockShape /\ PhaseShape
    BY Zenon DEF ContextInv
  <2>2. ASSUME NEW a \in Actor, pc[a] \in Critical
        PROVE  using[a] = ec /\ ec # None
    BY <2>1, <2>2, Zenon DEF LockShape, PhaseShape, Critical
  <2>3. ASSUME ec = None
        PROVE  lock \notin Actor /\ work = "idle" /\ \A a \in Actor : pc[a] = "idle"
    BY <2>1, <2>3, Zenon DEF LockShape, PhaseShape, Critical
  <2>. QED
    BY <2>2, <2>3, Zenon DEF NoUseAfterFree, Critical
<1>. QED
  BY <1>1, ContextInvariant, PTL

\* Part of a chunk that is not reported belongs to a read of a file that ended
\* with the fault, and had asked for that chunk.
THEOREM SpillInvariant == Spec => []SpillInv
<1>1. Init => SpillInv
  BY Zenon DEF Init, SpillInv
<1>. QED
  BY <1>1, SpillsPreserved, ContextInvariant, ReadInvariant, PTL DEF Spec

\* A read of any length returns the whole chunks and samples it delivered, through
\* jent_chardev_read(), jent_hwrng_read(), jent_kcapi_random() and
\* jent_testing_extract_user() alike; what it does not report is a part of the
\* one chunk of jent_chardev_read() whose copy faulted.
THEOREM ReadsReportDelivered == Spec => []ReadReportsDelivered
<1>1. ReadInv /\ SpillInv => ReadReportsDelivered
  BY Zenon DEF ReadInv, ReadAt, Reported, SpillInv, ReadReportsDelivered
<1>. QED
  BY <1>1, ReadInvariant, SpillInvariant, PTL

\* Only the end of its own generation takes a thread away from the collector.
LEMMA OnlyGenerates ==
  ASSUME ContextInv, [Next]_vars, NEW r \in Reader, pc[r] = "generate",
         pc'[r] # "generate"
  PROVE  Generate(r)
<1>1. /\ pc \in [Actor -> Label] /\ r \in Actor /\ r # "procfs" /\ r # "work"
      /\ phase # "closed"
  BY InstanceAssumption, Zenon DEF ContextInv, ContextTypes, PhaseShape, Actor
<1>2. pc' # pc
  BY Zenon
<1>3. ASSUME NEW a \in Actor, NEW label, Goto(a, label) PROVE a = r
  BY <1>1, <1>3, Zenon DEF Goto
<1>4. ASSUME NEW q \in Reader,
             \/ Open(q) \/ OpenInterrupted(q) \/ Request(q)
             \/ \E n \in 1 .. MaxSamples : Extract(q, n)
             \/ ExtractInterrupted(q)
             \/ \E n \in 1 .. MaxChunks : Read(q, n)
             \/ Order(q) \/ Ask(q) \/ LockReadFails(q) \/ AskInterrupted(q)
             \/ Locks(q) \/ Inside(q)
      PROVE  q = r /\ Generate(r)
  <2>1. (\E label : Goto(q, label)) \/ pc' = pc
    BY <1>4, Zenon DEF Open, OpenInterrupted, Request, Extract,
       ExtractInterrupted, Read, Order, Ask, LockReadFails, AskInterrupted,
       Locks, LockRead, LockShow, LockTest, Snapshot, LockBatch, Inside,
       Iterate, Generate, Copy, CopyFaults, Return, Show, Test, NextBatch,
       Sample, EndBatch, Deliver
  <2>2. q = r
    BY <1>2, <1>3, <2>1, Zenon DEF Actor
  <2>. QED
    BY <1>1, <1>4, <2>2, Zenon DEF Open, OpenInterrupted, Request, Extract,
       ExtractInterrupted, Read, Order, Ask, LockReadFails, AskInterrupted,
       Locks, LockRead, LockShow, LockTest, Snapshot, LockBatch, Inside,
       Iterate, Copy, CopyFaults, Return, Show, Test, NextBatch, Sample,
       EndBatch, Deliver
<1>5. ~(\/ Ask("procfs") \/ AskInterrupted("procfs")
        \/ LockShow("procfs") \/ Show("procfs")
        \/ Expire \/ LockTest("work") \/ Test("work") \/ Requeue)
  <2>1. "procfs" \in Actor /\ "work" \in Actor
    BY Zenon DEF Actor
  <2>. QED
    BY <1>1, <1>3, <2>1, Zenon DEF Ask, AskInterrupted, LockShow, Show, Expire,
       LockTest, Test, Requeue
<1>6. ~(\/ \E p \in Opener : Opening(p)
        \/ SetFlags \/ Release \/ Unregister \/ Cancel \/ Free
        \/ UnboundTestFails \/ Elsewhere \/ ElsewhereDone
        \/ \E c \in LoopCount : SetLoopCount(c)
        \/ UNCHANGED vars)
  BY <1>2, Zenon DEF Opening, SetFlags, Release, Unregister, Cancel, Free,
     UnboundTestFails, Elsewhere, ElsewhereDone, SetLoopCount, vars
<1>. QED
  BY <1>4, <1>5, <1>6, Zenon DEF Next

\* Only another instance gets rid of a failed self test.
LEMMA FailureStays ==
  ASSUME ContextInv, [Next]_vars, failed, phase' # "closed"
  PROVE  failed'
<1>1. failed \in BOOLEAN /\ phase # "closed"
  BY Zenon DEF ContextInv, ContextTypes, PhaseShape
<1>2. (\E r \in Reader : Test(r)) \/ Test("work") \/ failed' = failed
  <2>1. ASSUME NEW r \in Reader,
               \/ Open(r) \/ OpenInterrupted(r) \/ Request(r)
               \/ \E n \in 1 .. MaxSamples : Extract(r, n)
               \/ ExtractInterrupted(r)
               \/ \E n \in 1 .. MaxChunks : Read(r, n)
               \/ Order(r) \/ Ask(r) \/ LockReadFails(r) \/ AskInterrupted(r)
               \/ Locks(r) \/ Inside(r)
        PROVE  Test(r) \/ failed' = failed
    BY <1>1, <2>1, Zenon DEF Open, OpenInterrupted, Request, Extract,
       ExtractInterrupted, Read, Order, Ask, LockReadFails, AskInterrupted,
       Locks, LockRead, LockShow, LockTest, Snapshot, LockBatch, Inside,
       Iterate, Generate, Copy, CopyFaults, Return, Show, NextBatch, Sample,
       EndBatch, Deliver
  <2>2. ASSUME \/ Ask("procfs") \/ AskInterrupted("procfs")
               \/ LockShow("procfs") \/ Show("procfs")
               \/ Expire \/ LockTest("work") \/ Requeue
        PROVE  failed' = failed
    BY <2>2, Zenon DEF Ask, AskInterrupted, LockShow, Show, Expire, LockTest,
       Requeue
  <2>3. ASSUME \/ \E p \in Opener : Opening(p)
               \/ SetFlags \/ Release \/ Unregister \/ Cancel \/ Free
               \/ UnboundTestFails \/ Elsewhere \/ ElsewhereDone
               \/ \E c \in LoopCount : SetLoopCount(c)
               \/ UNCHANGED vars
        PROVE  failed' = failed
    BY <2>3, Zenon DEF Opening, SetFlags, Release, Unregister, Cancel, Free,
       UnboundTestFails, Elsewhere, ElsewhereDone, SetLoopCount, vars
  <2>. QED
    BY <2>1, <2>2, <2>3, Zenon DEF Next
<1>. QED
  BY <1>1, <1>2, Zenon DEF Test

\* A failure of jent_selftest_execute() keeps its instance out of service to the
\* end: no read generates from it, and no later run takes the failure back.
THEOREM FailuresKept == Spec => FailureKept
<1>1. ASSUME ContextInv, [Next]_vars, failed, NEW r \in Reader,
             pc[r] = "generate", pc'[r] # "generate"
      PROVE  pc'[r] # "copy" /\ copied'[r] = copied[r]
  <2>1. Generate(r)
    BY <1>1, OnlyGenerates, Zenon
  <2>2. \A o \in Outcome(r) : o[3] = "permanent"
    BY <1>1 DEF Outcome, ContextInv, PhaseShape
  <2>3. copied' = copied
    BY <2>1, <2>2, Zenon DEF Generate
  <2>4. r \in Actor /\ pc \in [Actor -> Label]
    BY <1>1, Zenon DEF Actor, ContextInv, ContextTypes
  <2>5. pc'[r] # "copy"
    BY <2>1, <2>2, <2>4, Zenon DEF Generate, Goto
  <2>. QED
    BY <2>3, <2>5, Zenon
<1>2. ContextInv /\ [Next]_vars
        => [failed /\ phase' # "closed" =>
              /\ failed'
              /\ \A r \in Reader : pc[r] = "generate" /\ pc'[r] # "generate" =>
                                    pc'[r] # "copy" /\ copied'[r] = copied[r]]_vars
  BY <1>1, FailureStays, Zenon
<1>. QED
  BY <1>2, ContextInvariant, PTL DEF Spec, FailureKept

-----------------------------------------------------------------------------
(* The slots *)

OpeningValue == {"idle", "read", "try", "denied", "slot", "open"}

SlotTypeOK ==
  /\ open_instances \in Nat
  /\ opening \in [Opener -> OpeningValue]
  /\ cur \in [Opener -> Nat]
  /\ limit \in [Opener -> {0, max_instances}]
  /\ full \in [Opener -> {0, 1}]

\* An opener without the privilege only ever asks within the limit.
AsksWithin ==
  \A p \in Opener \ Privileged :
    opening[p] \in {"read", "try"} => limit[p] = max_instances

\* What an opener has read and would refuse, it has seen.
SeenFull ==
  \A p \in Opener :
    opening[p] = "try" /\ Slots!Refuses(limit[p], cur[p]) => full[p] = 1

\* The inductive invariant of the slots.
SlotInv ==
  /\ SlotTypeOK
  /\ AsksWithin
  /\ SeenFull
  /\ Slots!SlotsCounted
  /\ Slots!LimitKept
  /\ Slots!RefusedOnlyWhenFull

\* The steps of an opener that neither take nor return a slot.
Passes(p) ==
  \/ Slots!Ask(p) \/ Slots!Load(p) \/ Slots!Refused(p) \/ Slots!SwapFails(p)
  \/ Slots!Exempt(p) \/ Slots!Deny(p) \/ Slots!Allocated(p)

\* InstanceSlots counts as this module does.
LEMMA SameCardinality == \A S : Slots!Cardinality(S) = Cardinality(S)
  BY Zenon DEF Slots!Cardinality, Cardinality

\* The holders of a slot are finitely many.
LEMMA HoldersFinite ==
  /\ IsFiniteSet(Slots!Holders)
  /\ Cardinality(Slots!Holders) \in Nat
  /\ IsFiniteSet(Slots!Within)
  /\ Cardinality(Slots!Within) \in Nat
  /\ Cardinality(Slots!Within) <= Cardinality(Slots!Holders)
<1>0. IsFiniteSet(Opener) /\ max_instances \in Nat
  BY InstanceAssumption, Zenon
<1>. USE <1>0
<1>1. IsFiniteSet(Slots!Holders)
  BY FS_Subset, Zenon DEF Slots!Holders
<1>2. Slots!Within \subseteq Slots!Holders
  BY Zenon DEF Slots!Within
<1>. QED
  BY <1>1, <1>2, FS_Subset, FS_CardinalityType, Zenon

\* Nobody holds a slot at the beginning.
LEMMA SlotInvInit ==
  Slots!Init => SlotInv
<1>0. IsFiniteSet(Opener) /\ max_instances \in Nat
  BY InstanceAssumption, Zenon
<1>. USE <1>0
<1>. SUFFICES ASSUME Slots!Init PROVE SlotInv
  BY Zenon
<1>1. Slots!Holders = {} /\ Slots!Within = {}
  BY Zenon DEF Slots!Init, Slots!Holders, Slots!Within
<1>2. Slots!SlotsCounted /\ Slots!LimitKept
  BY SameCardinality, <1>1, FS_EmptySet DEF Slots!Init, Slots!SlotsCounted,
     Slots!LimitKept
<1>3. SlotTypeOK
  BY Zenon DEF Slots!Init, SlotTypeOK, OpeningValue
<1>. QED
  BY <1>2, <1>3, Zenon DEF Slots!Init, SlotInv, AsksWithin, SeenFull,
     Slots!RefusedOnlyWhenFull

\* A step of an opener, as far as types go.
LEMMA SlotTypeKept ==
  ASSUME SlotInv, NEW p \in Opener, Passes(p)
  PROVE  SlotTypeOK'
<1>0. IsFiniteSet(Opener) /\ max_instances \in Nat
  BY InstanceAssumption, Zenon
<1>. USE <1>0
<1>1. full' \in [Opener -> {0, 1}]
  BY Zenon DEF Passes, Slots!Ask, Slots!Load, Slots!Refused, Slots!SwapFails,
     Slots!Exempt, Slots!Deny, Slots!Allocated, Slots!Watch
<1>2. /\ open_instances' \in Nat
      /\ opening' \in [Opener -> OpeningValue]
      /\ cur' \in [Opener -> Nat]
      /\ limit' \in [Opener -> {0, max_instances}]
  BY DEF Passes, SlotInv, SlotTypeOK, OpeningValue, Slots!Ask, Slots!Load,
     Slots!Refused, Slots!SwapFails, Slots!Exempt, Slots!Deny, Slots!Allocated
<1>. QED
  BY <1>1, <1>2, Zenon DEF SlotTypeOK

\* What the opener that steps, and every other one, has seen.
LEMMA SeenKept ==
  ASSUME SlotInv, SlotTypeOK', NEW p \in Opener,
         \/ Passes(p) \/ Slots!Swap(p) \/ Slots!AllocationFails(p)
         \/ Slots!Close(p)
  PROVE  AsksWithin' /\ SeenFull' /\ Slots!RefusedOnlyWhenFull'
<1>0. IsFiniteSet(Opener) /\ max_instances \in Nat
  BY InstanceAssumption, Zenon
<1>. USE <1>0
<1>1. SUFFICES ASSUME NEW q \in Opener
      PROVE  /\ q \notin Privileged /\ opening'[q] \in {"read", "try"}
                  => limit'[q] = max_instances
             /\ opening'[q] = "try" /\ Slots!Refuses(limit'[q], cur'[q])
                  => full'[q] = 1
             /\ opening'[q] = "denied" => full'[q] = 1
  BY Zenon DEF AsksWithin, SeenFull, Slots!RefusedOnlyWhenFull, Slots!Refuses
<1>2. /\ opening \in [Opener -> OpeningValue] /\ cur \in [Opener -> Nat]
      /\ limit \in [Opener -> {0, max_instances}]
      /\ open_instances \in Nat
  BY Zenon DEF SlotInv, SlotTypeOK
<1>3. /\ q \notin Privileged /\ opening[q] \in {"read", "try"}
           => limit[q] = max_instances
      /\ opening[q] = "try" /\ Slots!Refuses(limit[q], cur[q]) => full[q] = 1
      /\ opening[q] = "denied" => full[q] = 1
  BY Zenon DEF SlotInv, AsksWithin, SeenFull, Slots!RefusedOnlyWhenFull
<1>4. CASE q # p
  <2>1. opening'[q] = opening[q] /\ limit'[q] = limit[q] /\ cur'[q] = cur[q]
    BY <1>2, <1>4, Zenon DEF Passes, Slots!Ask, Slots!Load, Slots!Refused,
       Slots!Swap, Slots!SwapFails, Slots!Exempt, Slots!Deny, Slots!Allocated,
       Slots!AllocationFails, Slots!Close
  <2>2. opening[q] \in {"try", "denied"} /\ full[q] = 1 => full'[q] = 1
    BY <1>4, Zenon DEF Passes, Slots!Ask, Slots!Load, Slots!Refused,
       Slots!Swap, Slots!SwapFails, Slots!Exempt, Slots!Deny, Slots!Allocated,
       Slots!AllocationFails, Slots!Close, Slots!Watch, Slots!Inside
  <2>. QED
    BY <1>3, <2>1, <2>2, Zenon
<1>5. CASE q = p
  <2>1. CASE Slots!Ask(p)
    BY <1>2, <1>5, <2>1, Zenon DEF Slots!Ask
  <2>2. CASE Slots!Load(p)
    <3>1. /\ opening'[p] = "try" /\ limit'[p] = limit[p]
          /\ cur'[p] = open_instances
          /\ open_instances' = open_instances /\ opening[p] = "read"
          /\ Slots!Watch(Slots!Inside)
      BY <1>2, <2>2, Zenon DEF Slots!Load
    <3>2. Slots!Refuses(limit[p], open_instances) => Slots!Full(open_instances)
      BY <1>2, Zenon DEF Slots!Refuses, Slots!Full
    <3>3. Slots!Full(open_instances) => full'[p] = 1
      BY <3>1, Zenon DEF Slots!Watch, Slots!Inside
    <3>. QED
      BY <1>3, <1>5, <3>1, <3>2, <3>3, Zenon
  <2>3. CASE Slots!Refused(p)
    <3>1. full'[p] = 1
      BY <1>3, <1>5, <2>3, Zenon DEF Slots!Refused, Slots!Watch, Slots!Inside
    <3>. QED
      BY <1>2, <1>5, <2>3, <3>1, Zenon DEF Slots!Refused
  <2>4. CASE Slots!SwapFails(p)
    <3>1. /\ opening'[p] = "try" /\ limit'[p] = limit[p]
          /\ cur'[p] = open_instances
          /\ open_instances' = open_instances /\ opening[p] = "try"
          /\ Slots!Watch(Slots!Inside)
      BY <1>2, <2>4, Zenon DEF Slots!SwapFails
    <3>2. Slots!Refuses(limit[p], open_instances) => Slots!Full(open_instances)
      BY <1>2, Zenon DEF Slots!Refuses, Slots!Full
    <3>3. Slots!Full(open_instances) => full'[p] = 1
      BY <3>1, Zenon DEF Slots!Watch, Slots!Inside
    <3>. QED
      BY <1>3, <1>5, <3>1, <3>2, <3>3, Zenon
  <2>5. CASE Slots!Exempt(p)
    BY <1>2, <1>5, <2>5, Zenon DEF Slots!Exempt
  <2>6. CASE \/ Slots!Swap(p) \/ Slots!Deny(p) \/ Slots!Allocated(p)
            \/ Slots!AllocationFails(p) \/ Slots!Close(p)
    <3>1. opening'[p] \in {"slot", "idle", "open"}
      BY <1>2, <2>6, Zenon DEF Passes, Slots!Swap, Slots!Deny, Slots!Allocated,
         Slots!AllocationFails, Slots!Close
    <3>. QED
      BY <1>5, <3>1, Zenon
  <2>. QED
    BY <2>1, <2>2, <2>3, <2>4, <2>5, <2>6, Zenon DEF Passes
<1>. QED
  BY <1>4, <1>5, Zenon

\* A step that neither takes nor returns a slot.
LEMMA CountKept ==
  ASSUME SlotInv, NEW p \in Opener, Passes(p)
  PROVE  SlotInv'
<1>0. IsFiniteSet(Opener) /\ max_instances \in Nat
  BY InstanceAssumption, Zenon
<1>. USE <1>0
<1>1. opening \in [Opener -> OpeningValue] /\ open_instances' = open_instances
  BY Zenon DEF Passes, SlotInv, SlotTypeOK, Slots!Ask, Slots!Load,
     Slots!Refused, Slots!SwapFails, Slots!Exempt, Slots!Deny, Slots!Allocated
<1>2. Slots!Holders' = Slots!Holders
  BY <1>1, Zenon DEF Passes, Slots!Holders, Slots!Ask, Slots!Load,
     Slots!Refused, Slots!SwapFails, Slots!Exempt, Slots!Deny, Slots!Allocated
<1>3. Slots!Within' = Slots!Within
  <2>1. p \notin Slots!Holders' \/ limit' = limit
    BY <1>1, Zenon DEF Passes, Slots!Holders, Slots!Ask, Slots!Load,
       Slots!Refused, Slots!SwapFails, Slots!Exempt, Slots!Deny,
       Slots!Allocated
  <2>2. \A q \in Opener : q # p => limit'[q] = limit[q]
    BY Zenon DEF Passes, SlotInv, SlotTypeOK, Slots!Ask, Slots!Load,
       Slots!Refused, Slots!SwapFails, Slots!Exempt, Slots!Deny,
       Slots!Allocated
  <2>. QED
    BY <1>2, <2>1, <2>2, Zenon DEF Slots!Within, Slots!Holders
<1>4. Slots!SlotsCounted' /\ Slots!LimitKept'
  BY <1>1, <1>2, <1>3, Zenon DEF SlotInv, Slots!SlotsCounted, Slots!LimitKept
<1>. QED
  BY <1>4, SlotTypeKept, SeenKept, Zenon DEF SlotInv

\* The slot that compare and swap takes is one the limit leaves to an opener
\* without the privilege.
LEMMA SwapKeeps ==
  ASSUME SlotInv,
         NEW p \in Opener, Slots!Swap(p)
  PROVE  SlotInv'
<1>0. IsFiniteSet(Opener) /\ max_instances \in Nat
  BY InstanceAssumption, Zenon
<1>. USE <1>0
<1>1. /\ opening \in [Opener -> OpeningValue]
      /\ limit \in [Opener -> {0, max_instances}]
      /\ open_instances \in Nat
      /\ open_instances' = open_instances + 1
      /\ opening' = [opening EXCEPT ![p] = "slot"] /\ opening[p] = "try"
      /\ cur[p] = open_instances /\ ~Slots!Refuses(limit[p], cur[p])
      /\ cur' = [cur EXCEPT ![p] = 0]
      /\ UNCHANGED limit
  BY Zenon DEF SlotInv, SlotTypeOK, Slots!Swap, Slots!StillCurrent
<1>2. SlotTypeOK'
  <2>1. full' \in [Opener -> {0, 1}]
    BY Zenon DEF Slots!Swap, Slots!Watch
  <2>2. opening' \in [Opener -> OpeningValue] /\ open_instances' \in Nat
    BY <1>1 DEF OpeningValue
  <2>. QED
    BY <1>1, <2>1, <2>2, Zenon DEF SlotInv, SlotTypeOK
<1>3. Slots!Holders' = Slots!Holders \cup {p} /\ p \notin Slots!Holders
  BY <1>1, Zenon DEF Slots!Holders
<1>4. IsFiniteSet(Slots!Holders) /\ open_instances = Cardinality(Slots!Holders)
  BY SameCardinality, HoldersFinite, Zenon DEF SlotInv, Slots!SlotsCounted
<1>5. Slots!SlotsCounted'
  BY SameCardinality, <1>1, <1>3, <1>4, FS_AddElement, Zenon DEF
     Slots!SlotsCounted
<1>6. Slots!LimitKept'
  <2>1. CASE p \in Privileged /\ limit[p] = 0
    <3>1. Slots!Within' = Slots!Within
      BY <1>1, <1>3, <2>1, Zenon DEF Slots!Within
    <3>. QED
      BY <3>1, Zenon DEF SlotInv, Slots!LimitKept
  <2>2. CASE p \notin Privileged \/ limit[p] # 0
    <3>1. max_instances # 0 => open_instances + 1 <= max_instances
      BY <1>1, <2>2, InstanceAssumption DEF SlotInv, AsksWithin, Slots!Refuses
    <3>2. /\ IsFiniteSet(Slots!Holders')
          /\ Cardinality(Slots!Holders') = open_instances + 1
      BY <1>3, <1>4, FS_AddElement, Zenon
    <3>3. Slots!Within' \subseteq Slots!Holders'
      BY Zenon DEF Slots!Within
    <3>4. /\ Cardinality(Slots!Within') \in Nat
          /\ Cardinality(Slots!Within') <= Cardinality(Slots!Holders')
      BY <3>2, <3>3, FS_Subset, FS_CardinalityType, Zenon
    <3>. QED
      BY SameCardinality, <1>1, <3>1, <3>2, <3>4 DEF Slots!LimitKept
  <2>. QED
    BY <2>1, <2>2, Zenon
<1>. QED
  BY <1>2, <1>5, <1>6, SeenKept, Zenon DEF SlotInv

\* A slot given back is one that was held.
LEMMA PutKeeps ==
  ASSUME SlotInv,
         NEW p \in Opener, Slots!AllocationFails(p) \/ Slots!Close(p)
  PROVE  SlotInv'
<1>0. IsFiniteSet(Opener) /\ max_instances \in Nat
  BY InstanceAssumption, Zenon
<1>. USE <1>0
<1>1. /\ opening \in [Opener -> OpeningValue] /\ open_instances \in Nat
      /\ open_instances' = open_instances - 1
      /\ opening' = [opening EXCEPT ![p] = "idle"]
      /\ opening[p] \in {"slot", "open"}
      /\ limit \in [Opener -> {0, max_instances}]
      /\ limit' = [limit EXCEPT ![p] = 0]
      /\ UNCHANGED cur
  BY Zenon DEF SlotInv, SlotTypeOK, Slots!AllocationFails, Slots!Close,
     Slots!Returned
<1>2. Slots!Holders' = Slots!Holders \ {p} /\ p \in Slots!Holders
  BY <1>1, Zenon DEF Slots!Holders
<1>3. IsFiniteSet(Slots!Holders) /\ open_instances = Cardinality(Slots!Holders)
  BY SameCardinality, HoldersFinite, Zenon DEF SlotInv, Slots!SlotsCounted
<1>4. /\ Slots!SlotsCounted' /\ open_instances' \in Nat
  <2>1. /\ IsFiniteSet(Slots!Holders \ {p})
        /\ Cardinality(Slots!Holders \ {p}) = open_instances - 1
    BY <1>2, <1>3, FS_RemoveElement, Zenon
  <2>2. Cardinality(Slots!Holders \ {p}) \in Nat
    BY <2>1, FS_CardinalityType, Zenon
  <2>. QED
    BY SameCardinality, <1>1, <1>2, <2>1, <2>2, Zenon DEF Slots!SlotsCounted
<1>5. Slots!LimitKept'
  <2>1. Slots!Within' \subseteq Slots!Within
    BY <1>1, <1>2, Zenon DEF Slots!Within, Slots!Holders
  <2>2. /\ Cardinality(Slots!Within') <= Cardinality(Slots!Within)
        /\ Cardinality(Slots!Within') \in Nat
        /\ Cardinality(Slots!Within) \in Nat
    BY <2>1, HoldersFinite, FS_Subset, FS_CardinalityType, Zenon
  <2>. QED
    BY SameCardinality, <2>2 DEF SlotInv, Slots!LimitKept
<1>6. SlotTypeOK'
  <2>1. full' \in [Opener -> {0, 1}]
    BY Zenon DEF Slots!AllocationFails, Slots!Close, Slots!Watch
  <2>. QED
    BY <1>1, <1>4, <2>1, Zenon DEF SlotInv, SlotTypeOK, OpeningValue
<1>. QED
  BY <1>4, <1>5, <1>6, SeenKept, Zenon DEF SlotInv

\* Nothing else touches the slots.
LEMMA SlotsUntouched == SlotInv /\ UNCHANGED slot_vars => SlotInv'
<1>. SUFFICES ASSUME SlotInv, UNCHANGED slot_vars PROVE SlotInv'
  BY Zenon
<1>1. UNCHANGED <<open_instances, opening, cur, limit, full>>
  BY Zenon DEF slot_vars
<1>. QED
  BY <1>1, Zenon DEF SlotInv, SlotTypeOK, AsksWithin, SeenFull,
     Slots!SlotsCounted, Slots!LimitKept, Slots!RefusedOnlyWhenFull,
     Slots!Holders, Slots!Within, Slots!Refuses

-----------------------------------------------------------------------------
(* The slot of the file *)

\* A file has its slot exactly as long as there is something of its instance.
FileHolds == kind = "file" => (phase # "closed" <=> opening[File] = "open")

\* The step of an opener.
LEMMA OpeningHolds ==
  ASSUME SlotInv, FileHolds, NEW p \in Opener, Opening(p)
  PROVE  SlotInv' /\ FileHolds'
<1>1. SlotInv'
  BY CountKept, SwapKeeps, PutKeeps, Zenon DEF Opening, Passes
<1>2. File \in Opener /\ opening \in [Opener -> OpeningValue]
  BY InstanceAssumption, Zenon DEF SlotInv, SlotTypeOK
<1>3. opening'[File] = "open" <=> opening[File] = "open"
  BY <1>2, Zenon DEF Opening, Slots!Ask, Slots!Load, Slots!Refused, Slots!Swap,
     Slots!SwapFails, Slots!Exempt, Slots!Deny, Slots!Allocated,
     Slots!AllocationFails, Slots!Close
<1>4. UNCHANGED <<kind, phase>>
  BY Zenon DEF Opening, boot_vars
<1>. QED
  BY <1>1, <1>3, <1>4, Zenon DEF FileHolds

\* The step that makes the instance, and the one that ends it.
LEMMA OpenHolds ==
  ASSUME ContextInv, SlotInv, FileHolds, (\E r \in Reader : Open(r)) \/ Free
  PROVE  SlotInv' /\ FileHolds'
<1>1. File \in Opener /\ opening \in [Opener -> OpeningValue] /\ kind' = kind
  BY InstanceAssumption, Zenon DEF SlotInv, SlotTypeOK, Open, Free, boot_vars
<1>2. CASE kind # "file"
  <2>1. UNCHANGED slot_vars
    BY <1>2, Zenon DEF Open, Free
  <2>. QED
    BY <1>1, <1>2, <2>1, SlotsUntouched, Zenon DEF FileHolds
<1>3. CASE kind = "file" /\ \E r \in Reader : Open(r)
  <2>1. Slots!Allocated(File) /\ phase' \in {"opening", "open"}
    BY <1>3, Zenon DEF Open
  <2>2. opening'[File] = "open"
    BY <1>1, <2>1, Zenon DEF Slots!Allocated
  <2>3. SlotInv'
    BY <1>1, <2>1, CountKept, Zenon DEF Passes
  <2>. QED
    BY <2>1, <2>2, <2>3, Zenon DEF FileHolds
<1>4. CASE kind = "file" /\ Free
  <2>1. Slots!Close(File) /\ phase' = "closed"
    BY <1>4, Zenon DEF Free
  <2>2. opening'[File] = "idle"
    BY <1>1, <2>1, Zenon DEF Slots!Close
  <2>3. SlotInv'
    BY <1>1, <2>1, PutKeeps, Zenon
  <2>. QED
    BY <2>1, <2>2, <2>3, Zenon DEF FileHolds
<1>. QED
  BY <1>2, <1>3, <1>4, Zenon

\* The steps inside a file leave the slots alone, and neither make an instance
\* nor end one; only a failing open of the test interface ends one too.
LEMMA InsideHolds ==
  ASSUME ContextInv, [Next]_vars,
         ~(\E p \in Opener : Opening(p)), ~(\E r \in Reader : Open(r)), ~Free
  PROVE  /\ UNCHANGED <<kind, slot_vars>>
         /\ (phase' = "closed" <=> phase = "closed") \/ kind = "raw"
<1>1. CASE \/ SetFlags \/ Release \/ Unregister \/ Cancel
           \/ UnboundTestFails \/ Elsewhere \/ ElsewhereDone
           \/ \E c \in LoopCount : SetLoopCount(c)
           \/ UNCHANGED vars
  BY <1>1, Zenon DEF SetFlags, Release, Unregister, Cancel, UnboundTestFails,
     Elsewhere, ElsewhereDone, SetLoopCount, vars, file_vars, boot_vars
<1>2. ASSUME NEW r \in Reader,
             \/ OpenInterrupted(r) \/ Request(r)
             \/ \E n \in 1 .. MaxSamples : Extract(r, n)
             \/ ExtractInterrupted(r)
             \/ \E n \in 1 .. MaxChunks : Read(r, n)
             \/ Order(r) \/ Ask(r) \/ LockReadFails(r) \/ AskInterrupted(r)
             \/ Locks(r)
      PROVE  /\ UNCHANGED <<kind, slot_vars>>
             /\ (phase' = "closed" <=> phase = "closed") \/ kind = "raw"
  BY <1>2, Zenon DEF OpenInterrupted, Request, Extract, ExtractInterrupted,
     Read, Order, Ask, LockReadFails, AskInterrupted, Locks, LockRead,
     LockShow, LockTest, Snapshot, LockBatch, file_vars, boot_vars
<1>3. ASSUME NEW r \in Reader, Inside(r)
      PROVE  /\ UNCHANGED <<kind, slot_vars>>
             /\ phase' = "closed" <=> phase = "closed"
  BY <1>3, Zenon DEF Inside, Iterate, Generate, Copy, CopyFaults, Return, Show,
     Test, NextBatch, Sample, EndBatch, Deliver, file_vars, boot_vars
<1>4. CASE \/ Ask("procfs") \/ AskInterrupted("procfs")
           \/ LockShow("procfs") \/ Show("procfs")
           \/ Expire \/ LockTest("work") \/ Test("work") \/ Requeue
  BY <1>4, Zenon DEF Ask, AskInterrupted, LockShow, Show, Expire, LockTest,
     Test, Requeue, file_vars, boot_vars
<1>. QED
  BY <1>1, <1>2, <1>3, <1>4, Zenon DEF Next

\* Every step keeps the slots.
LEMMA SlotsPreserved ==
  ContextInv /\ SlotInv /\ FileHolds /\ [Next]_vars => SlotInv' /\ FileHolds'
<1>. SUFFICES ASSUME ContextInv, SlotInv, FileHolds, [Next]_vars
              PROVE  SlotInv' /\ FileHolds'
  BY Zenon
<1>1. CASE \E p \in Opener : Opening(p)
  BY <1>1, OpeningHolds, Zenon
<1>2. CASE (\E r \in Reader : Open(r)) \/ Free
  BY <1>2, OpenHolds, Zenon
<1>3. CASE ~(\E p \in Opener : Opening(p)) /\ ~(\E r \in Reader : Open(r)) /\ ~Free
  <2>1. /\ UNCHANGED <<kind, slot_vars>>
        /\ (phase' = "closed" <=> phase = "closed") \/ kind = "raw"
    BY <1>3, InsideHolds, Zenon
  <2>2. UNCHANGED opening
    BY <2>1, Zenon DEF slot_vars
  <2>. QED
    BY <2>1, <2>2, SlotsUntouched, Zenon DEF FileHolds
<1>. QED
  BY <1>1, <1>2, <1>3, Zenon

-----------------------------------------------------------------------------
(* The theorems on the slots and the recordings *)

KernelInstanceInv == ContextInv /\ SlotInv /\ FileHolds

\* The slots stay consistent with one another and with the instance.
THEOREM KernelInstanceInvariant == Spec => []KernelInstanceInv
<1>1. Init => KernelInstanceInv
  <2>. SUFFICES ASSUME Init PROVE KernelInstanceInv
    BY Zenon
  <2>1. Slots!Init /\ phase = "closed"
    BY Zenon DEF Init
  <2>2. FileHolds
    BY <2>1, InstanceAssumption, Zenon DEF FileHolds, Slots!Init
  <2>. QED
    BY <2>1, <2>2, ContextInitially, SlotInvInit, Zenon DEF KernelInstanceInv
<1>2. KernelInstanceInv /\ [Next]_vars => KernelInstanceInv'
  BY ContextPreserved, SlotsPreserved, Zenon DEF KernelInstanceInv
<1>. QED
  BY <1>1, <1>2, PTL DEF Spec

\* jent_proc_instance_inc() and jent_proc_instance_dec() count, limit and refuse
\* the slots exactly, and a file of jent_chardev_open() has its slot as long as it
\* has its collector, with any number of processes and any limit.
THEOREM FilesHoldSlots == Spec => []SlotsExact
<1>1. KernelInstanceInv => SlotsExact
  <2>. SUFFICES ASSUME KernelInstanceInv PROVE SlotsExact
    BY Zenon
  <2>1. Slots!SlotsExact
    BY Zenon DEF KernelInstanceInv, SlotInv, Slots!SlotsExact
  <2>2. kind = "file" /\ ec # None => opening[File] = "open"
    BY Zenon DEF KernelInstanceInv, ContextInv, PhaseShape, FileHolds
  <2>. QED
    BY <2>1, <2>2, Zenon DEF SlotsExact
<1>. QED
  BY <1>1, KernelInstanceInvariant, PTL

\* jent_chardev_open() and jent_chardev_release() use the slots as InstanceSlots
\* says, so that an instance implements it.
THEOREM InstanceTakesSlots == Spec => Slots!Spec
<1>1. Init => Slots!Init
  BY Zenon DEF Init
<1>2. KernelInstanceInv /\ [Next]_vars => [Slots!Next]_(Slots!slot_vars)
  <2>. SUFFICES ASSUME KernelInstanceInv, [Next]_vars
                PROVE  Slots!Next \/ UNCHANGED slot_vars
    BY Zenon DEF Slots!slot_vars, slot_vars
  <2>1. CASE \E p \in Opener : Opening(p)
    BY <2>1, Zenon DEF Opening, Slots!Next
  <2>2. CASE (\E r \in Reader : Open(r)) \/ Free
    BY <2>2, InstanceAssumption, Zenon DEF Open, Free, Slots!Next
  <2>3. CASE ~(\E p \in Opener : Opening(p)) /\ ~(\E r \in Reader : Open(r)) /\ ~Free
    BY <2>3, InsideHolds, Zenon DEF KernelInstanceInv
  <2>. QED
    BY <2>1, <2>2, <2>3, Zenon
<1>. QED
  BY <1>1, <1>2, KernelInstanceInvariant, PTL DEF Spec, Slots!Spec

\* No delta that jent_testing_extract_user() records spans a gap, and all the
\* deltas of a read were measured at one loop count, with any number of readers
\* and any batch size.
THEOREM RecordingsHomogeneous == Spec => []RecordingHomogeneous
<1>1. ReadInv => RecordingHomogeneous
  <2>. SUFFICES ASSUME ReadInv, NEW r \in Reader
                PROVE  None \notin recorded[r] /\ Cardinality(recorded[r]) <= 1
    BY Zenon DEF RecordingHomogeneous
  <2>1. recorded[r] \subseteq {session[r]} /\ session[r] \in LoopCount \cup {0}
    BY Zenon DEF ReadInv, ReadTypes, RecordAt
  <2>2. None \notin recorded[r]
    BY <2>1, InstanceAssumption, Zenon
  <2>3. IsFiniteSet({session[r]}) /\ Cardinality({session[r]}) = 1
    BY FS_Singleton, Zenon
  <2>4. Cardinality(recorded[r]) <= 1
    BY <2>1, <2>3, FS_Subset, Zenon
  <2>. QED
    BY <2>2, <2>4, Zenon
<1>. QED
  BY <1>1, ReadInvariant, PTL
=============================================================================
