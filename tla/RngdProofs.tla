----------------------------- MODULE RngdProofs -----------------------------
(***************************************************************************)
(* The daemon: what the PID file of jitterentropy-rngd does guarantee, for *)
(* any number of instances and files - everything up to the first regular  *)
(* shutdown - and what one daemon's start, its notifications and its exit  *)
(* say of it.                                                              *)
(***************************************************************************)
EXTENDS Rngd, PidFile, FiniteSetTheorems, TLAPS

-----------------------------------------------------------------------------
(* The PID file *)

WithFile == {"opened", "locked", "running", "failing"}

PidTypeOK ==
  /\ step \in [Instance -> WithFile \cup {"off", "closed"}]
  /\ fd \in [Instance -> Inode \cup {None}]
  /\ name \in Inode \cup {None}
  /\ lock \in [Inode -> Instance \cup {None}]
  /\ content \in [Inode -> Instance \cup {None}]
  /\ starter \in [Instance -> {"none", "waiting", "failed", "ok"}]

\* A descriptor is open from create_pid_file() to dealloc(), and a lock is held
\* with it.
Holds ==
  \A p \in Instance :
    /\ step[p] \in WithFile <=> fd[p] # None
    /\ step[p] \in {"locked", "running", "failing"} => lock[fd[p]] = p

\* Until a file is removed every descriptor is of the file the name refers to.
OneFile ==
  removed = 0 => \A p \in Instance : fd[p] # None => fd[p] = name

\* The inductive invariant.
PidInv == PidTypeOK /\ Holds /\ OneFile /\ OwnPidInOwnFile

-----------------------------------------------------------------------------

\* Nobody has the file open at the beginning.
LEMMA PidInvInit == PidInit => PidInv
BY Zenon DEF PidInit, PidInv, PidTypeOK, Holds, OneFile, OwnPidInOwnFile,
   Running, WithFile

\* The file is opened, or created where there is none.
LEMMA OpenKeeps ==
  ASSUME None \notin Inode, PidInv, NEW p \in Instance, NEW n \in Inode,
         Open(p, n)
  PROVE  PidInv'
<1>1. /\ step' = [step EXCEPT ![p] = "opened"] /\ step[p] = "off"
      /\ fd' = [fd EXCEPT ![p] = n] /\ name' = n
      /\ starter' = [starter EXCEPT ![p] = "waiting"]
      /\ content' = [content EXCEPT ![n] = IF n = name THEN content[n] ELSE None]
      /\ UNCHANGED <<lock, removed>>
  BY Zenon DEF Open, Goto, OpenedAsIs
<1>2. PidTypeOK'
  BY <1>1, Zenon DEF PidInv, PidTypeOK, WithFile
<1>3. Holds'
  BY <1>1, Zenon DEF PidInv, PidTypeOK, Holds, WithFile
<1>4. OneFile'
  BY <1>1, Zenon DEF Open, Free, PidInv, PidTypeOK, OneFile
<1>5. OwnPidInOwnFile'
  <2> SUFFICES ASSUME NEW q \in Instance, step'[q] = "running"
               PROVE  content'[fd'[q]] = q /\ starter'[q] = "ok"
    BY Zenon DEF OwnPidInOwnFile, Running
  <2>1. /\ q # p /\ step[q] = "running" /\ fd'[q] = fd[q]
        /\ starter'[q] = starter[q]
    BY <1>1, Zenon DEF PidInv, PidTypeOK
  <2>2. content[fd[q]] = q /\ starter[q] = "ok" /\ fd[q] \in Inode
    BY <2>1 DEF PidInv, PidTypeOK, Holds, WithFile, OwnPidInOwnFile, Running
  <2>3. content'[fd[q]] = content[fd[q]]
    <3>1. CASE n = name
      BY <1>1, <2>2, <3>1, Zenon DEF PidInv, PidTypeOK
    <3>2. CASE n # name
      BY <1>1, <2>2, <3>2, Zenon DEF Open, Free, PidInv, PidTypeOK
    <3> QED
      BY <3>1, <3>2, Zenon
  <2> QED
    BY <2>1, <2>2, <2>3, Zenon
<1> QED
  BY <1>2, <1>3, <1>4, <1>5, Zenon DEF PidInv

\* The lock is taken only where nobody holds it.
LEMMA LockKeeps ==
  ASSUME None \notin Instance, PidInv, NEW p \in Instance, Lock(p)
  PROVE  PidInv'
<1>1. /\ step' = [step EXCEPT ![p] = "locked"] /\ step[p] = "opened"
      /\ lock' = [lock EXCEPT ![fd[p]] = p] /\ lock[fd[p]] = None
      /\ UNCHANGED <<fd, name, content, starter, removed>>
  BY Zenon DEF Lock, Goto, Lockable
<1>2. fd[p] \in Inode
  BY <1>1 DEF PidInv, PidTypeOK, Holds, WithFile
<1>3. PidTypeOK'
  BY <1>1, Zenon DEF PidInv, PidTypeOK, WithFile
<1>4. Holds'
  BY <1>1, <1>2 DEF PidInv, PidTypeOK, Holds, WithFile
<1>5. OneFile' /\ OwnPidInOwnFile'
  BY <1>1, Zenon DEF PidInv, PidTypeOK, OneFile, OwnPidInOwnFile, Running
<1> QED
  BY <1>3, <1>4, <1>5, Zenon DEF PidInv

\* Only who has the lock writes its PID.
LEMMA WriteKeeps ==
  ASSUME PidInv, NEW p \in Instance, Write(p)
  PROVE  PidInv'
<1>1. /\ step' = [step EXCEPT ![p] = "running"] /\ step[p] = "locked"
      /\ content' = [content EXCEPT ![fd[p]] = p]
      /\ starter' = [starter EXCEPT ![p] = "ok"]
      /\ UNCHANGED <<fd, name, lock, removed>>
  BY Zenon DEF Write, Goto
<1>2. fd[p] \in Inode /\ lock[fd[p]] = p
  BY <1>1 DEF PidInv, PidTypeOK, Holds, WithFile
<1>3. PidTypeOK' /\ Holds' /\ OneFile'
  BY <1>1, <1>2, Zenon DEF PidInv, PidTypeOK, Holds, OneFile, WithFile
<1>4. OwnPidInOwnFile'
  <2> SUFFICES ASSUME NEW q \in Instance, step'[q] = "running"
               PROVE  content'[fd[q]] = q /\ starter'[q] = "ok"
    BY <1>1, Zenon DEF OwnPidInOwnFile, Running
  <2>1. CASE q = p
    BY <1>1, <1>2, <2>1, Zenon DEF PidInv, PidTypeOK
  <2>2. CASE q # p
    <3>1. step[q] = "running" /\ starter'[q] = starter[q]
      BY <1>1, <2>2, Zenon DEF PidInv, PidTypeOK
    <3>2. /\ lock[fd[q]] = q /\ content[fd[q]] = q /\ starter[q] = "ok"
          /\ fd[q] \in Inode
      BY <3>1 DEF PidInv, PidTypeOK, Holds, WithFile, OwnPidInOwnFile, Running
    <3>3. fd[q] # fd[p]
      BY <1>2, <2>2, <3>2, Zenon
    <3> QED
      BY <1>1, <3>1, <3>2, <3>3, Zenon DEF PidInv, PidTypeOK
  <2> QED
    BY <2>1, <2>2, Zenon
<1> QED
  BY <1>3, <1>4, Zenon DEF PidInv

\* A start that fails when it has the lock changes no other instance's file.
LEMMA WriteFailsKeeps ==
  ASSUME PidInv, NEW p \in Instance, WriteFails(p)
  PROVE  PidInv'
<1>1. PICK c \in Instance \cup {None} : content' = [content EXCEPT ![fd[p]] = c]
  <2>1. content[fd[p]] \in Instance \cup {None}
    BY DEF WriteFails, PidInv, PidTypeOK, Holds, WithFile
  <2> QED
    BY <2>1, Zenon DEF WriteFails
<1>2. /\ step' = [step EXCEPT ![p] = "failing"] /\ step[p] = "locked"
      /\ UNCHANGED <<fd, name, lock, starter, removed>>
  BY Zenon DEF WriteFails, Goto
<1>3. fd[p] \in Inode /\ lock[fd[p]] = p
  BY <1>2 DEF PidInv, PidTypeOK, Holds, WithFile
<1>4. PidTypeOK' /\ Holds' /\ OneFile'
  BY <1>1, <1>2, <1>3, Zenon DEF PidInv, PidTypeOK, Holds, OneFile, WithFile
<1>5. OwnPidInOwnFile'
  <2> SUFFICES ASSUME NEW q \in Instance, step'[q] = "running"
               PROVE  content'[fd[q]] = q /\ starter[q] = "ok"
    BY <1>2, Zenon DEF OwnPidInOwnFile, Running
  <2>1. q # p /\ step[q] = "running"
    BY <1>2, Zenon DEF PidInv, PidTypeOK
  <2>2. /\ lock[fd[q]] = q /\ content[fd[q]] = q /\ starter[q] = "ok"
        /\ fd[q] \in Inode
    BY <2>1 DEF PidInv, PidTypeOK, Holds, WithFile, OwnPidInOwnFile, Running
  <2>3. fd[q] # fd[p]
    BY <1>3, <2>1, <2>2, Zenon
  <2> QED
    BY <1>1, <2>2, <2>3, Zenon DEF PidInv, PidTypeOK
<1> QED
  BY <1>4, <1>5, Zenon DEF PidInv

\* Closing the descriptor, in dealloc() or by the kernel, releases the own lock
\* and no other.
LEMMA CloseKeeps ==
  ASSUME None \notin Instance, PidInv, NEW p \in Instance,
         LockFails(p) \/ Close(p) \/ Kill(p)
  PROVE  PidInv'
<1>1. /\ fd' = [fd EXCEPT ![p] = None]
      /\ lock' = [n \in Inode |-> IF lock[n] = p THEN None ELSE lock[n]]
      /\ step' = [step EXCEPT ![p] = step'[p]] /\ step'[p] \in {"off", "closed"}
      /\ starter' = [starter EXCEPT ![p] = starter'[p]]
      /\ starter'[p] \in {"none", "waiting", "failed", "ok"}
      /\ UNCHANGED <<name, content, removed>>
  <2>1. /\ fd' = [fd EXCEPT ![p] = None]
        /\ lock' = [n \in Inode |-> IF lock[n] = p THEN None ELSE lock[n]]
        /\ UNCHANGED <<name, content, removed>>
    BY Zenon DEF LockFails, Close, Kill, Closed, NameKept
  <2>2. /\ step' = [step EXCEPT ![p] = step'[p]] /\ step'[p] \in {"off", "closed"}
    BY Zenon DEF LockFails, Close, Kill, Goto, PidInv, PidTypeOK
  <2>3. /\ starter' = [starter EXCEPT ![p] = starter'[p]]
        /\ starter'[p] \in {"none", "waiting", "failed", "ok"}
    BY Zenon DEF LockFails, Close, Kill, StarterReturns, PidInv, PidTypeOK
  <2> QED
    BY <2>1, <2>2, <2>3, Zenon
<1>2. PidTypeOK'
  BY <1>1, Zenon DEF PidInv, PidTypeOK, WithFile
<1>3. ASSUME NEW q \in Instance, q # p
      PROVE  step'[q] = step[q] /\ fd'[q] = fd[q] /\ starter'[q] = starter[q]
  BY <1>1, <1>3, Zenon DEF PidInv, PidTypeOK
<1>4. fd'[p] = None
  BY <1>1, Zenon DEF PidInv, PidTypeOK
<1>5. Holds'
  <2> SUFFICES ASSUME NEW q \in Instance
               PROVE  /\ step'[q] \in WithFile <=> fd'[q] # None
                      /\ step'[q] \in {"locked", "running", "failing"} => lock'[fd'[q]] = q
    BY Zenon DEF Holds
  <2>1. CASE q = p
    BY <1>1, <1>4, <2>1, Zenon DEF WithFile
  <2>2. CASE q # p
    BY <1>1, <1>3, <2>2 DEF PidInv, PidTypeOK, Holds, WithFile
  <2> QED
    BY <2>1, <2>2, Zenon
<1>6. OneFile'
  BY <1>1, <1>3, <1>4, Zenon DEF PidInv, OneFile
<1>7. OwnPidInOwnFile'
  BY <1>1, <1>3, Zenon DEF PidInv, OwnPidInOwnFile, Running
<1> QED
  BY <1>2, <1>5, <1>6, <1>7, Zenon DEF PidInv

\* Removing the name is the end of what the file guarantees.
LEMMA UnlinkKeeps ==
  ASSUME PidInv, NEW p \in Instance, Unlink(p)
  PROVE  PidInv'
<1>1. /\ step' = [step EXCEPT ![p] = "off"] /\ step[p] = "closed"
      /\ name' = None /\ removed' = 1
      /\ UNCHANGED <<fd, lock, content>>
      /\ starter' = [starter EXCEPT ![p] = IF @ = "waiting" THEN "failed" ELSE @]
  BY Zenon DEF Unlink, Goto, StarterReturns
<1>2. PidTypeOK' /\ OneFile'
  BY <1>1 DEF PidInv, PidTypeOK, OneFile, WithFile
<1>3. Holds' /\ OwnPidInOwnFile'
  BY <1>1 DEF PidInv, PidTypeOK, Holds, WithFile, OwnPidInOwnFile, Running
<1> QED
  BY <1>2, <1>3, Zenon DEF PidInv

\* Every step preserves the inductive invariant.
LEMMA PidInvStep ==
  ASSUME None \notin Instance, None \notin Inode
  PROVE  PidInv /\ [PidNext]_pid_vars => PidInv'
<1> SUFFICES ASSUME PidInv, [PidNext]_pid_vars PROVE PidInv'
  BY Zenon
<1>1. ASSUME NEW p \in Instance, NEW n \in Inode, Open(p, n) PROVE PidInv'
  BY <1>1, OpenKeeps, Zenon
<1>2. ASSUME NEW p \in Instance, Lock(p) PROVE PidInv'
  BY <1>2, LockKeeps, Zenon
<1>3. ASSUME NEW p \in Instance, Write(p) PROVE PidInv'
  BY <1>3, WriteKeeps, Zenon
<1>4. ASSUME NEW p \in Instance, LockFails(p) \/ Close(p) \/ Kill(p)
      PROVE  PidInv'
  BY <1>4, CloseKeeps, Zenon
<1>5. ASSUME NEW p \in Instance, Unlink(p) PROVE PidInv'
  BY <1>5, UnlinkKeeps, Zenon
<1>6. ASSUME NEW p \in Instance, WriteFails(p) PROVE PidInv'
  BY <1>6, WriteFailsKeeps, Zenon
<1>7. CASE UNCHANGED pid_vars
  BY <1>7, Zenon DEF pid_vars, PidInv, PidTypeOK, Holds, OneFile,
     OwnPidInOwnFile, Running
<1> QED
  BY <1>1, <1>2, <1>3, <1>4, <1>5, <1>6, <1>7, Zenon DEF PidNext

-----------------------------------------------------------------------------

\* The lock of create_pid_file() does its work as long as no instance removes
\* the file in dealloc(): one instance runs, and its file carries its PID.
THEOREM PidFileCorrect ==
  ASSUME None \notin Instance, None \notin Inode
  PROVE  PidSpec => [](OneRunsUntilRemoved /\ OwnPidInOwnFile)
<1>1. PidInv => OneRunsUntilRemoved
  <2> SUFFICES ASSUME PidInv, removed = 0
               PROVE  /\ Cardinality(Running) <= 1
                      /\ \A p \in Running : fd[p] = name
    BY Zenon DEF OneRunsUntilRemoved
  <2>1. ASSUME NEW p \in Running PROVE fd[p] = name /\ lock[name] = p
    BY <2>1, Zenon DEF PidInv, Holds, OneFile, Running, WithFile
  <2>2. CASE Running = {}
    BY <2>2, FS_EmptySet
  <2>3. CASE Running # {}
    <3>1. PICK p \in Running : TRUE
      BY <2>3, Zenon
    <3>2. Running = {p}
      BY <2>1, <3>1, Zenon
    <3>3. Cardinality(Running) = 1
      BY <3>2, FS_Singleton, Zenon
    <3> QED
      BY <2>1, <3>3
  <2> QED
    BY <2>1, <2>2, <2>3, Zenon
<1>2. PidInv => OwnPidInOwnFile
  BY Zenon DEF PidInv
<1> QED
  BY <1>1, <1>2, PidInvInit, PidInvStep, PTL DEF PidSpec

\* No start of another instance, on whichever step it fails, takes the name or the
\* PID from the file of a running one: what is in it stays by PidFileCorrect, and
\* the name goes only with an instance that has closed the file in dealloc().
THEOREM StartsKeepRunning ==
  ASSUME None \notin Instance, None \notin Inode
  PROVE  PidSpec => RunningKeepsFile
<1> DEFINE Kept ==
      \A p \in Running :
        fd[p] = name /\ step'[p] = "running" =>
          /\ content'[fd[p]] = p
          /\ \/ name' = name
             \/ \E q \in Instance : step[q] = "closed" /\ step'[q] = "off"
<1>1. PidInv /\ PidInv' /\ [PidNext]_pid_vars => [Kept]_pid_vars
  <2> SUFFICES ASSUME PidInv, PidInv', PidNext,
                      NEW p \in Running, fd[p] = name, step'[p] = "running"
               PROVE  /\ content'[fd[p]] = p
                      /\ \/ name' = name
                         \/ \E q \in Instance : step[q] = "closed" /\ step'[q] = "off"
    BY Zenon
  <2>1. name \in Inode /\ p \in Instance /\ step[p] = "running"
    BY DEF PidInv, PidTypeOK, Holds, WithFile, Running
  <2>2. PICK q \in Instance : \/ \E n \in Inode : Open(q, n)
                              \/ Lock(q) \/ LockFails(q) \/ Write(q) \/ WriteFails(q)
                              \/ Close(q) \/ Unlink(q) \/ Kill(q)
    BY Zenon DEF PidNext
  <2>3. name' = name \/ Unlink(q)
    BY <2>1, <2>2, Zenon DEF Open, Lock, LockFails, NameKept, Write, WriteFails, Close, Kill
  <2>4. Unlink(q) => step[q] = "closed" /\ step'[q] = "off"
    BY Zenon DEF Unlink, Goto, PidInv, PidTypeOK
  <2>5. fd'[p] = fd[p]
    <3>1. CASE q = p
      <4>1. Unlink(q) \/ Close(q) \/ Kill(q) \/ LockFails(q) => step'[p] # "running"
        BY <3>1, Zenon DEF Unlink, Close, Kill, LockFails, Goto, PidInv, PidTypeOK
      <4> QED
        BY <2>1, <2>2, <3>1, <4>1, Zenon DEF Open, Lock, Write, WriteFails
    <3>2. CASE q # p
      <4>1. UNCHANGED fd \/ \E v : fd' = [fd EXCEPT ![q] = v]
        BY <2>2, Zenon DEF Open, Lock, LockFails, Write, WriteFails, Close, Unlink, Kill, Closed
      <4> QED
        BY <2>1, <3>2, <4>1, Zenon DEF PidInv, PidTypeOK
    <3> QED
      BY <3>1, <3>2, Zenon
  <2>6. content'[fd'[p]] = p
    BY <2>1, Zenon DEF PidInv, OwnPidInOwnFile, Running
  <2> QED
    BY <2>3, <2>4, <2>5, <2>6, Zenon
<1> QED
  BY <1>1, PidInvInit, PidInvStep, PTL DEF PidSpec, RunningKeepsFile

-----------------------------------------------------------------------------
(* The daemon *)

\* What a start with --oneshot goes through.
OneshotStep ==
  {"start", "gather", "injected", "retry", "realloc", "allocated", "oneshot",
   "exited"}

\* The kernel counts as seeded, and the service manager as told so, after an
\* injection only.
SeedInv ==
  /\ seeded \in {0, 1} /\ notified = seeded
  /\ seeded = 1 \/ written = "full" => injected = 1

\* With --oneshot there is no main loop, and its exit code is the one of the
\* seeding.
OneshotInv ==
  /\ caller \in {"alloc", "oneshot", "alarm", "select"}
  /\ caller = "alloc" => pc \notin {"retry", "realloc"}
  /\ oneshot => /\ pc \in OneshotStep /\ caller \in {"alloc", "oneshot"}
                /\ exit_code = 0 => injected = 1

\* The parent is told of a PID file that is locked until the daemon exits.
ParentInv ==
  /\ ready \in {"empty", "byte"}
  /\ Pidfile /\ (pc = "owner" \/ ready = "byte") => Pidfile_fd = 1 \/ pc = "exited"
  /\ parent = "ok" => ready = "byte"
  /\ parent = "failed" => pc = "exited" /\ ready = "empty"

\* An exit that is no kill leaves nothing open.
ExitInv ==
  pc = "exited" /\ exit_code # 128 => ec = 0 /\ fds = 0 /\ Pidfile_fd = 0

\* The alarms without a gathering are among those since the last forced one.
AlarmInv ==
  /\ phase \in {0, 1} /\ wakeups \in Nat /\ skipped \in Nat
  /\ skipped <= wakeups /\ wakeups < ReseedWakeups[phase] /\ forced = phase

\* The inductive invariant.
RngdInv == SeedInv /\ OneshotInv /\ ParentInv /\ ExitInv /\ AlarmInv

\* The daemon starts with the invariant.
LEMMA RngdInvInit == Init => RngdInv
BY RngdAssumption DEF Init, RngdInv, SeedInv, OneshotInv, ParentInv, ExitInv,
   AlarmInv, OneshotStep

\* A signal ends a wait, or the daemon.
LEMMA SignalKeeps ==
  ASSUME RngdInv, Signal
  PROVE  RngdInv'
<1> USE DEF RngdInv
<1>1. UNCHANGED <<options, counters, retry, resources, seeding, start>>
  BY Zenon DEF Signal, AlarmExpires, TermRaised, DeliverAlarm, DeliverTerm
<1>2. /\ pc # "exited"
      /\ \/ pc' = pc /\ exit_code' = exit_code
         \/ pc = "sleep" /\ pc' = "woken" /\ exit_code' = exit_code
         \/ pc' = "exited" /\ exit_code' = 128
  BY Zenon DEF Signal, AlarmExpires, TermRaised, DeliverAlarm, DeliverTerm,
     Exit, Wakes
<1>3. SeedInv' /\ AlarmInv'
  BY <1>1, Zenon DEF seeding, retry, counters, SeedInv, AlarmInv
<1>4. OneshotInv'
  BY <1>1, <1>2 DEF options, retry, seeding, OneshotInv, OneshotStep
<1>5. ParentInv' /\ ExitInv'
  BY <1>1, <1>2, Zenon DEF options, start, resources, ParentInv, ExitInv
<1> QED
  BY <1>3, <1>4, <1>5, Zenon

\* The injection and its retries.
LEMMA GatherKeeps ==
  ASSUME RngdInv,
         Inject \/ Injected \/ Retry \/ Gathered
           \/ \E allocated \in BOOLEAN : Realloc(allocated)
  PROVE  RngdInv'
<1> USE DEF RngdInv
<1>1. /\ UNCHANGED <<options, counters, start, caller>>
      /\ pc \in {"gather", "injected", "retry", "realloc"}
      /\ \/ exit_code' = exit_code /\ UNCHANGED <<fds, Pidfile_fd>>
         \/ /\ exit_code' = 2 /\ pc' = "exited"
            /\ ec' = 0 /\ fds' = 0 /\ Pidfile_fd' = 0
  BY Zenon DEF Inject, Injected, Retry, Gathered, Realloc, ExitOnFailure, Exit,
     Deallocated, retry, resources
<1>2. injected = 1 => injected' = 1
  BY Zenon DEF Inject, Injected, Retry, Gathered, Realloc, seeding
<1>3. SeedInv'
  BY Zenon DEF Inject, Injected, Retry, Gathered, Realloc, seeding, retry,
     SeedInv, SeededIfFull
<1>4. AlarmInv'
  BY <1>1, Zenon DEF counters, AlarmInv
<1>5. /\ pc' \in {"injected", "allocated", "retry", "realloc", "gather", "oneshot",
                 "rearm", "loop", "exited"}
      /\ pc' = "exited" => exit_code' = 2 /\ ec' = 0 /\ fds' = 0 /\ Pidfile_fd' = 0
      /\ caller = "alloc" => pc' \notin {"retry", "realloc"}
      /\ caller \in {"alloc", "oneshot"} => pc' \in OneshotStep
  BY Zenon DEF Inject, Injected, Retry, Gathered, Realloc, OneshotInv,
     OneshotStep, ExitOnFailure, Exit, Deallocated
<1>6. OneshotInv'
  BY <1>1, <1>2, <1>5 DEF options, OneshotInv
<1>7. ParentInv' /\ ExitInv'
  BY <1>1, <1>5, Zenon DEF options, start, ParentInv, ExitInv
<1> QED
  BY <1>3, <1>4, <1>6, <1>7, Zenon

\* The steps of a start.
LEMMA StartKeeps ==
  ASSUME RngdInv,
         Start \/ Started \/ Oneshot \/ Daemonize \/ CreatePidFile
           \/ ReleaseParent \/ Install \/ ParentExits
  PROVE  RngdInv'
<1> USE DEF RngdInv
<1>1. UNCHANGED <<options, seeding>>
  BY Zenon DEF Start, Started, Oneshot, Daemonize, CreatePidFile,
     ReleaseParent, Install, ParentExits
<1>2. SeedInv'
  BY <1>1, Zenon DEF Start, Started, Oneshot, Daemonize, CreatePidFile,
     ReleaseParent, Install, ParentExits, Gather, retry, seeding, SeedInv
<1>3. AlarmInv'
  BY DEF Start, Started, Oneshot, Daemonize, CreatePidFile, ReleaseParent,
     Install, ParentExits, Gather, counters, AlarmInv
<1>4. OneshotInv'
  BY <1>1, SMTT(30) DEF Start, Started, Oneshot, Daemonize, CreatePidFile,
     ReleaseParent, Install, ParentExits, Gather, ExitOnFailure, Exit, retry,
     options, seeding, OneshotInv, OneshotStep, SeedInv
<1>5. ParentInv'
  <2>1. Pidfile' = Pidfile
    BY <1>1, Zenon DEF options
  <2>2. CASE Start \/ Started \/ Oneshot \/ Daemonize
    BY <2>1, <2>2, Zenon DEF Start, Started, Oneshot, Daemonize, Gather, ExitOnFailure,
       Exit, Deallocated, start, resources, ParentInv
  <2>3. CASE CreatePidFile
    BY <2>1, <2>3, Zenon DEF CreatePidFile, ExitOnFailure, Exit, Deallocated, start,
       ParentInv
  <2>4. CASE ReleaseParent \/ Install \/ ParentExits
    BY <2>1, <2>4, Zenon DEF ReleaseParent, Install, ParentExits, ExitOnFailure, Exit,
       Deallocated, start, resources, ParentInv
  <2> QED
    BY <2>2, <2>3, <2>4, Zenon
<1>6. ExitInv'
  BY Zenon DEF Start, Started, Oneshot, Daemonize, CreatePidFile,
     ReleaseParent, Install, ParentExits, Gather, ExitOnFailure, Exit,
     Deallocated, resources, ExitInv
<1> QED
  BY <1>2, <1>3, <1>4, <1>5, <1>6, Zenon

\* The alarms and the wait for them.
LEMMA LoopKeeps ==
  ASSUME RngdInv,
         \/ \E avail, wakeup \in Content : ProcessAlarm(avail, wakeup)
         \/ Rearm \/ Block \/ TakeTerm \/ ProcessTerm \/ TakeAlarm \/ Poll
         \/ Sleep \/ Woken \/ Writable \/ SelectFails
  PROVE  RngdInv'
<1> USE DEF RngdInv
<1>1. /\ UNCHANGED <<options, seeding, start>>
      /\ pc \notin OneshotStep
  BY Zenon DEF ProcessAlarm, Rearm, Block, TakeTerm, ProcessTerm, TakeAlarm,
     Poll, Sleep, Woken, Writable, SelectFails, OneshotStep
<1>2. ~oneshot
  BY <1>1, Zenon DEF OneshotInv
<1>3. SeedInv'
  BY <1>1, Zenon DEF ProcessAlarm, Rearm, Block, TakeTerm, ProcessTerm,
     TakeAlarm, Poll, Sleep, Woken, Writable, SelectFails, Gather, retry,
     seeding, SeedInv
<1>4. OneshotInv'
  BY <1>1, <1>2, Zenon DEF ProcessAlarm, Rearm, Block, TakeTerm, ProcessTerm,
     TakeAlarm, Poll, Sleep, Woken, Writable, SelectFails, Gather,
     ExitOnFailure, Exit, retry, options, OneshotInv
<1>5. /\ pc # "exited" /\ pc' # "owner"
      /\ \/ UNCHANGED <<ec, fds, Pidfile_fd>> /\ pc' # "exited"
         \/ ec' = 0 /\ fds' = 0 /\ Pidfile_fd' = 0 /\ pc' = "exited"
  BY Zenon DEF ProcessAlarm, Rearm, Block, TakeTerm, ProcessTerm, TakeAlarm,
     Poll, Sleep, Woken, Writable, SelectFails, Gather, ExitOnFailure, Exit,
     Deallocated, resources
<1>6. ParentInv' /\ ExitInv'
  BY <1>1, <1>5, Zenon DEF options, start, ParentInv, ExitInv
<1>7. AlarmInv'
  <2>1. CASE UNCHANGED counters
    BY <2>1, Zenon DEF counters, AlarmInv
  <2>2. ASSUME NEW avail \in Content, NEW wakeup \in Content,
               ProcessAlarm(avail, wakeup)
        PROVE  AlarmInv'
    BY <2>2, RngdAssumption DEF ProcessAlarm, Forced, Gather, AlarmInv
  <2>3. CASE Writable
    BY <2>3 DEF Writable, Gather, AlarmInv
  <2> QED
    BY <2>1, <2>2, <2>3, Zenon DEF Rearm, Block, TakeTerm, ProcessTerm,
       TakeAlarm, Poll, Sleep, Woken, SelectFails
<1> QED
  BY <1>3, <1>4, <1>6, <1>7, Zenon

\* Every step keeps it.
LEMMA RngdInvStep == RngdInv /\ [Next]_vars => RngdInv'
<1> SUFFICES ASSUME RngdInv, [Next]_vars PROVE RngdInv'
  BY Zenon
<1>1. CASE UNCHANGED vars
  <2>1. UNCHANGED <<options, pc, counters, retry, resources, seeding, exit_code,
                    start>>
    BY <1>1, Zenon DEF vars
  <2> QED
    BY <2>1 DEF options, counters, retry, resources, seeding, start, RngdInv,
       SeedInv, OneshotInv, ParentInv, ExitInv, AlarmInv
<1>2. CASE Work
  BY <1>2, StartKeeps, GatherKeeps, LoopKeeps, Zenon DEF Work
<1> QED
  BY <1>1, <1>2, SignalKeeps, StartKeeps, LoopKeeps, Zenon DEF Next

\* notify_ready() and the exit code of --oneshot claim no seeding that did not
\* happen, daemonize() reports a start whose daemon has locked the PID file and
\* only such a one, and on every way out dealloc() has been called.
THEOREM ReadyAndExit == Spec => []ReadyAndExitHonest
<1>1. RngdInv => ReadyAndExitHonest
  BY Zenon DEF RngdInv, SeedInv, OneshotInv, ParentInv, ExitInv,
     ReadyAndExitHonest
<1> QED
  BY <1>1, RngdInvInit, RngdInvStep, PTL DEF Spec

\* Whatever the kernel estimates, and in either phase, fewer wakeups of
\* process_alarm() than force_reseed_wakeups[] has for it go by without
\* gather_entropy_retry().
THEOREM ReseedsForced == Spec => []FewSkipped
<1>1. RngdInv => FewSkipped
  BY RngdAssumption DEF RngdInv, AlarmInv, FewSkipped
<1> QED
  BY <1>1, RngdInvInit, RngdInvStep, PTL DEF Spec
=============================================================================
