------------------------------ MODULE PidFile ------------------------------
(***************************************************************************)
(* The PID file of jitterentropy-rngd: several instances of the daemon     *)
(* start, are killed or shut down, all naming the same file.               *)
(*                                                                         *)
(* A file is an inode; the name refers to one or to none.  An advisory     *)
(* lock belongs to the process and goes with its descriptor.               *)
(***************************************************************************)
EXTENDS Integers, FiniteSets

CONSTANTS Instance, Inode, None

VARIABLES step,       \* where each instance is
          fd,         \* its Pidfile_fd, or the descriptor it is about to be
          name,       \* what the name of the PID file refers to
          lock,       \* who holds the lock of an inode
          content,    \* the PID in an inode
          starter,    \* the exit of the process that was started
          removed     \* history: some instance has removed the file

pid_vars == <<step, fd, name, lock, content, starter, removed>>

Goto(p, label) == step' = [step EXCEPT ![p] = label]

\* An inode nothing refers to.
Free(n) == n # name /\ \A p \in Instance : fd[p] # n

\* close() of p's descriptor, which releases its lock.
Closed(p) ==
  /\ fd' = [fd EXCEPT ![p] = None]
  /\ lock' = [n \in Inode |-> IF lock[n] = p THEN None ELSE lock[n]]

PidInit ==
  /\ step = [p \in Instance |-> "off"]
  /\ fd = [p \in Instance |-> None]
  /\ name = None
  /\ lock = [n \in Inode |-> None]
  /\ content = [n \in Inode |-> None]
  /\ starter = [p \in Instance |-> "none"]
  /\ removed = 0

\* What open() does to the contents of the file: there is no O_TRUNC.
OpenedAsIs(n) ==
  content' = [content EXCEPT ![n] = IF n = name THEN @ ELSE None]

\* create_pid_file() opens the file or creates it.
Open(p, n) ==
  /\ step[p] = "off"
  /\ IF name = None THEN Free(n) ELSE n = name
  /\ name' = n
  /\ OpenedAsIs(n)
  /\ fd' = [fd EXCEPT ![p] = n]
  /\ starter' = [starter EXCEPT ![p] = "waiting"]
  /\ Goto(p, "opened")
  /\ UNCHANGED <<lock, removed>>

\* Whether lockf(F_TLOCK) succeeds.
Lockable(p) == lock[fd[p]] = None

\* The lock is taken, the file is ours.
Lock(p) ==
  /\ step[p] = "opened"
  /\ Lockable(p)
  /\ lock' = [lock EXCEPT ![fd[p]] = p]
  /\ Goto(p, "locked")
  /\ UNCHANGED <<fd, name, content, starter, removed>>

\* What a start that did not get the lock leaves of the file: its descriptor
\* was not recorded, so dealloc() does not remove the name.
NameKept == UNCHANGED name

\* Another instance holds it, or lockf() has another reason: the start fails, and
\* with it the parent.
LockFails(p) ==
  /\ step[p] = "opened"
  /\ Closed(p)
  /\ NameKept
  /\ starter' = [starter EXCEPT ![p] = "failed"]
  /\ Goto(p, "off")
  /\ UNCHANGED <<content, removed>>

\* The PID is written and the parent released.
Write(p) ==
  /\ step[p] = "locked"
  /\ content' = [content EXCEPT ![fd[p]] = p]
  /\ starter' = [starter EXCEPT ![p] = "ok"]
  /\ Goto(p, "running")
  /\ UNCHANGED <<fd, name, lock, removed>>

\* The ftruncate(), the write() or the release of the parent fails: the start ends
\* in dealloc(), which has the descriptor, as a shutdown does.
WriteFails(p) ==
  /\ step[p] = "locked"
  /\ \E c \in {content[fd[p]], None, p} : content' = [content EXCEPT ![fd[p]] = c]
  /\ Goto(p, "failing")
  /\ UNCHANGED <<fd, name, lock, starter, removed>>

\* dealloc() closes the descriptor ...
Close(p) ==
  /\ step[p] \in {"running", "failing"}
  /\ Closed(p)
  /\ Goto(p, "closed")
  /\ UNCHANGED <<name, content, starter, removed>>

\* What becomes of the process that was started, when the one it waits for is gone.
StarterReturns(p) ==
  starter' = [starter EXCEPT ![p] = IF @ = "waiting" THEN "failed" ELSE @]

\* ... and removes the name, whatever that refers to by now.
Unlink(p) ==
  /\ step[p] = "closed"
  /\ name' = None
  /\ removed' = 1
  /\ StarterReturns(p)
  /\ Goto(p, "off")
  /\ UNCHANGED <<fd, lock, content>>

\* The instance is killed: the kernel closes its descriptor, the file stays.
Kill(p) ==
  /\ step[p] # "off"
  /\ Closed(p)
  /\ StarterReturns(p)
  /\ Goto(p, "off")
  /\ UNCHANGED <<name, content, removed>>

PidNext ==
  \E p \in Instance :
    \/ \E n \in Inode : Open(p, n)
    \/ Lock(p) \/ LockFails(p) \/ Write(p) \/ WriteFails(p)
    \/ Close(p) \/ Unlink(p) \/ Kill(p)

PidSpec == PidInit /\ [][PidNext]_pid_vars

-----------------------------------------------------------------------------
(* Properties *)

Running == {p \in Instance : step[p] = "running"}

\* The instance whose start succeeded is the one its file names: no other start,
\* successful or not, overwrites the PID under it, and "The parent process exits
\* with the verdict of the child".
OwnPidInOwnFile ==
  \A p \in Running : content[fd[p]] = p /\ starter[p] = "ok"

\* What other instances do to the file of a running one.  Starts, on whichever of
\* their steps they fail or are killed, leave its name and its contents alone,
\* where a descriptor recorded too early "would unlink the PID file of the instance
\* that is still running".  Only an instance that has closed the file, at the end
\* of a shutdown or of a start that failed after it had the lock, takes the name.
RunningKeepsFile ==
  [][\A p \in Running :
       fd[p] = name /\ step'[p] = "running" =>
         /\ content'[fd[p]] = p
         /\ \/ name' = name
            \/ \E q \in Instance : step[q] = "closed" /\ step'[q] = "off"]_pid_vars

\* As long as no instance has removed the file - each was killed, or did not get
\* the lock - the lock lets one run, and the file one of them left behind stops no
\* start.
OneRunsUntilRemoved ==
  removed = 0 => /\ Cardinality(Running) <= 1
                 /\ \A p \in Running : fd[p] = name

\* "The advisory lock taken below - not the presence of the file - is what
\* ensures that only one copy runs."
OnlyOneRuns == Cardinality(Running) <= 1
=============================================================================
