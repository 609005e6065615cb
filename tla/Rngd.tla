-------------------------------- MODULE Rngd --------------------------------
(***************************************************************************)
(* jitterentropy-rngd: the startup, the process it leaves behind, the main *)
(* loop with its signals, the injection of entropy with its retries, and   *)
(* the shutdown.                                                           *)
(*                                                                         *)
(* A signal is raised at any time, delivered when its mask allows, and     *)
(* leaves a flag the main loop tests.  What the library, the kernel and    *)
(* the entropy files answer is an input.                                   *)
(***************************************************************************)
EXTENDS Integers

CONSTANTS Retries,         \* GATHER_RETRIES
          ReseedWakeups,   \* force_reseed_wakeups[], by phase
          MaxEntropy,      \* the largest value of an entropy file, 4096
          Content,         \* what an entropy file may hold: numbers and
          NoNumber         \* what is none, or cannot be read

ASSUME RngdAssumption ==
  /\ Retries \in Nat
  /\ ReseedWakeups \in [{0, 1} -> Nat \ {0}]
  /\ MaxEntropy \in Nat

VARIABLES exit_on_error, oneshot, foreground, lrng,   \* how it was started
          Pidfile,             \* whether with the name of a PID file
          pc, caller,          \* the step, and who asked for entropy
          mask,                \* the blocked signals: "none", "alarm", "all"
          alarm,               \* the timer: "off", "armed" or "raised"
          term,                \* SIGTERM: "none", "raised" or "delivered"
          Alarm_pending, Term_pending,
          phase, wakeups,      \* the statics of process_alarm()
          i, written,          \* of gather_entropy_retry(); "error" or "full"
          ec, fds,             \* 1 while allocated, 1 while open
          Pidfile_fd,          \* 1 while the PID file is locked
          ready,               \* the pipe to the parent: "empty" or "byte"
          parent,              \* "none", "waiting", or exited: "ok", "failed"
          seeded, notified,
          exit_code,           \* -1 while it runs, 128 if it was killed
          injected,            \* history: the kernel accepted an injection
          skipped,             \* history: alarms since entropy was last gathered
          forced               \* history: 1 once a reseed was forced

options == <<exit_on_error, oneshot, foreground, lrng, Pidfile>>
signals == <<alarm, term, Alarm_pending, Term_pending>>
counters == <<phase, wakeups, skipped, forced>>
retry == <<caller, i, written>>
resources == <<ec, fds, Pidfile_fd>>
start == <<ready, parent>>
seeding == <<seeded, notified, injected>>
vars == <<options, pc, mask, signals, counters, retry, resources, seeding, exit_code,
          start>>

-----------------------------------------------------------------------------
(* The end *)

\* dealloc() leaves nothing allocated or open.
Deallocated == ec' = 0 /\ fds' = 0 /\ Pidfile_fd' = 0

Exit(code) ==
  /\ pc' = "exited"
  /\ exit_code' = code

\* What ends the daemon on an error: dolog(JENT_LOG_ERR) and --exit-on-error
\* both deallocate first.
ExitOnFailure(code) == Deallocated /\ Exit(code)

-----------------------------------------------------------------------------
(* Signals *)

\* The timer alarm() started.
AlarmExpires ==
  /\ pc # "exited"
  /\ alarm = "armed"
  /\ alarm' = "raised"
  /\ UNCHANGED <<options, pc, mask, term, Alarm_pending, Term_pending, counters,
                 retry, resources, seeding, exit_code, start>>

\* A first termination request, or another one: SA_RESETHAND has left the
\* default action, which kills.
TermRaised ==
  /\ pc # "exited"
  /\ \/ /\ term = "none"
        /\ term' = "raised"
        /\ UNCHANGED <<pc, exit_code>>
     \/ /\ term = "delivered" /\ mask # "all"
        /\ Exit(128)
        /\ UNCHANGED term
  /\ UNCHANGED <<options, mask, alarm, Alarm_pending, Term_pending, counters,
                 retry, resources, seeding, start>>

\* A signal that is delivered while pselect() waits ends the wait.
Wakes ==
  /\ pc' = IF pc = "sleep" THEN "woken" ELSE pc
  /\ mask' = IF pc = "sleep" THEN "all" ELSE mask

\* sig_entropy_avail()
DeliverAlarm ==
  /\ pc # "exited"
  /\ alarm = "raised" /\ mask = "none"
  /\ alarm' = "off"
  /\ Alarm_pending' = 1
  /\ Wakes
  /\ UNCHANGED <<options, term, Term_pending, counters, retry, resources,
                 seeding, exit_code, start>>

\* sig_term(), installed by install_term(): before that the request kills.
DeliverTerm ==
  /\ pc # "exited"
  /\ term = "raised" /\ mask # "all"
  /\ term' = "delivered"
  /\ \/ /\ caller \notin {"alloc", "oneshot"}
        /\ Term_pending' = 1
        /\ Wakes
        /\ UNCHANGED exit_code
     \/ /\ caller \in {"alloc", "oneshot"}
        /\ Exit(128)
        /\ UNCHANGED <<Term_pending, mask>>
  /\ UNCHANGED <<options, alarm, Alarm_pending, counters, retry, resources,
                 seeding, start>>

-----------------------------------------------------------------------------
(* gather_entropy() and gather_entropy_retry() *)

Gather(from) ==
  /\ pc' = "gather"
  /\ caller' = from
  /\ i' = 0
  /\ written' = "error"
  /\ skipped' = 0

\* SIGALRM is blocked, a block is read, injected and the kernel told to reseed.
\* A missing collector is a failed read.
Inject ==
  /\ pc = "gather"
  /\ mask' = "alarm"
  /\ pc' = "injected"
  /\ \/ /\ ec = 1
        /\ written' = "full"
        /\ injected' = 1
     \/ /\ ec = 1 /\ ~lrng      \* the reseed fails after the injection
        /\ written' = "error"
        /\ injected' = 1
     \/ /\ written' = "error"   \* jent_read_entropy*() or the injection fails
        /\ UNCHANGED injected
  /\ UNCHANGED <<options, signals, counters, caller, i, resources, seeded,
                 notified, exit_code, start>>

\* When the kernel counts as seeded.  First, after every attempt.
SeededAnyway == 1

SeededIfFull == IF written = "full" THEN 1 ELSE seeded

Injected ==
  /\ pc = "injected"
  /\ \/ /\ exit_on_error /\ written = "error"
        /\ ExitOnFailure(2)
        /\ UNCHANGED <<mask, seeding>>
     \/ /\ ~exit_on_error \/ written = "full"
        /\ mask' = "none"
        /\ seeded' = SeededIfFull
        /\ notified' = SeededIfFull          \* notify_ready(), once
        /\ pc' = IF caller = "alloc" THEN "allocated" ELSE "retry"
        /\ UNCHANGED <<resources, exit_code, injected>>
  /\ UNCHANGED <<options, signals, counters, retry, start>>

\* The count of the retries.  First, one that a failed allocation escapes.
TriedUnlessFailed(allocated) == IF allocated THEN i + 1 ELSE i

Tried(allocated) == i + 1

\* Another retry: the collector is freed ...
Retry ==
  /\ pc = "retry"
  /\ written = "error" /\ i < Retries
  /\ ec' = 0
  /\ pc' = "realloc"
  /\ UNCHANGED <<options, mask, signals, counters, retry, fds, Pidfile_fd,
                 seeding, exit_code, start>>

\* ... and a fresh one allocated, which may not come about.
Realloc(allocated) ==
  /\ pc = "realloc"
  /\ ec' = IF allocated THEN 1 ELSE 0
  /\ i' = Tried(allocated)
  /\ pc' = IF allocated THEN "gather" ELSE "retry"
  /\ UNCHANGED <<options, mask, signals, counters, caller, written, fds, Pidfile_fd,
                 seeding, exit_code, start>>

\* No further retry: back to the caller, after a second if it still failed.
Gathered ==
  /\ pc = "retry"
  /\ written = "full" \/ i = Retries
  /\ pc' = CASE caller = "oneshot" -> "oneshot"
             [] caller = "alarm"   -> "rearm"
             [] caller = "select"  -> "loop"
  /\ UNCHANGED <<options, mask, signals, counters, retry, resources, seeding,
                 exit_code, start>>

-----------------------------------------------------------------------------
(* The startup *)

\* alloc(): the first of its steps that fails ends the start.
Start ==
  /\ pc = "start"
  /\ \/ /\ ec' = 1 /\ fds' = 1 /\ UNCHANGED Pidfile_fd
        /\ Gather("alloc")
        /\ UNCHANGED <<exit_code, phase, wakeups, forced>>
     \/ /\ ExitOnFailure(1)
        /\ UNCHANGED <<counters, retry>>
  /\ UNCHANGED <<options, mask, signals, seeding, start>>

\* The rest of main().  What init started is a daemon already, as in the
\* foreground.
Started ==
  /\ pc = "allocated"
  /\ \/ /\ oneshot /\ seeded = 0
        /\ Gather("oneshot")
        /\ UNCHANGED <<phase, wakeups, forced>>
     \/ /\ pc' = IF oneshot THEN "oneshot" ELSE IF foreground THEN "install" ELSE "fork"
        /\ oneshot => seeded = 1
        /\ UNCHANGED <<counters, retry>>
  /\ UNCHANGED <<options, mask, signals, resources, seeding, exit_code, start>>

\* daemonize(): a child goes on, and its parent waits for it ...
Daemonize ==
  /\ pc = "fork"
  /\ \/ /\ parent' = "waiting"
        /\ pc' = "child"
        /\ UNCHANGED <<resources, exit_code>>
     \/ /\ ExitOnFailure(1)
        /\ UNCHANGED parent
  /\ UNCHANGED <<options, mask, signals, counters, retry, seeding, ready>>

\* ... to own the PID file it was told to write, create_pid_file(), if any; a step
\* before that, or in it, may fail ...
CreatePidFile ==
  /\ pc = "child"
  /\ \/ /\ Pidfile_fd' = IF Pidfile THEN 1 ELSE 0
        /\ pc' = "owner"
        /\ UNCHANGED <<ec, fds, exit_code>>
     \/ ExitOnFailure(1)
  /\ UNCHANGED <<options, mask, signals, counters, retry, seeding, start>>

\* ... and to say so.
ReleaseParent ==
  /\ pc = "owner"
  /\ \/ /\ ready' = "byte"
        /\ pc' = "install"
        /\ UNCHANGED <<resources, exit_code>>
     \/ /\ ExitOnFailure(1)
        /\ UNCHANGED ready
  /\ UNCHANGED <<options, mask, signals, counters, retry, seeding, parent>>

\* The parent reads the byte, or the end of the pipe once the child is gone.
ParentExits ==
  /\ parent = "waiting"
  /\ ready = "byte" \/ pc = "exited"
  /\ parent' = IF ready = "byte" THEN "ok" ELSE "failed"
  /\ UNCHANGED <<options, pc, mask, signals, counters, retry, resources, seeding,
                 exit_code, ready>>

\* install_term() and the first install_alarm(), whose sigaction(2) has nothing
\* to fail over.
Install ==
  /\ pc = "install"
  /\ pc' = "loop"
  /\ caller' = "select"
  /\ alarm' = IF lrng THEN "off" ELSE "armed"
  /\ UNCHANGED <<options, mask, term, Alarm_pending, Term_pending, counters, i,
                 written, resources, seeding, exit_code, start>>

Oneshot ==
  /\ pc = "oneshot"
  /\ Deallocated
  /\ Exit(1 - seeded)
  /\ UNCHANGED <<options, mask, signals, counters, retry, seeding, start>>

-----------------------------------------------------------------------------
(* process_alarm() *)

\* The wakeup that forces a reseed.
Forced(n) == n >= ReseedWakeups[phase]

\* read_entropy_value()
EntropyValue(content) ==
  IF content # NoNumber /\ content \in 0 .. MaxEntropy THEN content ELSE -1

\* "An empty pool is the case to act on, not an error."
Insufficient(entropy, thresh) == entropy >= 0 /\ thresh > 0 /\ entropy < thresh

\* An alarm: a forced reseed, or one the estimate of the kernel asks for.  Every
\* wakeup ends in install_alarm(), also one that could not read the files.
ProcessAlarm(avail, wakeup) ==
  /\ pc = "alarm"
  /\ \/ /\ Forced(wakeups + 1)
        /\ wakeups' = 0
        /\ phase' = 1
        /\ forced' = 1
        /\ Gather("alarm")
     \/ /\ ~Forced(wakeups + 1)
        /\ wakeups' = wakeups + 1
        /\ \/ /\ Insufficient(EntropyValue(avail), EntropyValue(wakeup))
              /\ Gather("alarm")
           \/ /\ ~Insufficient(EntropyValue(avail), EntropyValue(wakeup))
              /\ pc' = "rearm"
              /\ skipped' = skipped + 1
              /\ UNCHANGED retry
        /\ UNCHANGED <<phase, forced>>
  /\ UNCHANGED <<options, mask, signals, resources, seeding, exit_code, start>>

\* install_alarm()
Rearm ==
  /\ pc = "rearm"
  /\ alarm' = IF lrng THEN alarm ELSE "armed"
  /\ pc' = "loop"
  /\ UNCHANGED <<options, mask, term, Alarm_pending, Term_pending, counters,
                 retry, resources, seeding, exit_code, start>>

-----------------------------------------------------------------------------
(* select_fd() *)

\* The mask under which the flags are tested.  First, none.
TestedUnblocked == "none"

TestedBlocked == "all"

Block ==
  /\ pc = "loop"
  /\ mask' = TestedBlocked
  /\ pc' = "test"
  /\ UNCHANGED <<options, signals, counters, retry, resources, seeding, exit_code,
                 start>>

TakeTerm ==
  /\ pc = "test"
  /\ Term_pending = 1
  /\ mask' = "none"
  /\ pc' = "terminate"
  /\ UNCHANGED <<options, signals, counters, retry, resources, seeding, exit_code,
                 start>>

\* process_term()
ProcessTerm ==
  /\ pc = "terminate"
  /\ alarm' = "off"
  /\ Deallocated
  /\ Exit(0)
  /\ UNCHANGED <<options, mask, term, Alarm_pending, Term_pending, counters,
                 retry, seeding, start>>

TakeAlarm ==
  /\ pc = "test"
  /\ Term_pending = 0 /\ Alarm_pending = 1
  /\ Alarm_pending' = 0
  /\ mask' = "none"
  /\ pc' = "alarm"
  /\ UNCHANGED <<options, alarm, term, Term_pending, counters, retry, resources,
                 seeding, exit_code, start>>

\* Nothing is pending.
Poll ==
  /\ pc = "test"
  /\ Term_pending = 0 /\ Alarm_pending = 0
  /\ pc' = "poll"
  /\ UNCHANGED <<options, mask, signals, counters, retry, resources, seeding,
                 exit_code, start>>

\* pselect() waits with the signals unblocked.
Sleep ==
  /\ pc = "poll"
  /\ pc' = "sleep"
  /\ mask' = "none"
  /\ UNCHANGED <<options, signals, counters, retry, resources, seeding, exit_code,
                 start>>

\* It was interrupted: the loop goes on.
Woken ==
  /\ pc = "woken"
  /\ mask' = "none"
  /\ pc' = "loop"
  /\ UNCHANGED <<options, signals, counters, retry, resources, seeding, exit_code,
                 start>>

\* /dev/random asks for entropy.
Writable ==
  /\ pc = "sleep"
  /\ Gather("select")
  /\ UNCHANGED <<options, mask, signals, phase, wakeups, forced, resources, seeding,
                 exit_code, start>>

\* The wait fails: with --exit-on-error its error is the exit code.
SelectFails ==
  /\ pc = "sleep"
  /\ ExitOnFailure(IF exit_on_error THEN 2 ELSE 1)
  /\ UNCHANGED <<options, mask, signals, counters, retry, seeding, start>>

-----------------------------------------------------------------------------

Init ==
  /\ exit_on_error \in BOOLEAN /\ oneshot \in BOOLEAN
  /\ foreground \in BOOLEAN /\ lrng \in BOOLEAN /\ Pidfile \in BOOLEAN
  /\ pc = "start" /\ caller = "alloc"
  /\ mask = "none"
  /\ alarm = "off" /\ term = "none"
  /\ Alarm_pending = 0 /\ Term_pending = 0
  /\ phase = 0 /\ wakeups = 0 /\ skipped = 0 /\ forced = 0
  /\ i = 0 /\ written = "error"
  /\ ec = 0 /\ fds = 0 /\ Pidfile_fd = 0
  /\ ready = "empty" /\ parent = "none"
  /\ seeded = 0 /\ notified = 0 /\ injected = 0
  /\ exit_code = -1

\* A signal that is not blocked is delivered before the daemon does anything else.
Interrupted ==
  \/ alarm = "raised" /\ mask = "none"
  \/ term = "raised" /\ mask # "all"

Signal == AlarmExpires \/ TermRaised \/ DeliverAlarm \/ DeliverTerm

\* What the daemon does by itself.
Work ==
  /\ ~Interrupted
  /\ \/ Start \/ Started \/ Oneshot
     \/ Daemonize \/ CreatePidFile \/ ReleaseParent \/ Install
     \/ Inject \/ Injected \/ Retry \/ Gathered
     \/ \E allocated \in BOOLEAN : Realloc(allocated)
     \/ \E avail, wakeup \in Content : ProcessAlarm(avail, wakeup)
     \/ Rearm
     \/ Block \/ TakeTerm \/ ProcessTerm \/ TakeAlarm \/ Poll \/ Sleep \/ Woken

Next == Signal \/ Work \/ Writable \/ SelectFails \/ ParentExits

Spec == Init /\ [][Next]_vars

\* The daemon is scheduled, its timer expires and its signals are delivered.
\* Nothing says that /dev/random ever becomes writable: "on current kernels
\* /dev/random never becomes writable".
FairSpec ==
  /\ Spec
  /\ WF_vars(Work) /\ WF_vars(ParentExits)
  /\ WF_vars(AlarmExpires) /\ WF_vars(DeliverAlarm) /\ WF_vars(DeliverTerm)

-----------------------------------------------------------------------------
(* Properties *)

\* Fewer alarms than force a reseed have gone by since entropy was gathered: of the
\* first phase until process_alarm() has forced one, of the second from then on.
FewSkipped == skipped < ReseedWakeups[forced]

\* "This ensures that new seed is added after every (force reseed wakeups) *
\* (alarm period)": the alarms never cease, however the signal falls between the
\* test and the wait and whatever fails meanwhile ("a missed alarm would stall the
\* daemon indefinitely"), and fewer of them than that go by without entropy being
\* gathered, in either phase, whatever the kernel estimates and whatever is in its
\* files.
ReseedsGoOn ==
  /\ [](~lrng => <>(pc \in {"alarm", "exited"}))
  /\ []FewSkipped

\* Whoever waits for the daemon gets an answer: a termination request ends it,
\* also while it retries an injection that keeps failing, and the process that
\* started it returns, also when it dies on the way.
DaemonAnswers ==
  /\ Term_pending = 1 ~> pc = "exited"
  /\ parent = "waiting" ~> parent # "waiting"

\* "The daemon is only truly operational after it has seeded the kernel": neither
\* the service manager nor the exit code of --oneshot claims more.  A start
\* succeeds if its daemon has the PID file it was told to write, and only then.
\* On whichever path the daemon exits without being killed it has freed the
\* collector and closed the files.
ReadyAndExitHonest ==
  /\ notified = 1 \/ (oneshot /\ exit_code = 0) => injected = 1
  /\ parent = "ok" /\ pc # "exited" /\ Pidfile => Pidfile_fd = 1
  /\ parent = "failed" => pc = "exited" /\ ready = "empty"
  /\ pc = "exited" /\ exit_code # 128 => ec = 0 /\ fds = 0 /\ Pidfile_fd = 0
=============================================================================
