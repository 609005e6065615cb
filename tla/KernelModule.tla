---------------------------- MODULE KernelModule ----------------------------
(***************************************************************************)
(* The load and unload of the kernel module: its configuration, the order  *)
(* in which it registers its interfaces, the unwinding of a load that      *)
(* fails, and the users who come as soon as an interface is there: the     *)
(* instances of the crypto API with the buckets Kcapi keeps for them, and  *)
(* the files of the character device and of the test interface.            *)
(***************************************************************************)
EXTENDS Kcapi

CONSTANTS Size,             \* the values of max_memsize tried, in kB
          Field,            \* the memory size fields of flags tried
          MaxField          \* the field of JENT_MOD_MAX_MEMSIZE

ASSUME SizeAssumption == Field \subseteq Nat /\ MaxField \in Nat

\* The parameters of the load and the machine it happens on.  "compliance" is a
\* mode asked for by the flags, fips is fips_enabled, host says whether the
\* machine's clock is good enough.
Parameters == [osr_too_high : BOOLEAN, force_timer : BOOLEAN,
               no_memory_access : BOOLEAN, compliance : BOOLEAN,
               fips : BOOLEAN, host : BOOLEAN,
               max_memsize : Size, field : Field]

VARIABLES module,           \* the state of the module in the kernel
          at,               \* the next step of jent_mod_init() or of an exit
          param, field,     \* the parameters, and the size field of jent_flags
          proc_dir,         \* jent_proc_dir
          hw_ec,            \* the hwrng's collector
          hw_work,          \* the hwrng's self test is scheduled
          hw,               \* the hwrng is registered
          hw_file,          \* jent_hwrng_proc, below proc_dir
          late,             \* whether the hwrng registers with the "module" or,
                            \* built into the kernel, "late", and then whether
                            \* that is still to come: jent_mod_hwrng_pending
          alg,              \* the algorithm is registered
          misc,             \* the list head of the misc device
          misc_registered,  \* jent_chardev_registered
          misc_dir,         \* jent_chardev_proc_dir, below proc_dir
          debugfs,          \* jent_raw_debugfs_root
          users             \* the files somebody holds open
user_vars  == <<users, bucket_vars>>
param_vars == <<param, field>>
hw_vars    == <<hw_ec, hw_work, hw, hw_file, late>>
misc_vars  == <<misc, misc_registered, misc_dir>>
vars == <<module, at, param_vars, proc_dir, hw_vars, alg, misc_vars, debugfs,
          users, bucket_vars>>

Step(from, to) ==
  /\ at = from
  /\ at' = to
  /\ module = "coming"
  /\ UNCHANGED <<module, param>>

-----------------------------------------------------------------------------
(* The configuration *)

\* jent_mod_check_config()
ConfigRefused(p) ==
  \/ p.osr_too_high
  \/ p.force_timer
  \/ p.no_memory_access /\ (p.compliance \/ p.fips)

\* ilog2(n) + 1 for the powers of two up to the bound.
FieldOf(n) == CHOOSE f \in 1 .. MaxField : 2 ^ (f - 1) = n

IsSize(n) == \E f \in 1 .. MaxField : 2 ^ (f - 1) = n

\* The check of max_memsize and of the field in the flags.
SizeRefused(p) ==
  IF p.max_memsize # 0 THEN ~IsSize(p.max_memsize) ELSE p.field > MaxField

\* No load is going on, or it is past the checks of its parameters: from then on
\* jent_mod_init() looks at the field of jent_flags alone.
DoneWith == CHOOSE p \in Parameters : p.host

\* insmod, or the boot of a kernel with the module built in; the fold of the
\* shortcuts and the checks: -EINVAL, and nothing of the module was ever used.
Configure(p) ==
  /\ module = "unloaded"
  /\ \/ /\ ConfigRefused(p) \/ SizeRefused(p)
        /\ UNCHANGED <<module, at, param, field>>
     \/ /\ ~ConfigRefused(p)
        /\ ~SizeRefused(p)
        /\ module' = "coming"
        /\ at' = "init"
        /\ param' = p
        /\ field' = IF p.max_memsize # 0 /\ IsSize(p.max_memsize)
                      THEN FieldOf(p.max_memsize) ELSE p.field
  /\ UNCHANGED <<proc_dir, hw_vars, alg, misc_vars, debugfs, user_vars>>

\* jent_entropy_init_ex() of a kernel build refuses the host, and what
\* jent_mod_check_config() is there to keep from it.
LibraryRefuses(p) ==
  \/ ~p.host
  \/ p.osr_too_high
  \/ p.no_memory_access /\ (p.compliance \/ p.fips)

LibraryInit ==
  /\ module = "coming"
  /\ at = "init"
  /\ \/ /\ LibraryRefuses(param)
        /\ module' = IF param.fips THEN "panic" ELSE "unloaded"
        /\ at' = "none"
        /\ param' = IF param.fips THEN param ELSE DoneWith
        /\ field' = 0
     \/ /\ ~LibraryRefuses(param)
        /\ at' = "proc"
        /\ param' = DoneWith
        /\ UNCHANGED <<module, field>>
  /\ UNCHANGED <<proc_dir, hw_vars, alg, misc_vars, debugfs, user_vars>>

-----------------------------------------------------------------------------
(* The registrations, in the order of jent_mod_init() *)

\* jent_proc_init(): everything below /proc/jitterentropy, or nothing.  Without
\* procfs there is no directory and that is no failure.
ProcInit ==
  /\ proc_dir' \in BOOLEAN
  /\ \/ Step("proc", "hwrng")
     \/ Step("proc", "fail") /\ ~proc_dir'
  /\ UNCHANGED <<field, hw_vars, alg, misc_vars, debugfs, user_vars>>

\* jent_hwrng_init(): the collector and its self test, then the registration,
\* which takes both back when it fails.
HwrngAlloc ==
  /\ late = "module"
  /\ \/ /\ Step("hwrng", "hwrng_register")
        /\ hw_ec' = TRUE
        /\ hw_work' \in BOOLEAN
     \/ /\ Step("hwrng", "unwind_proc")
        /\ UNCHANGED <<hw_ec, hw_work>>
  /\ UNCHANGED <<field, proc_dir, hw, hw_file, late, alg, misc_vars, debugfs,
                 user_vars>>

\* What a failed registration leaves of the self test.  First, a run that stays
\* scheduled.
StillScheduled(scheduled) == scheduled

Unscheduled(scheduled) == FALSE

HwrngRegister ==
  /\ \/ /\ Step("hwrng_register", "kcapi")
        /\ hw' = TRUE
        /\ hw_file' \in {proc_dir, FALSE}
        /\ UNCHANGED <<hw_ec, hw_work>>
     \/ /\ Step("hwrng_register", "unwind_proc")
        /\ hw_work' = Unscheduled(hw_work)
        /\ hw_ec' = FALSE
        /\ UNCHANGED <<hw, hw_file>>
  /\ UNCHANGED <<field, proc_dir, late, alg, misc_vars, debugfs, user_vars>>

\* jent_mod_hwrng_init() of a kernel the module is built into.
HwrngDefer ==
  /\ late = "late"
  /\ Step("hwrng", "kcapi")
  /\ late' = "pending"
  /\ UNCHANGED <<field, proc_dir, hw_ec, hw_work, hw, hw_file, alg, misc_vars,
                 debugfs, user_vars>>

\* jent_mod_hwrng_late_init(), after every device initcall: jent_hwrng_init(),
\* whose failure is not the module's any more.
HwrngLate ==
  /\ late = "pending"
  /\ module = "live"
  /\ late' = "late"
  /\ \E scheduled \in BOOLEAN :
       \/ /\ hw_ec' = TRUE
          /\ hw_work' = scheduled
          /\ hw' = TRUE
          /\ hw_file' \in {proc_dir, FALSE}
       \/ /\ hw_work' = Unscheduled(scheduled)
          /\ UNCHANGED <<hw_ec, hw, hw_file>>
  /\ UNCHANGED <<module, at, param_vars, proc_dir, alg, misc_vars, debugfs,
                 user_vars>>

\* jent_kcapi_init(): the last registration that may fail the load.
KcapiInit ==
  /\ \/ /\ Step("kcapi", "chardev")
        /\ alg' = TRUE
     \/ /\ Step("kcapi", "unwind_hwrng")
        /\ UNCHANGED alg
  /\ UNCHANGED <<field, proc_dir, hw_vars, misc_vars, debugfs, user_vars>>

\* Where a failed character device leads.  First, to an unwinding.
ChardevFailureFatal == "unwind_hwrng"

ChardevFailure == "testing"

\* jent_chardev_init(): its failure is not the module's.
ChardevInit ==
  /\ \/ /\ Step("chardev", "testing")
        /\ misc' = "linked"
        /\ misc_registered' = TRUE
        /\ misc_dir' \in {proc_dir, FALSE}
     \/ /\ Step("chardev", ChardevFailure)
        /\ UNCHANGED misc_vars
  /\ UNCHANGED <<field, proc_dir, hw_vars, alg, debugfs, user_vars>>

\* jent_testing_init(), and the load has succeeded.
TestingInit ==
  /\ at = "testing"
  /\ module = "coming"
  /\ debugfs' \in BOOLEAN
  /\ module' = "live"
  /\ at' = "none"
  /\ UNCHANGED <<param_vars, proc_dir, hw_vars, alg, misc_vars, user_vars>>

-----------------------------------------------------------------------------
(* The exits, of a load that failed and of an unload *)

HwrngExit ==
  /\ hw_file' = FALSE
  /\ hw' = FALSE
  /\ hw_work' = FALSE
  /\ hw_ec' = FALSE
  /\ UNCHANGED late

\* jent_mod_hwrng_exit(), for a load that fails.
ModHwrngExit ==
  IF late = "module" THEN HwrngExit
  ELSE late' = "late" /\ UNCHANGED <<hw_ec, hw_work, hw, hw_file>>

\* jent_chardev_exit(), with the guard for a device that was never registered.
Deregisters == misc_registered

ChardevExit ==
  /\ misc' = IF ~Deregisters THEN misc
             ELSE IF misc = "linked" THEN "unlinked" ELSE "corrupt"
  /\ misc_registered' = FALSE
  /\ misc_dir' = FALSE

\* The labels err_hwrng and err, and the free of the module, which waits for
\* nobody.
Unwind ==
  /\ module = "coming"
  /\ \/ /\ at = "unwind_hwrng"
        /\ at' = "unwind_proc"
        /\ ModHwrngExit
        /\ UNCHANGED <<module, field, proc_dir>>
     \/ /\ at = "unwind_proc"
        /\ at' = "fail"
        /\ proc_dir' = FALSE
        /\ UNCHANGED <<module, field, hw_vars>>
     \/ /\ at = "fail"
        /\ at' = "none"
        /\ module' = "unloaded"
        /\ field' = 0
        /\ UNCHANGED <<proc_dir, hw_vars>>
  /\ UNCHANGED <<param, alg, misc_vars, debugfs, user_vars>>

\* Whoever runs or may run code of the module and has a reference to it: open
\* files, and instances from their binding to the end of their cleanup.
InUse == users # {} \/ \E t \in Tfm : tfm[t] # "none"

\* rmmod, which every reference refuses.
Unload ==
  /\ module = "live"
  /\ late = "module"
  /\ ~InUse
  /\ module' = "going"
  /\ at' = "exit_chardev"
  /\ UNCHANGED <<param_vars, proc_dir, hw_vars, alg, misc_vars, debugfs, user_vars>>

\* The order in which jent_mod_exit() goes on after a step.
ExitOrder ==
  [exit_chardev |-> "exit_kcapi", exit_kcapi |-> "exit_testing",
   exit_testing |-> "exit_hwrng", exit_hwrng |-> "exit_proc",
   exit_proc |-> "none"]

\* jent_mod_exit().
Exit ==
  /\ module = "going"
  /\ at' = ExitOrder[at]
  /\ module' = IF at' = "none" THEN "unloaded" ELSE module
  /\ field' = IF at' = "none" THEN 0 ELSE field
  /\ IF at = "exit_chardev" THEN ChardevExit ELSE UNCHANGED misc_vars
  /\ IF at = "exit_hwrng" THEN HwrngExit ELSE UNCHANGED hw_vars
  /\ alg' = (alg /\ at # "exit_kcapi")
  /\ debugfs' = (debugfs /\ at # "exit_testing")
  /\ proc_dir' = (proc_dir /\ at # "exit_proc")
  /\ UNCHANGED <<param, user_vars>>

-----------------------------------------------------------------------------
(* The users *)

Interface == {"file", "debugfs"}

Reachable(i) ==
  \/ i = "file" /\ misc = "linked"
  \/ i = "debugfs" /\ debugfs

\* What try_module_get() grants a reference in.
Gettable == module \in {"coming", "live"}

Enter(i) ==
  /\ Gettable
  /\ i \notin users
  /\ Reachable(i)
  /\ users' = users \cup {i}
  /\ UNCHANGED <<module, at, param_vars, proc_dir, hw_vars, alg, misc_vars,
                 debugfs, bucket_vars>>

Leave(i) ==
  /\ module # "panic"
  /\ i \in users
  /\ users' = users \ {i}
  /\ UNCHANGED <<module, at, param_vars, proc_dir, hw_vars, alg, misc_vars,
                 debugfs, bucket_vars>>

\* The crypto API: only a registered algorithm gets new instances.
Crypto ==
  /\ module # "panic"
  /\ BucketsNext
  /\ (\E t \in Tfm : tfm[t] = "none" /\ tfm'[t] # "none") => alg /\ Gettable
  /\ UNCHANGED <<module, at, param_vars, proc_dir, hw_vars, alg, misc_vars,
                 debugfs, users>>

-----------------------------------------------------------------------------

Init ==
  /\ module = "unloaded"
  /\ at = "none"
  /\ param = DoneWith
  /\ field = 0
  /\ proc_dir = FALSE
  /\ hw_ec = FALSE
  /\ hw_work = FALSE
  /\ hw = FALSE
  /\ hw_file = FALSE
  /\ late \in {"module", "late"}
  /\ alg = FALSE
  /\ misc = "unlinked"
  /\ misc_registered = FALSE
  /\ misc_dir = FALSE
  /\ debugfs = FALSE
  /\ users = {}
  /\ BucketsInit

Next ==
  \/ \E p \in Parameters : Configure(p)
  \/ LibraryInit \/ ProcInit \/ HwrngAlloc \/ HwrngRegister
  \/ HwrngDefer \/ HwrngLate \/ KcapiInit \/ ChardevInit
  \/ TestingInit \/ Unwind \/ Unload \/ Exit
  \/ \E i \in Interface : Enter(i) \/ Leave(i)
  \/ Crypto

Spec == Init /\ [][Next]_vars

-----------------------------------------------------------------------------
(* Properties *)

\* The text of the module is never freed under somebody who uses it: "nothing
\* that can still fail the load follows" the registrations of jent_mod_init()
\* that can be used at once, and an algorithm with an instance stays registered.
NoFreeUnderUser ==
  /\ module = "unloaded" => ~InUse
  /\ (\E t \in Tfm : tfm[t] # "none") => alg

\* A load ends in one of three ways, whatever step of jent_mod_init() failed.
\* The module is there: its algorithm is registered, its hwrng with a collector
\* behind it - of a module built in once its late initcall has run and not
\* failed - and its instances get the memory size that was asked for.  Or it is
\* not, and has left nothing behind, also of its instances and of the namespaces
\* they referred to: "the deferred registration only runs on a module that
\* otherwise came up correctly".  Or a fips kernel panicked, over its host and
\* never over "a configuration error", which jent_mod_check_config() has refused
\* before.  On no way is an entry below /proc/jitterentropy left without it - "a
\* proc_remove() on an already-removed entry would act on freed memory" - or a
\* device unlinked that was not linked.
LoadEndsSound ==
  /\ field <= MaxField
  /\ at = "init" /\ param.max_memsize # 0 => 2 ^ (field - 1) = param.max_memsize
  /\ module = "live" =>
       /\ alg
       /\ hw \/ late # "module"
       /\ hw <=> hw_ec
       /\ hw_work => hw_ec
       /\ late = "pending" => ~hw
  /\ module = "unloaded" =>
       /\ ~(proc_dir \/ hw_ec \/ hw_work \/ hw \/ hw_file \/ alg
              \/ misc = "linked" \/ misc_dir \/ debugfs)
       /\ late # "pending"
       /\ table = {}
       /\ \A ns \in PidNs : refs[ns] = 0
  /\ module = "panic" => ~param.host
  /\ hw_file \/ misc_dir => proc_dir
  /\ misc # "corrupt"
=============================================================================
