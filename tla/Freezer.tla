------------------------------ MODULE Freezer ------------------------------
(***************************************************************************)
(* The freezing of tasks before a suspend: the two passes over the tasks   *)
(* (kernel/power/process.c), what a task does when it is asked to freeze   *)
(* (kernel/freezer.c, kernel/signal.c, kernel/fork.c), the thawing, and    *)
(* the switch that keeps kernel/kmod.c from starting user mode helpers.    *)
(*                                                                         *)
(* A pass reads the task list under tasklist_lock.  The kernel is built    *)
(* for one processor with preemption, where that lock keeps every other    *)
(* thread out: a pass is one action, and so is a section under task_lock.  *)
(* What a task does is modelled as far as the freezer can tell it apart.   *)
(***************************************************************************)
EXTENDS Integers, FiniteSets

CONSTANTS
    UserTasks,    \* user space tasks, alive or not
    KernelTasks,  \* kernel threads that called set_freezable()
    Requests,     \* callers of call_usermodehelper_exec
    Waits         \* what each of them waits for, see WaitsAssumption

Tasks == UserTasks \cup KernelTasks

ASSUME TasksAssumption == UserTasks \cap KernelTasks = {}
ASSUME RequestsAssumption == IsFiniteSet(Requests)
ASSUME WaitsAssumption == Waits \in [Requests -> {"nothing", "exec", "exit"}]

VARIABLES
    asked,     \* tasks with TIF_FREEZE
    frozen,    \* tasks with PF_FROZEN
    at,        \* what each task is doing, see Places
    tell,      \* tell[t] is {p} if the exec or exit of t wakes its vfork parent p
    pc,        \* where the suspending thread is
    pass,      \* the pass it is in: "user" (sig_only) or "all"
    todo,      \* the last scan counted a task
    disabled,  \* usermodehelper_disabled
    running,   \* running_helpers
    request    \* request[r]: where the request r and its helper are

vars == <<asked, frozen, at, tell, pc, pass, todo, disabled, running, request>>
taskVars == <<asked, frozen, at, tell>>
passVars == <<pc, pass, todo>>
helperVars == <<disabled, running, request>>

(* "syscall" and "blocked" (until a kernel thread has done its work) are   *)
(* the places of a user task inside the kernel where no signal is noticed; *)
(* "woken": the vfork child is done, PF_FREEZER_SKIP is still set;         *)
(* "entering": TIF_FREEZE was seen, refrigerator() is about to be called.  *)
UserPlaces == {"none", "user", "syscall", "sleep", "blocked", "stopped",
               "vfork", "woken", "entering", "ice"}
KernelPlaces == {"run", "checked", "sleep", "entering", "ice"}

Alive == {t \in Tasks : at[t] # "none"}

(* Where a task goes on after a freezer call that did not freeze it.       *)
Back(t) == IF t \in UserTasks THEN "user" ELSE "run"

freezer_should_skip(t) == at[t] \in {"vfork", "woken"}
task_is_stopped_or_traced(t) == at[t] = "stopped"
-----------------------------------------------------------------------------
Init ==
    /\ asked = {}
    /\ frozen = {}
    /\ at \in [Tasks -> {"none", "user", "run"}]
    /\ \A t \in KernelTasks : at[t] = "run"
    /\ \A t \in UserTasks : at[t] # "run"
    /\ tell = [t \in UserTasks |-> {}]
    /\ pc = "idle"
    /\ pass = "user"
    /\ todo = FALSE
    /\ disabled = FALSE
    /\ running = 0
    /\ request = [r \in Requests |-> "none"]

Moves(t, place) == at' = [at EXCEPT ![t] = place]

(* The work of a user task.  With TIF_FREEZE set it has a signal pending,  *)
(* and returns to the signal code instead of to user mode.                 *)
EnterSyscall(t) ==
    /\ at[t] = "user" /\ t \notin asked
    /\ Moves(t, "syscall")
    /\ UNCHANGED <<asked, frozen, tell>>

SyscallReturns(t) ==
    /\ at[t] = "syscall"
    /\ Moves(t, "user")
    /\ UNCHANGED <<asked, frozen, tell>>

SyscallSleeps(t) ==
    /\ at[t] = "syscall" /\ t \notin asked
    /\ Moves(t, "sleep")
    /\ UNCHANGED <<asked, frozen, tell>>

SleepEnds(t) ==
    /\ at[t] = "sleep"
    /\ Moves(t, Back(t))
    /\ UNCHANGED <<asked, frozen, tell>>

(* The task waits, uninterruptibly, for a kernel thread, and wakes it.     *)
SyscallBlocks(t) ==
    /\ at[t] = "syscall"
    /\ at' = [u \in Tasks |->
                 CASE u = t -> "blocked"
                   [] u \in KernelTasks /\ at[u] = "sleep" -> "run"
                   [] OTHER -> at[u]]
    /\ UNCHANGED <<asked, frozen, tell>>

(* A signal stops the task; SIGCONT lets it go on, but not before it has   *)
(* looked at TIF_FREEZE.                                                   *)
Stops(t) ==
    /\ at[t] = "user" /\ t \notin asked
    /\ Moves(t, "stopped")
    /\ UNCHANGED <<asked, frozen, tell>>

Continues(t) ==
    /\ at[t] = "stopped"
    /\ Moves(t, IF t \in asked THEN "entering" ELSE "user")
    /\ UNCHANGED <<asked, frozen, tell>>

(* copy_process fails with a signal pending; the child inherits no request.*)
do_fork(t, child, vfork) ==
    /\ at[t] = "syscall" /\ t \notin asked
    /\ at[child] = "none"
    /\ at' = [at EXCEPT ![t] = IF vfork THEN "vfork" ELSE "user", ![child] = "user"]
    /\ tell' = [tell EXCEPT ![child] = IF vfork THEN {t} ELSE {}]
    /\ UNCHANGED <<asked, frozen>>

(* mm_release, at exec or exit, completes the parent's vfork.              *)
mm_release(t, place) ==
    /\ at[t] = "syscall"
    /\ at' = [u \in Tasks |-> CASE u = t -> place
                                [] u \in tell[t] -> "woken"
                                [] OTHER -> at[u]]
    /\ tell' = [tell EXCEPT ![t] = {}]
    /\ asked' = IF place = "none" THEN asked \ {t} ELSE asked
    /\ UNCHANGED frozen

(* The vfork parent counts again, and looks at TIF_FREEZE at once.         *)
freezer_count(t) ==
    /\ at[t] = "woken"
    /\ Moves(t, IF t \in asked THEN "entering" ELSE "user")
    /\ UNCHANGED <<asked, frozen, tell>>
-----------------------------------------------------------------------------
(* A kernel thread (sleep_thread of drivers/usb/gadget/f_mass_storage.c):  *)
(* it looks at TIF_FREEZE, then sets its state and sleeps; a wake-up that  *)
(* comes in between is lost, unless it left work behind.                   *)
ThreadChecks(t) ==
    /\ at[t] = "run"
    /\ Moves(t, IF t \in asked THEN "entering" ELSE "checked")
    /\ UNCHANGED <<asked, frozen, tell>>

Blocked == {u \in UserTasks : at[u] = "blocked"}

ThreadSleeps(t) ==
    /\ at[t] = "checked"
    /\ Blocked = {}
    /\ Moves(t, "sleep")
    /\ UNCHANGED <<asked, frozen, tell>>

ThreadWorks(t) ==
    /\ at[t] = "checked"
    /\ Blocked # {}
    /\ at' = [u \in Tasks |-> CASE u = t -> "run"
                                [] u \in Blocked -> "user"
                                [] OTHER -> at[u]]
    /\ UNCHANGED <<asked, frozen, tell>>
-----------------------------------------------------------------------------
(* The freezer, as the tasks see it.                                       *)

(* get_signal_to_deliver: try_to_freeze sees TIF_FREEZE.                   *)
try_to_freeze(t) ==
    /\ at[t] = "user" /\ t \in asked
    /\ Moves(t, "entering")
    /\ UNCHANGED <<asked, frozen, tell>>

(* Mutant: TIF_FREEZE is not looked at again under task_lock.              *)
RefrigeratorUnchecked(t) ==
    /\ at[t] = "entering"
    /\ Moves(t, "ice") /\ frozen' = frozen \cup {t} /\ asked' = asked \ {t}
    /\ UNCHANGED tell

(* refrigerator(): the check and frozen_process() hold task_lock.          *)
refrigerator(t) ==
    /\ at[t] = "entering"
    /\ IF t \in asked
       THEN Moves(t, "ice") /\ frozen' = frozen \cup {t} /\ asked' = asked \ {t}
       ELSE Moves(t, Back(t)) /\ UNCHANGED <<asked, frozen>>
    /\ UNCHANGED tell

LeavesRefrigerator(t) ==
    /\ at[t] = "ice" /\ t \notin frozen
    /\ Moves(t, Back(t))
    /\ UNCHANGED <<asked, frozen, tell>>

UserStep(t) ==
    \/ SyscallReturns(t) \/ SyscallSleeps(t) \/ SyscallBlocks(t)
    \/ try_to_freeze(t) \/ freezer_count(t)
    \/ \E place \in {"user", "none"} : mm_release(t, place)
    \/ \E child \in UserTasks \ {t} : \E vfork \in BOOLEAN : do_fork(t, child, vfork)

ThreadStep(t) == ThreadChecks(t) \/ ThreadSleeps(t) \/ ThreadWorks(t)

(* What a task that is runnable does next ...                              *)
Runs(t) ==
    /\ \/ t \in UserTasks /\ UserStep(t)
       \/ t \in KernelTasks /\ ThreadStep(t)
       \/ refrigerator(t) \/ LeavesRefrigerator(t)
    /\ UNCHANGED passVars
    /\ UNCHANGED helperVars

(* ... and what depends on others, or on what its program wants.           *)
MayDo(t) ==
    /\ \/ SleepEnds(t)
       \/ t \in UserTasks /\ (EnterSyscall(t) \/ Stops(t) \/ Continues(t))
    /\ UNCHANGED passVars
    /\ UNCHANGED helperVars
-----------------------------------------------------------------------------
(* The suspending thread.                                                  *)

usermodehelper_disable ==
    /\ pc = "idle"
    /\ disabled' = TRUE
    /\ pc' = "helpers"
    /\ UNCHANGED <<pass, todo, running, request>>
    /\ UNCHANGED taskVars

(* Mutant: the helpers that are being started are not waited for.          *)
NotWaited ==
    /\ pc = "helpers"
    /\ pc' = "scan" /\ pass' = "user"
    /\ UNCHANGED <<todo, disabled, running, request>>
    /\ UNCHANGED taskVars

HelpersDone ==
    /\ pc = "helpers"
    /\ running = 0
    /\ pc' = "scan" /\ pass' = "user"
    /\ UNCHANGED <<todo, disabled, running, request>>
    /\ UNCHANGED taskVars

HelpersTimeout ==
    /\ pc = "helpers"
    /\ disabled' = FALSE
    /\ pc' = "idle"
    /\ UNCHANGED <<pass, todo, running, request>>
    /\ UNCHANGED taskVars

(* The tasks freeze_task() sets TIF_FREEZE for, or finds it set.           *)
Asking == ((IF pass = "user" THEN UserTasks ELSE Tasks) \cap Alive) \ frozen

(* Mutant: a task that was asked before is left alone.                     *)
ScanOnce ==
    /\ pc = "scan"
    /\ asked' = asked \cup Asking
    /\ at' = [t \in Tasks |-> IF t \in Asking \ asked /\ at[t] = "sleep" THEN Back(t) ELSE at[t]]
    /\ todo' = \E t \in Asking : ~(task_is_stopped_or_traced(t) \/ freezer_should_skip(t))
    /\ pc' = "decide"
    /\ UNCHANGED <<frozen, tell, pass>>
    /\ UNCHANGED helperVars

(* Mutant: a task that does not count is not asked either.                 *)
ScanCounted ==
    LET counted == {t \in Asking : ~(task_is_stopped_or_traced(t) \/ freezer_should_skip(t))}
    IN  /\ pc = "scan"
        /\ asked' = asked \cup counted
        /\ at' = [t \in Tasks |-> IF t \in counted /\ at[t] = "sleep" THEN Back(t) ELSE at[t]]
        /\ todo' = (counted # {})
        /\ pc' = "decide"
        /\ UNCHANGED <<frozen, tell, pass>>
        /\ UNCHANGED helperVars

(* One round over the task list.  The tasks that sleep interruptibly are   *)
(* woken, by a fake signal or directly, in every round.                    *)
Scan ==
    /\ pc = "scan"
    /\ asked' = asked \cup Asking
    /\ at' = [t \in Tasks |-> IF t \in Asking /\ at[t] = "sleep" THEN Back(t) ELSE at[t]]
    /\ todo' = \E t \in Asking : ~(task_is_stopped_or_traced(t) \/ freezer_should_skip(t))
    /\ pc' = "decide"
    /\ UNCHANGED <<frozen, tell, pass>>
    /\ UNCHANGED helperVars

(* After the round: the next one, the next pass, or the end of the last.   *)
Decide ==
    /\ pc = "decide"
    /\ CASE todo                    -> pc' = "scan" /\ UNCHANGED pass
         [] ~todo /\ pass = "user"  -> pc' = "scan" /\ pass' = "all"
         [] ~todo /\ pass # "user"  -> pc' = "frozen" /\ UNCHANGED pass
    /\ UNCHANGED todo
    /\ UNCHANGED taskVars
    /\ UNCHANGED helperVars

(* A wake lock is held, or the 20 seconds are over.                        *)
GiveUp ==
    /\ pc = "decide" /\ todo
    /\ pc' = "cancel"
    /\ UNCHANGED <<pass, todo>>
    /\ UNCHANGED taskVars
    /\ UNCHANGED helperVars

cancel_freezing ==
    /\ pc = "cancel"
    /\ asked' = {}
    /\ pc' = "thaw_kernel"
    /\ UNCHANGED <<frozen, at, tell, pass, todo>>
    /\ UNCHANGED helperVars

(* The devices are suspended and resumed, then everything is undone.       *)
Resume ==
    /\ pc = "frozen"
    /\ pc' = "thaw_kernel"
    /\ UNCHANGED <<pass, todo>>
    /\ UNCHANGED taskVars
    /\ UNCHANGED helperVars

(* thaw_process on each of them: a task that is not frozen yet is asked    *)
(* no more.                                                                *)
thaw_tasks(tasks, now, next) ==
    /\ pc = now
    /\ frozen' = frozen \ tasks
    /\ asked' = asked \ (tasks \ frozen)
    /\ pc' = next
    /\ UNCHANGED <<at, tell, pass, todo>>
    /\ UNCHANGED helperVars

(* Mutant: the user tasks are thawed first.                                *)
ThawUserFirst ==
    \/ thaw_tasks(UserTasks, "thaw_kernel", "thaw_user")
    \/ thaw_tasks(Tasks, "thaw_user", "enable")

thaw_processes ==
    \/ thaw_tasks(KernelTasks, "thaw_kernel", "thaw_user")
    \/ thaw_tasks(Tasks, "thaw_user", "enable")

usermodehelper_enable ==
    /\ pc = "enable"
    /\ disabled' = FALSE
    /\ pc' = "idle"
    /\ UNCHANGED <<pass, todo, running, request>>
    /\ UNCHANGED taskVars

Suspender ==
    \/ HelpersDone \/ HelpersTimeout
    \/ Scan \/ Decide \/ GiveUp \/ cancel_freezing
    \/ Resume \/ thaw_processes \/ usermodehelper_enable
-----------------------------------------------------------------------------
(* User mode helpers (kernel/kmod.c).  The process a request starts is a   *)
(* child of khelper and keeps its PF_NOFREEZE (copy_flags, kernel/fork.c): *)
(* the freezer does not see it.                                            *)

HelperMoves(r, place, count) ==
    /\ request' = [request EXCEPT ![r] = place]
    /\ running' = running + count
    /\ UNCHANGED disabled
    /\ UNCHANGED taskVars
    /\ UNCHANGED passVars

helper_lock(r) == request[r] = "none" /\ HelperMoves(r, "locked", 1)

(* The request is refused, or queued to khelper.                           *)
call_usermodehelper_exec(r) ==
    /\ request[r] = "locked"
    /\ IF disabled THEN HelperMoves(r, "none", -1)
       ELSE HelperMoves(r, "queued", IF Waits[r] = "nothing" THEN -1 ELSE 0)

__call_usermodehelper(r) ==
    request[r] = "queued" /\ HelperMoves(r, "spawned", 0)

kernel_execve(r) ==
    request[r] = "spawned" /\ HelperMoves(r, "user", IF Waits[r] = "exec" THEN -1 ELSE 0)

HelperExits(r) ==
    request[r] = "user" /\ HelperMoves(r, "none", IF Waits[r] = "exit" THEN -1 ELSE 0)

HelperStep(r) ==
    \/ call_usermodehelper_exec(r) \/ __call_usermodehelper(r) \/ kernel_execve(r)
-----------------------------------------------------------------------------
Next ==
    \/ \E t \in Tasks : Runs(t) \/ MayDo(t)
    \/ usermodehelper_disable
    \/ Suspender
    \/ \E r \in Requests : helper_lock(r) \/ HelperStep(r) \/ HelperExits(r)

(* Runnable tasks, the suspending thread and khelper are scheduled.  No    *)
(* sleep ends by itself, and no helper exits.                              *)
Fairness ==
    /\ \A t \in Tasks : WF_vars(Runs(t))
    /\ WF_vars(Suspender)
    /\ \A r \in Requests : WF_vars(HelperStep(r))

Spec == Init /\ [][Next]_vars
FairSpec == Spec /\ Fairness
-----------------------------------------------------------------------------
(* Every variable has its type; a task with PF_FROZEN is in the            *)
(* refrigerator, and the request it came for is gone.                      *)
TypeOK ==
    /\ asked \in SUBSET Alive
    /\ frozen \in SUBSET Alive
    /\ asked \cap frozen = {}
    /\ at \in [Tasks -> UserPlaces \cup KernelPlaces]
    /\ \A t \in UserTasks : at[t] \in UserPlaces
    /\ \A t \in KernelTasks : at[t] \in KernelPlaces
    /\ \A t \in frozen : at[t] = "ice"
    /\ tell \in [UserTasks -> SUBSET UserTasks]
    /\ \A t \in UserTasks : \A p \in tell[t] : at[p] = "vfork"
    /\ pc \in {"idle", "helpers", "scan", "decide", "cancel", "frozen",
               "thaw_kernel", "thaw_user", "enable"}
    /\ pass \in {"user", "all"}
    /\ todo \in BOOLEAN
    /\ disabled \in BOOLEAN
    /\ running \in 0..Cardinality(Requests)
    /\ request \in [Requests -> {"none", "locked", "queued", "spawned", "user"}]

(* A task that will stop before it runs anything substantial: it is in     *)
(* the refrigerator, or will look at TIF_FREEZE and find it set.           *)
Stopped(t) ==
    \/ t \in frozen
    \/ t \in asked /\ at[t] \in {"stopped", "vfork", "woken", "entering"}

(* freeze_processes() returns 0 only when every user task and every        *)
(* freezable kernel thread is stopped, whatever they forked, stopped,      *)
(* continued or waited for in the meantime.                                *)
FrozenMeansStopped == pc = "frozen" => \A t \in Alive : Stopped(t)

(* User tasks are frozen first and thawed last: none of them waits for a   *)
(* kernel thread that is frozen, which would make the freezer fail or the  *)
(* task hang.  Only after an abort they may, until the thread is thawed in *)
(* the very next step.                                                     *)
NobodyWaitsForFrozen ==
    Blocked # {} => frozen \cap KernelTasks = {} \/ pc = "thaw_kernel"

(* freezer.c:134 "the task would be frozen and no one would thaw it": no   *)
(* way out of a suspend, completed or aborted, leaves a task frozen or     *)
(* asked to freeze.                                                        *)
NothingLeftFrozen ==
    pc \in {"idle", "helpers", "enable"} => asked = {} /\ frozen = {}

(* kmod.c:275 "preventing user land processes from being created after the *)
(* user land has been frozen": no helper is executed from the moment the   *)
(* freezer starts until it has thawed the tasks.                           *)
NoProcessWhileFrozen ==
    [][\A r \in Requests : request[r] = "spawned" /\ request'[r] = "user"
                              => pc \in {"idle", "helpers"}]_vars

(* The freezer comes to an end: unless it gives up, which a wake lock or    *)
(* the time limit may let it do but need not, every task asked gets to the *)
(* refrigerator, also a kernel thread that lost its wake-up and a user     *)
(* task that waits for a kernel thread.                                    *)
FreezeSucceeds == pc = "scan" ~> pc \in {"frozen", "cancel"}
=============================================================================
