---------------------------- MODULE PowerManager ----------------------------
(***************************************************************************)
(* The Android power manager as a whole: wakelock.c and earlysuspend.c     *)
(* together, and the file /sys/power/state of kernel/power/main.c, through *)
(* which user space drives them.  WakeLock and EarlySuspend each leave the *)
(* other half open; here                                                   *)
(*   - main_wake_lock of the one is main_wake_lock of the other,           *)
(*   - suspend_work, early_suspend_work and late_resume_work share the     *)
(*     only thread of suspend_work_queue,                                  *)
(*   - nothing runs while the system sleeps.                               *)
(* An action of this module is an action of both, or of one while the      *)
(* other stays as it is.                                                   *)
(***************************************************************************)
EXTENDS Integers, Sequences, FiniteSets, SequencesExt

CONSTANTS
    SuspendLocks, IdleLocks, Main, Unknown, MaxTimeout, UnknownTimeout,
    DestroyHeld,                            \* see WakeLock
    Handlers, Level, Suspenders, Resumers,  \* see EarlySuspend
    Writers                                 \* open files on /sys/power/state

VARIABLES
    initialized, active, timed, left, preventing,
    timer, expiring, queued, pc, event,  \* see WakeLock
    requested, suspended, worklist, worker, todo,
    handlers, registering, gone, off,    \* see EarlySuspend
    global_state,  \* what a read of /sys/power/state shows
    writer         \* what each writer in state_store asks for, or "out"

W == INSTANCE WakeLock
E == INSTANCE EarlySuspend WITH mainHeld <- Main \in active

lockState == <<initialized, active, timed, left, preventing,
               timer, expiring, queued, pc, event>>
fileState == <<global_state, writer>>
earlyState == <<requested, suspended, worklist, worker, todo,
                handlers, registering, gone, off>>
vars == <<lockState, earlyState, fileState>>

Locks == W!Locks

(* What the two halves assume of their constants.                          *)
ASSUME LocksAssumption ==
    /\ Main \in SuspendLocks
    /\ Unknown \in SuspendLocks \ {Main}
    /\ SuspendLocks \cap IdleLocks = {}
    /\ DestroyHeld \subseteq Locks \ {Main, Unknown}
ASSUME TimeoutAssumption == MaxTimeout \in Nat /\ UnknownTimeout \in 1..MaxTimeout
ASSUME HandlersAssumption ==
    /\ Level \in [Handlers -> Int]
    /\ Suspenders \subseteq Handlers
    /\ Resumers \subseteq Handlers

(* The states /sys/power/state accepts: PM_SUSPEND_ON and PM_SUSPEND_MEM.  *)
States == {"on", "mem"}
-----------------------------------------------------------------------------
(* The two halves take a step together.                                    *)

(* suspend_work is pending in both or in neither, and suspend() runs       *)
(* exactly while the thread of the queue is in it.                         *)
Linked ==
    /\ queued' = ("suspend" \in ToSet(worklist'))
    /\ (worker' = "suspend") = (pc' # "idle")
    /\ UNCHANGED fileState

(* A step of the wake locks; when it queues suspend_work the worklist has  *)
(* it, when it ends suspend() the worker is free.                          *)
OnlyLocks ==
    /\ IF queued' /\ ~queued THEN E!OtherLockReleased
       ELSE IF pc' = "idle" /\ pc # "idle" THEN E!SuspendEnd
       ELSE UNCHANGED earlyState
    /\ Linked
-----------------------------------------------------------------------------
Init ==
    /\ W!Init
    /\ E!Init
    /\ global_state = "on"
    /\ writer = [w \in Writers |-> "out"]

(* request_suspend_state takes main_wake_lock under state_lock, if it does.*)
(* (kernel/sys.c:407 calls it too, before the power goes off; not here.)   *)
Request(state) ==
    /\ IF state = "on" /\ requested THEN W!wake_lock(Main) ELSE UNCHANGED lockState
    /\ IF state = "on" THEN E!RequestWakeup ELSE E!RequestSleep

(* state_store up to its call of request_suspend_state; sysfs has a mutex  *)
(* for each open file, and nothing else is taken.                          *)
state_store(w, state) ==
    /\ W!Awake
    /\ writer[w] = "out"
    /\ writer' = [writer EXCEPT ![w] = state]
    /\ global_state' = state
    /\ UNCHANGED <<lockState, earlyState>>

request_suspend_state(w) ==
    /\ W!Awake
    /\ writer[w] # "out"
    /\ Request(writer[w])
    /\ writer' = [writer EXCEPT ![w] = "out"]
    /\ UNCHANGED global_state

Register(h) ==
    /\ W!Awake
    /\ UNCHANGED lockState
    /\ E!register_early_suspend(h) \/ E!RegisterCall(h) \/ E!unregister_early_suspend(h)
    /\ Linked

(* The worker in early_suspend or late_resume; the label abort of the      *)
(* first releases main_wake_lock.                                          *)
EarlyWork ==
    /\ UNCHANGED lockState
    /\ \/ worklist # <<>> /\ Head(worklist) # "suspend" /\ E!RunWork
       \/ E!EarlyBegin \/ E!EarlyCall \/ E!EarlyCalled
       \/ ~(requested /\ suspended) /\ E!EarlyEnd
       \/ E!LateBegin \/ E!LateCall \/ E!LateEnd
    /\ Linked

EarlyRelease ==
    /\ requested /\ suspended
    /\ W!wake_unlock(Main)
    /\ E!EarlyEnd
    /\ Linked

StartSuspend ==
    /\ worklist # <<>> /\ Head(worklist) = "suspend"
    /\ W!SuspendStart
    /\ E!RunWork
    /\ Linked

SuspendWork ==
    /\ \/ W!SuspendCheck \/ W!SuspendSnapshot
       \/ W!PmSuspendFails \/ W!power_suspend_late
       \/ W!SuspendCompare \/ W!SuspendNoEvent
    /\ OnlyLocks

WakeUp == W!WakeUp /\ OnlyLocks

(* The owners of the other locks, and the timer.                           *)
UseLock(l) ==
    /\ l # Main
    /\ \/ W!wake_lock_init(l)
       \/ W!wake_lock_destroy(l)
       \/ l # Unknown /\ W!wake_lock(l)
       \/ \E timeout \in 1..MaxTimeout : W!wake_lock_timeout(l, timeout)
       \/ W!wake_unlock(l)
    /\ OnlyLocks

Tick == W!Tick /\ OnlyLocks
TimerFires == W!TimerFires /\ OnlyLocks
expire_wake_locks == W!expire_wake_locks /\ OnlyLocks

Worker == EarlyWork \/ EarlyRelease \/ StartSuspend \/ SuspendWork

Next ==
    \/ \E w \in Writers :
          (\E state \in States : state_store(w, state)) \/ request_suspend_state(w)
    \/ \E h \in Handlers : Register(h)
    \/ Worker
    \/ WakeUp
    \/ \E l \in Locks : UseLock(l)
    \/ Tick
    \/ TimerFires
    \/ expire_wake_locks

Spec == Init /\ [][Next]_vars

(* As in WakeLock and EarlySuspend: threads, timer and softirq get to run; *)
(* nobody is assumed to release a lock, to ask or to wake the system.      *)
Fairness ==
    /\ WF_vars(Worker)
    /\ WF_vars(Tick)
    /\ WF_vars(TimerFires)
    /\ WF_vars(expire_wake_locks)
    /\ \A h \in Handlers : WF_vars(registering = {h} /\ Register(h))

FairSpec == Spec /\ Fairness
-----------------------------------------------------------------------------
TypeOK ==
    /\ W!TypeOK
    /\ E!TypeOK
    /\ global_state \in States
    /\ writer \in [Writers -> States \cup {"out"}]

Registered == (ToSet(handlers) \ registering) \cap Suspenders \cap Resumers

(* PowerPromise: the screen is the drivers, not what SUSPENDED says of     *)
(* them; "mixed" is no state of the promise.                               *)
Screen ==
    CASE worker = "suspending" -> "going_off"
      [] worker = "resuming" -> "going_on"
      [] worker \notin {"suspending", "resuming"} /\ suspended ->
            IF Registered \subseteq off THEN "off" ELSE "mixed"
      [] OTHER -> IF Registered \cap off = {} THEN "on" ELSE "mixed"

Promise == INSTANCE PowerPromise WITH
    Owners <- SuspendLocks \ {Main},
    wanted <- IF requested THEN "sleep" ELSE "on",
    screen <- Screen,
    locked <- W!Held \ {Main},
    asleep <- ~W!Awake

(* The power manager keeps its promise: every step is one the promise      *)
(* allows, and what is asked for is done.                                  *)
KeepsPromise == Promise!Spec

(* Whatever user space does with the file and the owners with their locks, *)
(* sleep that is asked for once and for all, with every lock released for  *)
(* good, leads to an attempt to suspend, again and again: the two halves   *)
(* hand the queue to each other without losing a wakeup.                   *)
SleepAttempted ==
    <>[](requested /\ W!Held \subseteq {Main, Unknown})
        => []<>(pc \in {"pm_suspend", "asleep"})
=============================================================================
