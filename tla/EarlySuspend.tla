---------------------------- MODULE EarlySuspend ----------------------------
(***************************************************************************)
(* The user visible sleep state (kernel/power/earlysuspend.c): requests    *)
(* from /sys/power/state, the early_suspend and late_resume work items     *)
(* that call the handlers of the drivers, the registration of handlers,    *)
(* and main_wake_lock, which keeps the system awake until the handlers     *)
(* have suspended.                                                         *)
(*                                                                         *)
(* The work items run on suspend_work_queue, which has one thread and one  *)
(* list (kernel/workqueue.c); suspend_work of wakelock.c shares it and is  *)
(* opaque here.  A section under state_lock is one action; a handler call, *)
(* made under the mutex early_suspend_lock, is another, as it may sleep.   *)
(* An element of Handlers is one registration of a handler.                *)
(***************************************************************************)
EXTENDS Integers, Sequences, FiniteSets, SequencesExt

CONSTANTS
    Handlers,    \* registrations of struct early_suspend
    Level,       \* handler->level
    Suspenders,  \* handlers with a suspend hook
    Resumers     \* handlers with a resume hook

ASSUME LevelAssumption == Level \in [Handlers -> Int]
ASSUME HookAssumption == Suspenders \subseteq Handlers /\ Resumers \subseteq Handlers

VARIABLES
    requested,    \* SUSPEND_REQUESTED is set in state
    suspended,    \* SUSPENDED is set in state
    mainHeld,     \* main_wake_lock is held
    worklist,     \* the work items pending on suspend_work_queue
    worker,       \* where its thread is
    todo,         \* the handlers it has still to call
    handlers,     \* the list early_suspend_handlers
    registering,  \* the handler whose registration has the mutex, if any
    gone,         \* handlers already unregistered
    off           \* handlers whose last hook called is suspend

vars == <<requested, suspended, mainHeld, worklist, worker, todo,
          handlers, registering, gone, off>>
stateVars == <<requested, suspended>>
listVars == <<handlers, registering, gone>>

Works == {"early_suspend", "late_resume", "suspend"}

(* queue_work: a work item that is pending already is not queued again.    *)
Queued(list, work) == IF work \in ToSet(list) THEN list ELSE Append(list, work)

MutexFree == registering = {} /\ worker \notin {"suspending", "resuming"}
-----------------------------------------------------------------------------
Init ==
    /\ requested = FALSE
    /\ suspended = FALSE
    /\ mainHeld = TRUE
    /\ worklist = <<>>
    /\ worker = "idle"
    /\ todo = <<>>
    /\ handlers = <<>>
    /\ registering = {}
    /\ gone = {}
    /\ off = {}

(* request_suspend_state with a state other than PM_SUSPEND_ON             *)
RequestSleep ==
    /\ requested' = TRUE
    /\ worklist' = IF requested THEN worklist ELSE Queued(worklist, "early_suspend")
    /\ UNCHANGED <<suspended, mainHeld, worker, todo, off>>
    /\ UNCHANGED listVars

(* request_suspend_state(PM_SUSPEND_ON)                                    *)
RequestWakeup ==
    /\ requested' = FALSE
    /\ mainHeld' = (mainHeld \/ requested)
    /\ worklist' = IF requested THEN Queued(worklist, "late_resume") ELSE worklist
    /\ UNCHANGED <<suspended, worker, todo, off>>
    /\ UNCHANGED listVars

(* Mutant: the levels are not looked at.                                   *)
InsertsLast(h) == handlers' = Append(handlers, h)

(* The handler goes in front of the first one with a higher level.         *)
Inserts(h) ==
    \E p \in 1..Len(handlers) + 1 :
        /\ \A i \in 1..p - 1 : Level[handlers[i]] <= Level[h]
        /\ p <= Len(handlers) => Level[handlers[p]] > Level[h]
        /\ handlers' = InsertAt(handlers, p, h)

register_early_suspend(h) ==
    /\ MutexFree
    /\ h \notin ToSet(handlers) \cup gone
    /\ Inserts(h)
    /\ registering' = {h}
    /\ UNCHANGED <<requested, suspended, mainHeld, worklist, worker, todo, gone, off>>

(* Mutant: a late comer is not told that the others are suspended.         *)
RegisterNoCall(h) ==
    /\ registering = {h}
    /\ registering' = {}
    /\ UNCHANGED <<requested, suspended, mainHeld, worklist, worker, todo, handlers, gone, off>>

(* The rest of the registration: the hook is called if the others have     *)
(* been, then the mutex is released.                                       *)
RegisterCall(h) ==
    /\ registering = {h}
    /\ registering' = {}
    /\ off' = IF suspended /\ h \in Suspenders THEN off \cup {h} ELSE off
    /\ UNCHANGED <<requested, suspended, mainHeld, worklist, worker, todo, handlers, gone>>

unregister_early_suspend(h) ==
    /\ MutexFree
    /\ \E i \in DOMAIN handlers :
          handlers[i] = h /\ handlers' = RemoveAt(handlers, i)
    /\ gone' = gone \cup {h}
    /\ off' = off \ {h}
    /\ UNCHANGED <<requested, suspended, mainHeld, worklist, worker, todo, registering>>
-----------------------------------------------------------------------------
(* The thread of suspend_work_queue.                                       *)

RunWork ==
    /\ worker = "idle"
    /\ worklist # <<>>
    /\ worker' = Head(worklist)
    /\ worklist' = Tail(worklist)
    /\ UNCHANGED <<mainHeld, todo, off>>
    /\ UNCHANGED stateVars
    /\ UNCHANGED listVars

(* Mutant: SUSPENDED is not looked at.                                     *)
EarlyBeginTwice ==
    /\ worker = "early_suspend"
    /\ MutexFree
    /\ IF requested
       THEN suspended' = TRUE /\ worker' = "suspending" /\ todo' = handlers
       ELSE suspended' = suspended /\ worker' = "abort" /\ todo' = todo
    /\ UNCHANGED <<requested, mainHeld, worklist, off>>
    /\ UNCHANGED listVars

(* Mutant: with nothing to call, main_wake_lock is left as it is.          *)
EarlyBeginReturns ==
    /\ worker = "early_suspend"
    /\ MutexFree
    /\ IF requested /\ ~suspended
       THEN suspended' = TRUE /\ worker' = "suspending" /\ todo' = handlers
       ELSE suspended' = suspended /\ worker' = "idle" /\ todo' = todo
    /\ UNCHANGED <<requested, mainHeld, worklist, off>>
    /\ UNCHANGED listVars

(* early_suspend up to its first handler; it calls none unless state is    *)
(* SUSPEND_REQUESTED, and goes to the label abort.                         *)
EarlyBegin ==
    /\ worker = "early_suspend"
    /\ MutexFree
    /\ IF requested /\ ~suspended
       THEN suspended' = TRUE /\ worker' = "suspending" /\ todo' = handlers
       ELSE suspended' = suspended /\ worker' = "abort" /\ todo' = todo
    /\ UNCHANGED <<requested, mainHeld, worklist, off>>
    /\ UNCHANGED listVars

EarlyCall ==
    /\ worker = "suspending"
    /\ todo # <<>>
    /\ todo' = Tail(todo)
    /\ off' = IF Head(todo) \in Suspenders THEN off \cup {Head(todo)} ELSE off
    /\ UNCHANGED <<mainHeld, worklist, worker>>
    /\ UNCHANGED stateVars
    /\ UNCHANGED listVars

(* The mutex is released, the file systems are synchronised.               *)
EarlyCalled ==
    /\ worker = "suspending"
    /\ todo = <<>>
    /\ worker' = "abort"
    /\ UNCHANGED <<mainHeld, worklist, todo, off>>
    /\ UNCHANGED stateVars
    /\ UNCHANGED listVars

(* Mutant: state is not looked at again after the handlers.                *)
EarlyEndUnchecked ==
    /\ worker = "abort"
    /\ worker' = "idle"
    /\ mainHeld' = (mainHeld /\ ~suspended)
    /\ worklist' \in {worklist, Queued(worklist, "suspend")}
    /\ UNCHANGED <<todo, off>>
    /\ UNCHANGED stateVars
    /\ UNCHANGED listVars

(* Label abort: main_wake_lock is released if state still asks for it.     *)
(* When that was the last wake lock, wake_unlock queues suspend_work.      *)
EarlyEnd ==
    /\ worker = "abort"
    /\ worker' = "idle"
    /\ IF requested /\ suspended
       THEN /\ mainHeld' = FALSE
            /\ worklist' \in {worklist, Queued(worklist, "suspend")}
       ELSE UNCHANGED <<mainHeld, worklist>>
    /\ UNCHANGED <<todo, off>>
    /\ UNCHANGED stateVars
    /\ UNCHANGED listVars

(* Mutant: SUSPENDED stays set.                                            *)
LateBeginNoClear ==
    /\ worker = "late_resume"
    /\ MutexFree
    /\ IF suspended /\ ~requested
       THEN worker' = "resuming" /\ todo' = Reverse(handlers)
       ELSE worker' = "idle" /\ todo' = todo
    /\ UNCHANGED <<requested, suspended, mainHeld, worklist, off>>
    /\ UNCHANGED listVars

(* late_resume up to its first handler; it calls none unless state is      *)
(* SUSPENDED.                                                              *)
LateBegin ==
    /\ worker = "late_resume"
    /\ MutexFree
    /\ IF suspended /\ ~requested
       THEN suspended' = FALSE /\ worker' = "resuming" /\ todo' = Reverse(handlers)
       ELSE suspended' = suspended /\ worker' = "idle" /\ todo' = todo
    /\ UNCHANGED <<requested, mainHeld, worklist, off>>
    /\ UNCHANGED listVars

LateCall ==
    /\ worker = "resuming"
    /\ todo # <<>>
    /\ todo' = Tail(todo)
    /\ off' = IF Head(todo) \in Resumers THEN off \ {Head(todo)} ELSE off
    /\ UNCHANGED <<mainHeld, worklist, worker>>
    /\ UNCHANGED stateVars
    /\ UNCHANGED listVars

LateEnd ==
    /\ worker = "resuming"
    /\ todo = <<>>
    /\ worker' = "idle"
    /\ UNCHANGED <<mainHeld, worklist, todo, off>>
    /\ UNCHANGED stateVars
    /\ UNCHANGED listVars

(* suspend() of wakelock.c, which ends sooner or later.                    *)
SuspendEnd ==
    /\ worker = "suspend"
    /\ worker' = "idle"
    /\ UNCHANGED <<mainHeld, worklist, todo, off>>
    /\ UNCHANGED stateVars
    /\ UNCHANGED listVars

(* Another wake lock was released or expired: suspend_work is queued.      *)
OtherLockReleased ==
    /\ ~mainHeld
    /\ worklist' = Queued(worklist, "suspend")
    /\ UNCHANGED <<mainHeld, worker, todo, off>>
    /\ UNCHANGED stateVars
    /\ UNCHANGED listVars

Worker ==
    \/ RunWork
    \/ EarlyBegin \/ EarlyCall \/ EarlyCalled \/ EarlyEnd
    \/ LateBegin \/ LateCall \/ LateEnd
    \/ SuspendEnd

Next ==
    \/ RequestSleep
    \/ RequestWakeup
    \/ \E h \in Handlers :
          register_early_suspend(h) \/ RegisterCall(h) \/ unregister_early_suspend(h)
    \/ Worker
    \/ OtherLockReleased

(* The threads are scheduled; a handler is registered at most once, so the *)
(* worker cannot be kept from the mutex for ever.                          *)
Fairness ==
    /\ WF_vars(Worker)
    /\ \A h \in Handlers : WF_vars(RegisterCall(h))

Spec == Init /\ [][Next]_vars
FairSpec == Spec /\ Fairness
-----------------------------------------------------------------------------
(* Every variable has its type, a work item is pending at most once, and   *)
(* the handlers still to be called are registered.                         *)
TypeOK ==
    /\ requested \in BOOLEAN
    /\ suspended \in BOOLEAN
    /\ mainHeld \in BOOLEAN
    /\ worklist \in Seq(Works) /\ IsInjective(worklist)
    /\ worker \in Works \cup {"idle", "suspending", "abort", "resuming"}
    /\ todo \in Seq(ToSet(handlers))
    /\ handlers \in Seq(Handlers)
    /\ registering \in SUBSET ToSet(handlers)
    /\ gone \in SUBSET Handlers
    /\ off \in SUBSET ToSet(handlers)

(* main_wake_lock is released only in the requested sleep state, with      *)
(* every suspend hook called: whatever requests and registrations came in  *)
(* between, the system cannot sleep with a screen that is on, nor after    *)
(* user space asked for wakeup.  A registration may be about to call.      *)
MainReleasedOnlySuspended ==
    ~mainHeld => /\ requested
                 /\ suspended
                 /\ (ToSet(handlers) \cap Suspenders) \ registering \subseteq off

(* Whenever early_suspend_lock is free the handlers agree with SUSPENDED.  *)
HandlersAgree ==
    MutexFree =>
        \A h \in ToSet(handlers) \cap Suspenders \cap Resumers :
            h \in off <=> suspended

(* The hooks of a handler alternate: no handler is suspended or resumed    *)
(* twice in a row, though requests may come in any order.                  *)
HooksAlternate ==
    \A h \in ToSet(todo) \cap Suspenders \cap Resumers :
        (h \in off) = (worker = "resuming")

(* earlysuspend.h:28 "Suspend handlers are called in low to high level     *)
(* order, resume handlers are called in the opposite order", except for    *)
(* the direct call of a registration: the handlers that are off while the  *)
(* work items run are the ones of the lower levels.                        *)
LevelOrder ==
    worker \in {"suspending", "resuming"} =>
        LET both == ToSet(handlers) \cap Suspenders \cap Resumers IN
        \A g \in both \cap off : \A h \in both \ off : Level[g] <= Level[h]

(* A request that is not taken back is carried out, however many came      *)
(* before it: every handler gets there and main_wake_lock with it.         *)
SleepReached ==
    <>[]requested => <>[](/\ suspended /\ ~mainHeld
                          /\ ToSet(handlers) \cap Suspenders \subseteq off)
WakeupReached ==
    <>[](~requested) => <>[](/\ ~suspended /\ mainHeld
                             /\ ToSet(handlers) \cap Resumers \cap off = {})
=============================================================================
