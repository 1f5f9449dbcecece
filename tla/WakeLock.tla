------------------------------ MODULE WakeLock ------------------------------
(***************************************************************************)
(* The wake locks of the Android power manager (kernel/power/wakelock.c):  *)
(* the two lists of active locks, the timer that expires the locks taken   *)
(* with a timeout, and the work item suspend() that puts the system to     *)
(* sleep once no suspend lock is left.                                     *)
(*                                                                         *)
(* Every section of the code under list_lock (a spinlock taken with the    *)
(* interrupts off) is one action.  The steps of suspend() and the gap      *)
(* between the detaching of expire_timer and its handler are separate      *)
(* actions, as another thread or an interrupt can run in between.          *)
(*                                                                         *)
(* A list of active locks is a set here: the code keeps the locks without  *)
(* a timeout in front (list_add at the head, list_add_tail for the others) *)
(* so a scan returns -1 before it has expired any lock as soon as there is *)
(* one without a timeout, and expires every lock that is due otherwise.    *)
(* jiffies are relative: left[l] is expires - jiffies, 0 once the lock has *)
(* expired.  Counters and durations of the statistics are left out, the    *)
(* flag WAKE_LOCK_PREVENTING_SUSPEND they hang on is modelled.             *)
(***************************************************************************)
EXTENDS Integers

CONSTANTS
    SuspendLocks,    \* locks of type WAKE_LOCK_SUSPEND
    IdleLocks,       \* locks of type WAKE_LOCK_IDLE
    Main,            \* main_wake_lock
    Unknown,         \* unknown_wakeup
    MaxTimeout,      \* longest timeout a caller passes, in jiffies
    UnknownTimeout,  \* HZ / 2, the timeout of unknown_wakeup
    DestroyHeld      \* locks whose owner may destroy them while they are held
                     \* without a timeout (smd_rpcrouter.c:517); the others
                     \* are released first, or have a timeout (evdev.c:245)

Locks == SuspendLocks \cup IdleLocks

ASSUME LocksAssumption ==
    /\ Main \in SuspendLocks
    /\ Unknown \in SuspendLocks \ {Main}
    /\ SuspendLocks \cap IdleLocks = {}
    /\ DestroyHeld \subseteq Locks \ {Main, Unknown}

ASSUME TimeoutAssumption ==
    /\ MaxTimeout \in Nat
    /\ UnknownTimeout \in 1..MaxTimeout

VARIABLES
    initialized,  \* locks with WAKE_LOCK_INITIALIZED
    active,       \* locks on an active list: WAKE_LOCK_ACTIVE
    timed,        \* locks with WAKE_LOCK_AUTO_EXPIRE
    left,         \* expires - jiffies of the timed locks, 0 for the others
    preventing,   \* locks with WAKE_LOCK_PREVENTING_SUSPEND
    timer,        \* expire_timer: jiffies until it fires, -1 if not pending
    expiring,     \* the timer fired, expire_wake_locks has not the lock yet
    queued,       \* suspend_work is pending on suspend_work_queue
    pc,           \* where the worker is in suspend()
    event         \* current_event_num differs from entry_event_num

lockVars == <<initialized, active, timed, left, preventing>>
timerVars == <<timer, expiring>>
workVars == <<queued, pc, event>>
vars == <<initialized, active, timed, left, preventing,
          timer, expiring, queued, pc, event>>

Awake == pc # "asleep"
-----------------------------------------------------------------------------
(* The scan of a list of active locks.  The operators take the lists as    *)
(* they are after the caller has changed them.                             *)

Untimed(list, tm) == list \ tm

Expired(tm, lf) == {l \in tm : lf[l] = 0}

(* Mutant: any timeout of the list instead of the longest.                 *)
HasWakeLockReturnsAny(r, list, tm, lf) ==
    IF Untimed(list, tm) # {}
    THEN r = -1
    ELSE r \in IF list = {} THEN {0} ELSE {lf[l] : l \in list}

(* The value has_wake_lock_locked returns for a list: -1 if a lock has no  *)
(* timeout, else the jiffies until the last one expires.                   *)
HasWakeLockReturns(r, list, tm, lf) ==
    IF Untimed(list, tm) # {}
    THEN r = -1
    ELSE /\ r \in 0..MaxTimeout
         /\ \A l \in list : lf[l] <= r
         /\ r = 0 \/ \E l \in list : lf[l] = r

(* The locks the scan moves to inactive_locks.                             *)
ExpiredByScan(list, tm, lf) ==
    IF Untimed(list, tm) # {} THEN {} ELSE list \cap Expired(tm, lf)

(* Mutant: WAKE_LOCK_AUTO_EXPIRE stays set.                                *)
DropKeepsFlag(gone, act, tm, lf) ==
    /\ active' = act \ gone
    /\ timed' = tm
    /\ left' = [l \in Locks |-> IF l \in gone THEN 0 ELSE lf[l]]

(* expire_wake_lock on each of them.                                       *)
Drop(gone, act, tm, lf) ==
    /\ active' = act \ gone
    /\ timed' = tm \ gone
    /\ left' = [l \in Locks |-> IF l \in gone THEN 0 ELSE lf[l]]

(* update_sleep_wait_stats_locked(0): the active suspend locks that have   *)
(* not expired are the ones to be charged for the time awake.              *)
Charged(act, tm, lf) == (act \cap SuspendLocks) \ Expired(tm, lf)

(* has_wake_lock_locked(type) with no other change to the lists.           *)
Scan(list, r) ==
    LET gone == ExpiredByScan(list, timed, left) IN
    /\ HasWakeLockReturns(r, list, timed, left)
    /\ Drop(gone, active, timed, left)
    /\ preventing' = preventing \ gone
    /\ UNCHANGED initialized

Returns == -1..MaxTimeout

(* Mutant: the timer is deleted but suspend_work is not queued.            *)
RearmNoQueue(r) ==
    /\ timer' = IF r > 0 THEN r ELSE -1
    /\ UNCHANGED <<queued, expiring>>

(* What wake_lock and wake_unlock do with the result: (re)arm the timer,   *)
(* or delete it and, when no lock is left, queue suspend_work.             *)
Rearm(r) ==
    /\ timer' = IF r > 0 THEN r ELSE -1
    /\ queued' = (queued \/ r = 0)
    /\ UNCHANGED expiring
-----------------------------------------------------------------------------
Init ==
    /\ initialized = {Main, Unknown}
    /\ active = {Main}
    /\ timed = {}
    /\ left = [l \in Locks |-> 0]
    /\ preventing = {}
    /\ timer = -1
    /\ expiring = FALSE
    /\ queued = FALSE
    /\ pc = "idle"
    /\ event = FALSE

wake_lock_init(l) ==
    /\ Awake
    /\ l \notin initialized
    /\ initialized' = initialized \cup {l}
    /\ UNCHANGED <<active, timed, left, preventing>>
    /\ UNCHANGED timerVars
    /\ UNCHANGED workVars

(* The lock leaves its list; the timer and the queue are not looked at.    *)
(* The flags that stay set are reset by the next wake_lock_init.           *)
wake_lock_destroy(l) ==
    /\ Awake
    /\ l \in initialized \ {Main, Unknown}
    /\ l \in Untimed(active, timed) => l \in DestroyHeld
    /\ initialized' = initialized \ {l}
    /\ Drop({l}, active, timed, left)
    /\ preventing' = preventing \ {l}
    /\ UNCHANGED timerVars
    /\ UNCHANGED workVars

(* Mutant: a lock taken while main is free is not accounted for.           *)
ChargedMainOnly(l, tm, lf) == IF l = Main THEN preventing \ active ELSE preventing

(* The flags a suspend lock l leaves after it was taken: taking main ends  *)
(* the accounting of all, taking another one starts it when main is free.  *)
(* The flag of a lock that had expired unnoticed is cleared first.         *)
ChargedAfterLock(l, tm, lf) ==
    LET before == IF l \in Expired(timed, left) THEN preventing \ {l}
                                                ELSE preventing
    IN  CASE l \in IdleLocks  -> before
          [] l = Main         -> before \ active
          [] OTHER           -> IF Main \in active THEN before
                                ELSE Charged(active \cup {l}, tm, lf)

(* wake_lock_internal(lock, 0, 0)                                          *)
wake_lock(l) ==
    /\ Awake
    /\ l \in initialized
    /\ active' = active \cup {l}
    /\ timed' = timed \ {l}
    /\ left' = [left EXCEPT ![l] = 0]
    /\ preventing' = ChargedAfterLock(l, timed \ {l}, [left EXCEPT ![l] = 0])
    /\ event' = (event \/ l = Main)
    /\ IF l \in SuspendLocks THEN Rearm(-1)
                             ELSE UNCHANGED <<timer, expiring, queued>>
    /\ UNCHANGED <<initialized, pc>>

(* wake_lock_internal(lock, timeout, 1): an idle lock only enters its list,*)
(* a suspend lock has its list scanned.                                    *)
LockTimeout(l, timeout) ==
    LET act == active \cup {l}
        tm == timed \cup {l}
        lf == [left EXCEPT ![l] = timeout]
        list == act \cap SuspendLocks
        charged == ChargedAfterLock(l, tm, lf)
        gone == IF l \in SuspendLocks THEN ExpiredByScan(list, tm, lf) ELSE {}
    IN  /\ Drop(gone, act, tm, lf)
        /\ preventing' = charged \ gone
        /\ IF l \in SuspendLocks
           THEN \E r \in Returns : HasWakeLockReturns(r, list, tm, lf) /\ Rearm(r)
           ELSE UNCHANGED <<timer, expiring, queued>>

wake_lock_timeout(l, timeout) ==
    /\ Awake
    /\ l \in initialized \ {Main, Unknown}
    /\ LockTimeout(l, timeout)
    /\ UNCHANGED <<initialized, pc, event>>

(* The lock becomes inactive whether it was active or not; the last lock   *)
(* gone, suspend_work is queued.  Releasing main starts the accounting.    *)
wake_unlock(l) ==
    LET act == active \ {l}
        tm == timed \ {l}
        lf == [left EXCEPT ![l] = 0]
        list == act \cap SuspendLocks
        gone == IF l \in SuspendLocks THEN ExpiredByScan(list, tm, lf) ELSE {}
    IN  /\ Awake
        /\ l \in initialized \ {Unknown}
        /\ Drop(gone, act, tm, lf)
        /\ preventing' = IF l = Main
                         THEN Charged(act \ gone, tm \ gone, lf)
                         ELSE preventing \ (gone \cup {l})
        /\ IF l \in SuspendLocks
           THEN \E r \in Returns : HasWakeLockReturns(r, list, tm, lf) /\ Rearm(r)
           ELSE UNCHANGED <<timer, expiring, queued>>
        /\ UNCHANGED <<initialized, pc, event>>

(* has_wake_lock(type), called by the freezer and by the idle loop.        *)
has_wake_lock(list) ==
    /\ Awake
    /\ \E r \in Returns : Scan(list, r)
    /\ UNCHANGED timerVars
    /\ UNCHANGED workVars
-----------------------------------------------------------------------------
(* jiffies advance; they stand still while the system sleeps.              *)
Tick ==
    /\ Awake
    /\ left' = [l \in Locks |-> IF left[l] > 0 THEN left[l] - 1 ELSE 0]
    /\ timer' = IF timer > 0 THEN timer - 1 ELSE timer
    /\ UNCHANGED <<initialized, active, timed, preventing, expiring, queued, pc, event>>

(* The timer softirq detaches expire_timer, then calls its handler.        *)
TimerFires ==
    /\ Awake
    /\ timer = 0
    /\ ~expiring
    /\ timer' = -1
    /\ expiring' = TRUE
    /\ UNCHANGED lockVars
    /\ UNCHANGED workVars

(* Mutant: the handler of the timer expires the locks and no more.         *)
ExpireOnly ==
    /\ Awake
    /\ expiring
    /\ expiring' = FALSE
    /\ \E r \in Returns : Scan(active \cap SuspendLocks, r)
    /\ UNCHANGED <<timer, queued, pc, event>>

expire_wake_locks ==
    /\ Awake
    /\ expiring
    /\ expiring' = FALSE
    /\ \E r \in Returns :
          /\ Scan(active \cap SuspendLocks, r)
          /\ queued' = (queued \/ r = 0)
    /\ UNCHANGED <<timer, pc, event>>
-----------------------------------------------------------------------------
(* suspend(), run by the only thread of suspend_work_queue.                *)

SuspendStart ==
    /\ pc = "idle"
    /\ queued
    /\ queued' = FALSE
    /\ pc' = "check"
    /\ UNCHANGED <<timer, expiring, event>>
    /\ UNCHANGED lockVars

SuspendCheck ==
    /\ pc = "check"
    /\ \E r \in Returns :
          /\ Scan(active \cap SuspendLocks, r)
          /\ pc' = IF r = 0 THEN "snapshot" ELSE "idle"
    /\ UNCHANGED <<queued, event>>
    /\ UNCHANGED timerVars

(* entry_event_num = current_event_num, then pm_suspend is called.         *)
SuspendSnapshot ==
    /\ pc = "snapshot"
    /\ event' = FALSE
    /\ pc' = "pm_suspend"
    /\ UNCHANGED queued
    /\ UNCHANGED lockVars
    /\ UNCHANGED timerVars

(* pm_suspend gives up before the devices are powered down: another        *)
(* suspend is running, a notifier, the freezer or a driver refused.        *)
PmSuspendFails ==
    /\ pc = "pm_suspend"
    /\ pc' = "returned"
    /\ UNCHANGED <<queued, event>>
    /\ UNCHANGED lockVars
    /\ UNCHANGED timerVars

(* Mutant: the locks are not looked at with the interrupts off.            *)
LateUnchecked ==
    /\ pc = "pm_suspend"
    /\ pc' = "asleep"
    /\ UNCHANGED <<queued, event>>
    /\ UNCHANGED lockVars
    /\ UNCHANGED timerVars

(* The last check, with the interrupts off; 0 lets the system sleep.       *)
power_suspend_late ==
    /\ pc = "pm_suspend"
    /\ \E r \in Returns :
          /\ Scan(active \cap SuspendLocks, r)
          /\ pc' = IF r = 0 THEN "asleep" ELSE "returned"
    /\ UNCHANGED <<queued, event>>
    /\ UNCHANGED timerVars

WakeUp ==
    /\ pc = "asleep"
    /\ pc' = "returned"
    /\ UNCHANGED <<queued, event>>
    /\ UNCHANGED lockVars
    /\ UNCHANGED timerVars

SuspendCompare ==
    /\ pc = "returned"
    /\ pc' = IF event THEN "idle" ELSE "no_event"
    /\ UNCHANGED <<queued, event>>
    /\ UNCHANGED lockVars
    /\ UNCHANGED timerVars

(* wake_lock_timeout(&unknown_wakeup, HZ / 2)                              *)
SuspendNoEvent ==
    /\ pc = "no_event"
    /\ LockTimeout(Unknown, UnknownTimeout)
    /\ pc' = "idle"
    /\ UNCHANGED <<initialized, event>>

Suspend ==
    \/ SuspendStart \/ SuspendCheck \/ SuspendSnapshot
    \/ PmSuspendFails \/ power_suspend_late
    \/ SuspendCompare \/ SuspendNoEvent

Next ==
    \/ \E l \in Locks :
          \/ wake_lock_init(l)
          \/ wake_lock_destroy(l)
          \/ l # Unknown /\ wake_lock(l)
          \/ \E timeout \in 0..MaxTimeout : wake_lock_timeout(l, timeout)
          \/ wake_unlock(l)
    \/ \E list \in {active \cap SuspendLocks, active \cap IdleLocks} :
          has_wake_lock(list)
    \/ Tick
    \/ TimerFires
    \/ expire_wake_locks
    \/ Suspend
    \/ WakeUp

(* The timer interrupt keeps coming, a pending softirq and a runnable      *)
(* kernel thread are scheduled.  No owner is assumed to release a lock and *)
(* nothing is assumed to wake the system.                                  *)
Fairness ==
    /\ WF_vars(Tick)
    /\ WF_vars(TimerFires)
    /\ WF_vars(expire_wake_locks)
    /\ WF_vars(Suspend)

Spec == Init /\ [][Next]_vars
FairSpec == Spec /\ Fairness
-----------------------------------------------------------------------------
Held == {l \in active \cap SuspendLocks : l \notin timed \/ left[l] > 0}

(* Every variable has its type, a lock that is not active has no timeout.  *)
TypeOK ==
    /\ initialized \in SUBSET Locks
    /\ {Main, Unknown} \subseteq initialized
    /\ active \in SUBSET initialized
    /\ timed \in SUBSET active
    /\ Main \notin timed
    /\ left \in [Locks -> 0..MaxTimeout]
    /\ \A l \in Locks \ timed : left[l] = 0
    /\ preventing \in SUBSET (active \cap SuspendLocks)
    /\ timer \in -1..MaxTimeout
    /\ expiring \in BOOLEAN
    /\ queued \in BOOLEAN
    /\ pc \in {"idle", "check", "snapshot", "pm_suspend", "asleep", "returned", "no_event"}
    /\ event \in BOOLEAN

(* wakelock.h:22 "A wake_lock prevents the system from entering suspend":  *)
(* while the system sleeps no suspend lock is active, however late a lock  *)
(* was taken during the suspend sequence.                                  *)
NoSleepWithLock == ~Awake => active \cap SuspendLocks = {}

(* No suspend is lost: once no suspend lock without a timeout is active,   *)
(* something is under way that will lead to the next attempt to suspend:   *)
(* the work item pending or running, the timer pending or its handler      *)
(* about to run.                                                           *)
NoLostSuspend ==
    Untimed(active \cap SuspendLocks, timed) = {} =>
        queued \/ pc # "idle" \/ timer # -1 \/ expiring

(* A main_wake_lock taken and released while the worker is in pm_suspend   *)
(* makes suspend() return without taking unknown_wakeup (wakelock.c:299):  *)
(* the release itself has left something that leads to the next attempt.   *)
EventNotLost ==
    event /\ pc \in {"pm_suspend", "asleep", "returned"}
          /\ Untimed(active \cap SuspendLocks, timed) = {} /\ Held = {}
       => queued \/ timer # -1 \/ expiring

(* The timer is right: when only locks with a timeout are held it does not *)
(* fire before the last of them expires; with a lock that has no timeout   *)
(* it is not pending, so it wakes up nobody in vain.                       *)
TimerRight ==
    IF Untimed(active \cap SuspendLocks, timed) # {} THEN timer = -1
    ELSE Held # {} => \A l \in Held : left[l] <= timer

(* The time awake is charged to the right locks (sleep_time in             *)
(* /proc/wakelocks): none while main is held, and once main is released    *)
(* every suspend lock that still keeps the system awake.                   *)
PreventingExact ==
    IF Main \in active THEN preventing = {} ELSE Held \subseteq preventing

(* When the locks are left alone the system does get to an attempt to      *)
(* suspend: it never stays awake for ever without a held lock and without  *)
(* reaching pm_suspend.                                                    *)
SuspendAttempted == []<>(Held # {} \/ pc \in {"pm_suspend", "asleep"})
=============================================================================
