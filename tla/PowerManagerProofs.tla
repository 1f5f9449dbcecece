------------------------- MODULE PowerManagerProofs -------------------------
(***************************************************************************)
(* Proofs about PowerManager, for any locks, timeouts, handlers and        *)
(* writers: each of its halves is implemented, so what is proved of the    *)
(* half holds of the whole, and with both every step is one that           *)
(* PowerPromise allows.                                                    *)
(***************************************************************************)
EXTENDS PowerManager, TLAPS

WP == INSTANCE WakeLockProofs
EP == INSTANCE EarlySuspendProofs WITH mainHeld <- Main \in active

-----------------------------------------------------------------------------
(* WP and EP are second copies of W and E, which have the theorems.        *)
LEMMA SameLocks ==
    /\ \A l : W!wake_lock_init(l) => WP!wake_lock_init(l)
    /\ \A l : W!wake_lock_destroy(l) => WP!wake_lock_destroy(l)
    /\ \A l : W!wake_lock(l) => WP!wake_lock(l)
    /\ \A l, timeout : W!wake_lock_timeout(l, timeout) => WP!wake_lock_timeout(l, timeout)
    /\ \A l : W!wake_unlock(l) => WP!wake_unlock(l)
    /\ W!Tick => WP!Tick
    /\ W!TimerFires => WP!TimerFires
    /\ W!expire_wake_locks => WP!expire_wake_locks
    /\ W!SuspendStart => WP!SuspendStart
    /\ W!SuspendCheck => WP!SuspendCheck
    /\ W!SuspendSnapshot => WP!SuspendSnapshot
    /\ W!PmSuspendFails => WP!PmSuspendFails
    /\ W!power_suspend_late => WP!power_suspend_late
    /\ W!WakeUp => WP!WakeUp
    /\ W!SuspendCompare => WP!SuspendCompare
    /\ W!SuspendNoEvent => WP!SuspendNoEvent
<1>1. ASSUME NEW l, W!wake_lock_init(l) PROVE WP!wake_lock_init(l)
  BY <1>1 DEF W!wake_lock_init, WP!wake_lock_init, W!Awake, WP!Awake, W!timerVars, WP!timerVars,
     W!workVars, WP!workVars
<1>2. ASSUME NEW l, W!wake_lock_destroy(l) PROVE WP!wake_lock_destroy(l)
  BY <1>2 DEF W!wake_lock_destroy, WP!wake_lock_destroy, W!Awake, WP!Awake, W!timerVars,
     WP!timerVars, W!workVars, WP!workVars, W!Untimed, WP!Untimed, W!Drop, WP!Drop, W!Locks,
     WP!Locks
<1>3. ASSUME NEW l, W!wake_lock(l) PROVE WP!wake_lock(l)
  BY <1>3 DEF W!wake_lock, WP!wake_lock, W!Awake, WP!Awake, W!ChargedAfterLock,
     WP!ChargedAfterLock, W!Charged, WP!Charged, W!Expired, WP!Expired, W!Rearm, WP!Rearm
<1>4. ASSUME NEW l, NEW timeout, W!wake_lock_timeout(l, timeout) PROVE WP!wake_lock_timeout(l, timeout)
  BY <1>4 DEF W!wake_lock_timeout, WP!wake_lock_timeout, W!LockTimeout, WP!LockTimeout, W!Awake,
     WP!Awake, W!Locks, WP!Locks, W!ChargedAfterLock, WP!ChargedAfterLock, W!Charged,
     WP!Charged, W!Rearm, WP!Rearm, W!Untimed, WP!Untimed, W!Expired, WP!Expired,
     W!HasWakeLockReturns, WP!HasWakeLockReturns, W!ExpiredByScan, WP!ExpiredByScan, W!Drop,
     WP!Drop, W!Returns, WP!Returns
<1>5. ASSUME NEW l, W!wake_unlock(l) PROVE WP!wake_unlock(l)
  BY <1>5 DEF W!wake_unlock, WP!wake_unlock, W!Awake, WP!Awake, W!Locks, WP!Locks, W!Charged,
     WP!Charged, W!Rearm, WP!Rearm, W!Untimed, WP!Untimed, W!Expired, WP!Expired,
     W!HasWakeLockReturns, WP!HasWakeLockReturns, W!ExpiredByScan, WP!ExpiredByScan, W!Drop,
     WP!Drop, W!Returns, WP!Returns
<1>6. W!Tick => WP!Tick
  BY DEF W!Tick, WP!Tick, W!Awake, WP!Awake, W!Locks, WP!Locks
<1>7. W!TimerFires => WP!TimerFires
  BY DEF W!TimerFires, WP!TimerFires, W!Awake, WP!Awake, W!lockVars, WP!lockVars, W!workVars,
     WP!workVars
<1>8. W!expire_wake_locks => WP!expire_wake_locks
  BY DEF W!expire_wake_locks, WP!expire_wake_locks, W!Awake, WP!Awake, W!Locks, WP!Locks,
     W!Untimed, WP!Untimed, W!Expired, WP!Expired, W!HasWakeLockReturns, WP!HasWakeLockReturns,
     W!ExpiredByScan, WP!ExpiredByScan, W!Drop, WP!Drop, W!Scan, WP!Scan, W!Returns, WP!Returns
<1>9. W!SuspendStart => WP!SuspendStart
  BY DEF W!SuspendStart, WP!SuspendStart, W!lockVars, WP!lockVars
<1>10. W!SuspendCheck => WP!SuspendCheck
  BY DEF W!SuspendCheck, WP!SuspendCheck, W!timerVars, WP!timerVars, W!Locks, WP!Locks,
     W!Untimed, WP!Untimed, W!Expired, WP!Expired, W!HasWakeLockReturns, WP!HasWakeLockReturns,
     W!ExpiredByScan, WP!ExpiredByScan, W!Drop, WP!Drop, W!Scan, WP!Scan, W!Returns, WP!Returns
<1>11. W!SuspendSnapshot => WP!SuspendSnapshot
  BY DEF W!SuspendSnapshot, WP!SuspendSnapshot, W!lockVars, WP!lockVars, W!timerVars,
     WP!timerVars
<1>12. W!PmSuspendFails => WP!PmSuspendFails
  BY DEF W!PmSuspendFails, WP!PmSuspendFails, W!lockVars, WP!lockVars, W!timerVars,
     WP!timerVars
<1>13. W!power_suspend_late => WP!power_suspend_late
  BY DEF W!power_suspend_late, WP!power_suspend_late, W!timerVars, WP!timerVars, W!Locks,
     WP!Locks, W!Untimed, WP!Untimed, W!Expired, WP!Expired, W!HasWakeLockReturns,
     WP!HasWakeLockReturns, W!ExpiredByScan, WP!ExpiredByScan, W!Drop, WP!Drop, W!Scan, WP!Scan,
     W!Returns, WP!Returns
<1>14. W!WakeUp => WP!WakeUp
  BY DEF W!WakeUp, WP!WakeUp, W!lockVars, WP!lockVars, W!timerVars, WP!timerVars
<1>15. W!SuspendCompare => WP!SuspendCompare
  BY DEF W!SuspendCompare, WP!SuspendCompare, W!lockVars, WP!lockVars, W!timerVars,
     WP!timerVars
<1>16. W!SuspendNoEvent => WP!SuspendNoEvent
  BY DEF W!SuspendNoEvent, WP!SuspendNoEvent, W!LockTimeout, WP!LockTimeout, W!Locks, WP!Locks,
     W!ChargedAfterLock, WP!ChargedAfterLock, W!Charged, WP!Charged, W!Rearm, WP!Rearm,
     W!Untimed, WP!Untimed, W!Expired, WP!Expired, W!HasWakeLockReturns, WP!HasWakeLockReturns,
     W!ExpiredByScan, WP!ExpiredByScan, W!Drop, WP!Drop, W!Returns, WP!Returns
<1> QED
  BY <1>1, <1>2, <1>3, <1>4, <1>5, <1>6, <1>7, <1>8, <1>9,
     <1>10, <1>11, <1>12, <1>13, <1>14, <1>15, <1>16, Zenon

LEMMA SameEarly ==
    /\ E!RequestSleep => EP!RequestSleep
    /\ E!RequestWakeup => EP!RequestWakeup
    /\ E!RunWork => EP!RunWork
    /\ E!EarlyBegin => EP!EarlyBegin
    /\ E!EarlyCall => EP!EarlyCall
    /\ E!EarlyCalled => EP!EarlyCalled
    /\ E!EarlyEnd => EP!EarlyEnd
    /\ E!LateBegin => EP!LateBegin
    /\ E!LateCall => EP!LateCall
    /\ E!LateEnd => EP!LateEnd
    /\ E!SuspendEnd => EP!SuspendEnd
    /\ E!OtherLockReleased => EP!OtherLockReleased
    /\ \A h : E!register_early_suspend(h) => EP!register_early_suspend(h)
    /\ \A h : E!RegisterCall(h) => EP!RegisterCall(h)
    /\ \A h : E!unregister_early_suspend(h) => EP!unregister_early_suspend(h)
<1>1. E!RequestSleep => EP!RequestSleep
  BY DEF E!RequestSleep, EP!RequestSleep, E!Queued, EP!Queued, E!ToSet, EP!ToSet, E!listVars,
     EP!listVars
<1>2. E!RequestWakeup => EP!RequestWakeup
  BY DEF E!RequestWakeup, EP!RequestWakeup, E!Queued, EP!Queued, E!ToSet, EP!ToSet, E!listVars,
     EP!listVars
<1>3. E!RunWork => EP!RunWork
  BY DEF E!RunWork, EP!RunWork, E!stateVars, EP!stateVars, E!listVars, EP!listVars
<1>4. E!EarlyBegin => EP!EarlyBegin
  BY DEF E!EarlyBegin, EP!EarlyBegin, E!MutexFree, EP!MutexFree, E!listVars, EP!listVars
<1>5. E!EarlyCall => EP!EarlyCall
  BY DEF E!EarlyCall, EP!EarlyCall, E!stateVars, EP!stateVars, E!listVars, EP!listVars
<1>6. E!EarlyCalled => EP!EarlyCalled
  BY DEF E!EarlyCalled, EP!EarlyCalled, E!stateVars, EP!stateVars, E!listVars, EP!listVars
<1>7. E!EarlyEnd => EP!EarlyEnd
  BY DEF E!EarlyEnd, EP!EarlyEnd, E!Queued, EP!Queued, E!ToSet, EP!ToSet, E!stateVars,
     EP!stateVars, E!listVars, EP!listVars
<1>8. E!LateBegin => EP!LateBegin
  BY DEF E!Reverse, EP!Reverse, E!LateBegin, EP!LateBegin, E!MutexFree, EP!MutexFree,
     E!listVars, EP!listVars
<1>9. E!LateCall => EP!LateCall
  BY DEF E!LateCall, EP!LateCall, E!stateVars, EP!stateVars, E!listVars, EP!listVars
<1>10. E!LateEnd => EP!LateEnd
  BY DEF E!LateEnd, EP!LateEnd, E!stateVars, EP!stateVars, E!listVars, EP!listVars
<1>11. E!SuspendEnd => EP!SuspendEnd
  BY DEF E!SuspendEnd, EP!SuspendEnd, E!stateVars, EP!stateVars, E!listVars, EP!listVars
<1>12. E!OtherLockReleased => EP!OtherLockReleased
  BY DEF E!OtherLockReleased, EP!OtherLockReleased, E!Queued, EP!Queued, E!ToSet, EP!ToSet,
     E!stateVars, EP!stateVars, E!listVars, EP!listVars
<1>13. ASSUME NEW h, E!register_early_suspend(h) PROVE EP!register_early_suspend(h)
  BY <1>13 DEF E!register_early_suspend, EP!register_early_suspend, E!MutexFree, EP!MutexFree,
     E!Inserts, EP!Inserts, E!InsertAt, EP!InsertAt, E!ToSet, EP!ToSet
<1>14. ASSUME NEW h, E!RegisterCall(h) PROVE EP!RegisterCall(h)
  BY <1>14 DEF E!RegisterCall, EP!RegisterCall
<1>15. ASSUME NEW h, E!unregister_early_suspend(h) PROVE EP!unregister_early_suspend(h)
  BY <1>15 DEF E!unregister_early_suspend, EP!unregister_early_suspend, E!MutexFree,
     EP!MutexFree, E!RemoveAt, EP!RemoveAt
<1> QED
  BY <1>1, <1>2, <1>3, <1>4, <1>5, <1>6, <1>7, <1>8, <1>9, <1>10, <1>11, <1>12, <1>13, <1>14, <1>15, Zenon

LEMMA LockConstants == WP!LocksAssumption /\ WP!TimeoutAssumption
  BY LocksAssumption, TimeoutAssumption
  DEF LocksAssumption, TimeoutAssumption, WP!LocksAssumption, WP!TimeoutAssumption, Locks, W!Locks,
      WP!Locks

LEMMA EarlyConstants == EP!LevelAssumption /\ EP!HookAssumption
  BY HandlersAssumption DEF HandlersAssumption, EP!LevelAssumption, EP!HookAssumption
-----------------------------------------------------------------------------
(* The wake locks.                                                         *)
LEMMA LocksStep == [Next]_vars => [WP!Next]_(WP!vars)
<1> SUFFICES ASSUME [Next]_vars PROVE [WP!Next]_(WP!vars)
  OBVIOUS
<1>1. ASSUME UNCHANGED lockState PROVE [WP!Next]_(WP!vars)
  BY <1>1 DEF lockState, WP!vars
<1>2. CASE UNCHANGED vars
  BY <1>1, <1>2 DEF vars
<1>3. Main \in WP!Locks \ {Unknown}
  BY LocksAssumption DEF LocksAssumption, WP!Locks
<1>4. ASSUME NEW w, NEW state, state_store(w, state) PROVE [WP!Next]_(WP!vars)
  BY <1>1, <1>4 DEF state_store
<1>5. ASSUME NEW w, request_suspend_state(w) PROVE [WP!Next]_(WP!vars)
  <2>1. W!wake_lock(Main) \/ UNCHANGED lockState
    BY <1>5 DEF request_suspend_state, Request
  <2> QED
    BY <1>1, <1>3, <2>1, SameLocks DEF WP!Next
<1>6. ASSUME NEW h, Register(h) PROVE [WP!Next]_(WP!vars)
  BY <1>1, <1>6 DEF Register
<1>7. CASE Worker
  <2>1. CASE EarlyWork
    BY <1>1, <2>1 DEF EarlyWork
  <2>2. CASE EarlyRelease
    BY <1>3, <2>2, SameLocks DEF EarlyRelease, WP!Next
  <2>3. CASE StartSuspend
    BY <2>3, SameLocks DEF StartSuspend, WP!Next, WP!Suspend
  <2>4. CASE SuspendWork
    BY <2>4, SameLocks DEF SuspendWork, WP!Next, WP!Suspend
  <2> QED
    BY <1>7, <2>1, <2>2, <2>3, <2>4 DEF Worker
<1>8. ASSUME NEW l \in Locks, UseLock(l) PROVE [WP!Next]_(WP!vars)
  <2>1. l \in WP!Locks
    BY DEF Locks, W!Locks, WP!Locks
  <2>2. 1..MaxTimeout \subseteq 0..MaxTimeout
    BY TimeoutAssumption DEF TimeoutAssumption
  <2> QED
    BY <1>8, <2>1, <2>2, SameLocks DEF UseLock, WP!Next
<1>9. CASE Tick \/ TimerFires \/ expire_wake_locks \/ WakeUp
  BY <1>9, SameLocks DEF Tick, TimerFires, expire_wake_locks, WakeUp, WP!Next
<1> QED
  BY <1>2, <1>4, <1>5, <1>6, <1>7, <1>8, <1>9 DEF Next

(* The power manager implements the wake locks ...                         *)
THEOREM LocksImplemented == Spec => WP!Spec
<1>1. Init => WP!Init
  BY DEF Init, W!Init, WP!Init, W!Locks, WP!Locks
<1> QED
  BY <1>1, LocksStep, PTL DEF Spec, WP!Spec
-----------------------------------------------------------------------------
(* Early suspend.  No lock but main_wake_lock itself touches it: it has no *)
(* timeout.                                                                *)
LEMMA MainStays ==
    ASSUME WP!TypeOK,
           \/ \E l \in Locks : UseLock(l)
           \/ Tick \/ TimerFires \/ expire_wake_locks \/ WakeUp \/ SuspendWork
    PROVE  (Main \in active)' = (Main \in active)
<1> USE LocksAssumption DEF WP!TypeOK, LocksAssumption
<1>1. ASSUME NEW list, NEW tm, NEW lf, Main \notin tm PROVE Main \notin WP!ExpiredByScan(list, tm, lf)
  BY <1>1 DEF WP!ExpiredByScan, WP!Expired
<1>2. ASSUME NEW l, l # Main, NEW timeout, WP!LockTimeout(l, timeout)
      PROVE  (Main \in active)' = (Main \in active)
  <2> DEFINE expired == IF l \in SuspendLocks
                     THEN WP!ExpiredByScan((active \cup {l}) \cap SuspendLocks, timed \cup {l},
                                           [left EXCEPT ![l] = timeout])
                     ELSE {}
  <2>1. active' = (active \cup {l}) \ expired
    BY <1>2 DEF WP!LockTimeout, WP!Drop
  <2>2. Main \notin expired
    BY <1>1, <1>2
  <2> HIDE DEF expired
  <2> QED
    BY <1>2, <2>1, <2>2
<1>3. ASSUME NEW l, l # Main, WP!wake_unlock(l)
      PROVE  (Main \in active)' = (Main \in active)
  <2> DEFINE expired == IF l \in SuspendLocks
                     THEN WP!ExpiredByScan((active \ {l}) \cap SuspendLocks, timed \ {l},
                                           [left EXCEPT ![l] = 0])
                     ELSE {}
  <2>1. active' = (active \ {l}) \ expired
    BY <1>3 DEF WP!wake_unlock, WP!Drop
  <2>2. Main \notin expired
    BY <1>1, <1>3
  <2> HIDE DEF expired
  <2> QED
    BY <1>3, <2>1, <2>2
<1>4. ASSUME NEW list, NEW r, WP!Scan(list, r) PROVE (Main \in active)' = (Main \in active)
  <2>1. active' = active \ WP!ExpiredByScan(list, timed, left)
    BY <1>4 DEF WP!Scan, WP!Drop
  <2> QED
    BY <1>1, <2>1
<1>5. ASSUME NEW l \in Locks, UseLock(l) PROVE (Main \in active)' = (Main \in active)
  <2>1. \/ WP!wake_lock_init(l) \/ WP!wake_lock_destroy(l) \/ WP!wake_lock(l) \/ WP!wake_unlock(l)
        \/ \E timeout : WP!wake_lock_timeout(l, timeout)
    BY <1>5, SameLocks DEF UseLock
  <2>2. l # Main
    BY <1>5 DEF UseLock
  <2>3. WP!wake_lock_destroy(l) => active' = active \ {l}
    BY DEF WP!wake_lock_destroy, WP!Drop
  <2>4. WP!wake_lock(l) => active' = active \cup {l}
    BY DEF WP!wake_lock
  <2>5. WP!wake_lock_init(l) => active' = active
    BY DEF WP!wake_lock_init
  <2>6. (\E timeout : WP!wake_lock_timeout(l, timeout)) => \E timeout : WP!LockTimeout(l, timeout)
    BY DEF WP!wake_lock_timeout
  <2> QED
    BY <1>2, <1>3, <2>1, <2>2, <2>3, <2>4, <2>5, <2>6
<1>6. CASE Tick \/ TimerFires \/ WakeUp
  BY <1>6, SameLocks DEF Tick, TimerFires, WakeUp, WP!Tick, WP!TimerFires, WP!WakeUp, WP!lockVars
<1>7. CASE expire_wake_locks
  BY <1>4, <1>7, SameLocks DEF expire_wake_locks, WP!expire_wake_locks
<1>8. CASE SuspendWork
  <2>1. \/ WP!SuspendCheck \/ WP!SuspendSnapshot \/ WP!PmSuspendFails \/ WP!power_suspend_late
        \/ WP!SuspendCompare \/ WP!SuspendNoEvent
    BY <1>8, SameLocks DEF SuspendWork
  <2>2. CASE WP!SuspendCheck \/ WP!power_suspend_late
    BY <1>4, <2>2 DEF WP!SuspendCheck, WP!power_suspend_late
  <2>3. CASE WP!SuspendSnapshot \/ WP!PmSuspendFails \/ WP!SuspendCompare
    BY <2>3 DEF WP!SuspendSnapshot, WP!PmSuspendFails, WP!SuspendCompare, WP!lockVars
  <2>4. CASE WP!SuspendNoEvent
    BY <1>2, <2>4 DEF WP!SuspendNoEvent
  <2> QED
    BY <2>1, <2>2, <2>3, <2>4
<1> QED
  BY <1>5, <1>6, <1>7, <1>8

LEMMA OnlyLocksStep ==
    ASSUME OnlyLocks, (Main \in active)' = (Main \in active)
    PROVE  [EP!Next]_(EP!vars)
<1>1. E!OtherLockReleased \/ E!SuspendEnd \/ UNCHANGED earlyState
  BY DEF OnlyLocks
<1>2. CASE UNCHANGED earlyState
  BY <1>2 DEF earlyState, EP!vars
<1> QED
  BY <1>1, <1>2, SameEarly DEF EP!Next, EP!Worker

LEMMA EarlyStep == WP!TypeOK /\ [Next]_vars => [EP!Next]_(EP!vars)
<1> SUFFICES ASSUME WP!TypeOK, [Next]_vars PROVE [EP!Next]_(EP!vars)
  OBVIOUS
<1>1. ASSUME UNCHANGED <<active, earlyState>> PROVE [EP!Next]_(EP!vars)
  BY <1>1 DEF earlyState, EP!vars
<1>2. CASE UNCHANGED vars
  BY <1>1, <1>2 DEF vars, lockState
<1>3. ASSUME NEW w, NEW state, state_store(w, state) PROVE [EP!Next]_(EP!vars)
  BY <1>1, <1>3 DEF state_store, lockState
<1>4. ASSUME NEW w, request_suspend_state(w) PROVE [EP!Next]_(EP!vars)
  BY <1>4, SameEarly DEF request_suspend_state, Request, EP!Next
<1>5. ASSUME NEW h \in Handlers, Register(h) PROVE [EP!Next]_(EP!vars)
  BY <1>5, SameEarly DEF Register, EP!Next
<1>6. CASE EarlyWork \/ EarlyRelease \/ StartSuspend
  BY <1>6, SameEarly DEF EarlyWork, EarlyRelease, StartSuspend, EP!Next, EP!Worker
<1>7. CASE \/ \E l \in Locks : UseLock(l)
           \/ Tick \/ TimerFires \/ expire_wake_locks \/ WakeUp \/ SuspendWork
  BY <1>7, MainStays, OnlyLocksStep DEF UseLock, Tick, TimerFires, expire_wake_locks, WakeUp,
     SuspendWork
<1> QED
  BY <1>2, <1>3, <1>4, <1>5, <1>6, <1>7 DEF Next, Worker

(* ... and early suspend.                                                  *)
THEOREM EarlyImplemented == Spec => EP!Spec
<1>1. Init => EP!Init
  BY DEF Init, W!Init, E!Init, EP!Init
<1>2. WP!Spec => []WP!TypeOK
  BY LockConstants, WP!TypeCorrect, PTL
<1> QED
  BY <1>1, <1>2, LocksImplemented, EarlyStep, PTL DEF Spec, EP!Spec
-----------------------------------------------------------------------------
(* Both together: suspend() runs exactly while the thread is in it, and    *)
(* the drivers are all off or all on whenever no walk is under way.        *)
LinkInv == (worker = "suspend") <=> (pc # "idle")

ScreenIs ==
    IF worker = "suspending" THEN "going_off"
    ELSE IF worker = "resuming" THEN "going_on"
    ELSE IF suspended THEN "off" ELSE "on"

WholeInv ==
    /\ LinkInv
    /\ Screen = ScreenIs
    /\ worker = "suspending" => suspended
    /\ worker = "resuming" => ~suspended
    /\ Main \notin active => requested /\ suspended
    /\ WP!TypeOK
    /\ WP!NoSleepWithLock
    /\ requested \in BOOLEAN /\ suspended \in BOOLEAN
    /\ worklist # <<>> => Head(worklist) \in {"early_suspend", "late_resume", "suspend"}

LEMMA LinkStep == LinkInv /\ [Next]_vars => LinkInv'
<1> SUFFICES ASSUME LinkInv, [Next]_vars PROVE LinkInv'
  OBVIOUS
<1> USE DEF LinkInv
<1>1. ASSUME UNCHANGED <<worker, pc>> PROVE LinkInv'
  BY <1>1
<1>2. ASSUME Linked PROVE LinkInv'
  BY <1>2 DEF Linked
<1>3. CASE UNCHANGED vars
  BY <1>1, <1>3 DEF vars, lockState, earlyState
<1>4. ASSUME NEW w, NEW state, state_store(w, state) PROVE LinkInv'
  BY <1>1, <1>4 DEF state_store, lockState, earlyState
<1>5. ASSUME NEW w, request_suspend_state(w) PROVE LinkInv'
  <2>1. pc' = pc
    BY <1>5 DEF request_suspend_state, Request, W!wake_lock, lockState
  <2>2. worker' = worker
    BY <1>5 DEF request_suspend_state, Request, E!RequestSleep, E!RequestWakeup
  <2> QED
    BY <1>1, <2>1, <2>2
<1>6. ASSUME NEW h, Register(h) PROVE LinkInv'
  BY <1>2, <1>6 DEF Register
<1>7. CASE Worker
  BY <1>2, <1>7 DEF Worker, EarlyWork, EarlyRelease, StartSuspend, SuspendWork, OnlyLocks
<1>8. ASSUME NEW l, UseLock(l) PROVE LinkInv'
  BY <1>2, <1>8 DEF UseLock, OnlyLocks
<1>9. CASE Tick \/ TimerFires \/ expire_wake_locks \/ WakeUp
  BY <1>2, <1>9 DEF Tick, TimerFires, expire_wake_locks, WakeUp, OnlyLocks
<1> QED
  BY <1>3, <1>4, <1>5, <1>6, <1>7, <1>8, <1>9 DEF Next

(* The screen of the promise is never "mixed".                             *)
LEMMA NeverMixed ==
    EP!IInv => /\ Screen = ScreenIs
               /\ worker = "suspending" => suspended
               /\ worker = "resuming" => ~suspended
               /\ Main \notin active => requested /\ suspended
               /\ requested \in BOOLEAN /\ suspended \in BOOLEAN
               /\ worklist # <<>> => Head(worklist) \in {"early_suspend", "late_resume", "suspend"}
<1> SUFFICES ASSUME EP!IInv
             PROVE  /\ Screen = ScreenIs
                    /\ worker = "suspending" => suspended
                    /\ worker = "resuming" => ~suspended
                    /\ Main \notin active => requested /\ suspended
                    /\ requested \in BOOLEAN /\ suspended \in BOOLEAN
                    /\ worklist # <<>> =>
                         Head(worklist) \in {"early_suspend", "late_resume", "suspend"}
  OBVIOUS
<1>1. worker = "suspending" => suspended
  BY DEF EP!IInv, EP!SuspendingInv
<1>2. worker = "resuming" => ~suspended
  BY DEF EP!IInv, EP!ResumingInv
<1>3. Main \notin active => requested /\ suspended
  BY DEF EP!IInv, EP!MainInv
<1>4. requested \in BOOLEAN /\ suspended \in BOOLEAN
  BY DEF EP!IInv, EP!TypeOK
<1>0. worklist # <<>> => Head(worklist) \in {"early_suspend", "late_resume", "suspend"}
  BY DEF EP!IInv, EP!TypeOK, EP!Works
<1>5. CASE worker \notin {"suspending", "resuming"}
  <2>1. \A h \in (ToSet(handlers) \ registering) \cap Suspenders :
          IF suspended THEN h \in off ELSE h \in Resumers => h \notin off
    BY <1>5 DEF EP!IInv, EP!RestInv, EP!Walking, EP!ToSet, ToSet
  <2>2. suspended => Registered \subseteq off
    BY <2>1 DEF Registered
  <2>3. ~suspended => Registered \cap off = {}
    BY <2>1 DEF Registered
  <2> QED
    BY <1>0, <1>1, <1>2, <1>3, <1>4, <1>5, <2>2, <2>3 DEF Screen, ScreenIs
<1>6. CASE worker \in {"suspending", "resuming"}
  BY <1>0, <1>1, <1>2, <1>3, <1>4, <1>6 DEF Screen, ScreenIs
<1> QED
  BY <1>5, <1>6

(* What the power manager keeps as a whole.                                *)
THEOREM WholeKept == Spec => []WholeInv
<1>1. WP!Spec => [](WP!TypeOK /\ WP!NoSleepWithLock)
  BY LockConstants, WP!TypeCorrect, WP!SleepsWithoutLock, PTL
<1>2. EP!Spec => []EP!IInv
  BY EarlyConstants, EP!Invariant, PTL
<1>3. Init => LinkInv
  BY DEF Init, W!Init, E!Init, LinkInv
<1>4. /\ WP!TypeOK /\ WP!NoSleepWithLock
      /\ EP!IInv /\ LinkInv
      => WholeInv
  BY NeverMixed DEF WholeInv
<1> QED
  BY <1>1, <1>2, <1>3, <1>4, LinkStep, LocksImplemented, EarlyImplemented, PTL DEF Spec
-----------------------------------------------------------------------------
(* The promise, step by step.                                              *)
PromiseStep == [Promise!Next]_(Promise!vars)

(* A step in which only the locks move.                                    *)
LEMMA LocksMove ==
    ASSUME WholeInv, WholeInv', UNCHANGED <<requested, suspended>>,
           ScreenIs' = ScreenIs,
           \/ pc # "asleep" /\ pc' # "asleep"
           \/ UNCHANGED <<active, timed, left>> /\ (pc = "asleep") = (pc' = "asleep")
    PROVE  PromiseStep
<1>1. Screen' = Screen
  BY DEF WholeInv
<1>2. W!Awake' = W!Awake
  BY DEF W!Awake
<1>3. CASE pc # "asleep" /\ pc' # "asleep"
  <2>1. (W!Held \ {Main})' \in SUBSET (SuspendLocks \ {Main})
    BY DEF W!Held
  <2>2. Promise!Lock
    BY <1>1, <1>2, <1>3, <2>1 DEF Promise!Lock, W!Awake
  <2> QED
    BY <2>2 DEF PromiseStep, Promise!Next
<1>4. CASE UNCHANGED <<active, timed, left>> /\ (pc = "asleep") = (pc' = "asleep")
  <2>1. W!Held' = W!Held
    BY <1>4 DEF W!Held
  <2> QED
    BY <1>1, <1>2, <2>1 DEF PromiseStep, Promise!vars
<1> QED
  BY <1>3, <1>4

(* User space asks, by wake_lock(&main_wake_lock) or without.              *)
LEMMA RequestPromised ==
    ASSUME WholeInv, WholeInv', NEW w, request_suspend_state(w)
    PROVE  PromiseStep
<1>1. /\ pc # "asleep" /\ pc' = pc
      /\ W!wake_lock(Main) \/ UNCHANGED lockState
  BY DEF request_suspend_state, Request, W!wake_lock, lockState, W!Awake
<1>2. suspended' = suspended /\ worker' = worker /\ requested' \in BOOLEAN
  BY DEF request_suspend_state, Request, E!RequestSleep, E!RequestWakeup, WholeInv
<1>3. Screen' = Screen
  BY <1>2 DEF WholeInv, ScreenIs
<1>4. (W!Held \ {Main})' = W!Held \ {Main}
  <2>1. CASE UNCHANGED lockState
    BY <2>1 DEF lockState, W!Held
  <2>2. CASE W!wake_lock(Main)
    <3>1. /\ active' = active \cup {Main} /\ timed' = timed \ {Main}
          /\ left' = [left EXCEPT ![Main] = 0]
      BY <2>2 DEF W!wake_lock
    <3>2. \A l \in active \ {Main} : left'[l] = left[l]
      BY <3>1 DEF WholeInv, WP!TypeOK, WP!Locks
    <3> QED
      BY <3>1, <3>2 DEF W!Held
  <2> QED
    BY <1>1, <2>1, <2>2
<1>5. Promise!Ask
  BY <1>1, <1>2, <1>3, <1>4 DEF Promise!Ask, W!Awake
<1> QED
  BY <1>5 DEF PromiseStep, Promise!Next

(* The walks over the handlers.                                            *)
LEMMA EarlyPromised ==
    ASSUME WholeInv, WholeInv', EarlyWork
    PROVE  PromiseStep
<1>1. UNCHANGED <<active, timed, left, pc, requested>>
  BY DEF EarlyWork, lockState, E!RunWork, E!EarlyBegin, E!EarlyCall, E!EarlyCalled, E!EarlyEnd,
     E!LateBegin, E!LateCall, E!LateEnd, E!stateVars
<1>2. ASSUME UNCHANGED suspended, ScreenIs' = ScreenIs PROVE PromiseStep
  BY <1>1, <1>2, LocksMove
<1>3. W!Held' = W!Held /\ W!Awake' = W!Awake
  BY <1>1 DEF W!Held, W!Awake
<1>4. ASSUME worklist # <<>>, Head(worklist) # "suspend", E!RunWork PROVE PromiseStep
  <2>1. ScreenIs' = ScreenIs /\ UNCHANGED suspended
    BY <1>4 DEF E!RunWork, E!stateVars, WholeInv, ScreenIs
  <2> QED
    BY <1>2, <2>1
<1>5. CASE E!EarlyBegin
  <2>1. CASE requested /\ ~suspended
    <3>1. ScreenIs = "on" /\ ScreenIs' = "going_off"
      BY <1>5, <2>1 DEF E!EarlyBegin, ScreenIs
    <3>2. Promise!GoOff
      BY <1>1, <1>3, <2>1, <3>1 DEF Promise!GoOff, WholeInv
    <3> QED
      BY <3>2 DEF PromiseStep, Promise!Next
  <2>2. CASE ~(requested /\ ~suspended)
    <3>1. ScreenIs' = ScreenIs /\ UNCHANGED suspended
      BY <1>5, <2>2 DEF E!EarlyBegin, ScreenIs
    <3> QED
      BY <1>2, <3>1
  <2> QED
    BY <2>1, <2>2
<1>6. CASE E!EarlyCall \/ E!LateCall \/ E!EarlyEnd
  <2>1. ScreenIs' = ScreenIs /\ UNCHANGED suspended
    BY <1>6 DEF E!EarlyCall, E!LateCall, E!EarlyEnd, E!stateVars, ScreenIs
  <2> QED
    BY <1>2, <2>1
<1>7. CASE E!EarlyCalled
  <2>1. ScreenIs = "going_off" /\ ScreenIs' = "off"
    BY <1>7 DEF E!EarlyCalled, E!stateVars, ScreenIs, WholeInv
  <2>2. Promise!Arrive
    BY <1>1, <1>3, <2>1 DEF Promise!Arrive, WholeInv
  <2> QED
    BY <2>2 DEF PromiseStep, Promise!Next
<1>8. CASE E!LateBegin
  <2>1. CASE suspended /\ ~requested
    <3>1. ScreenIs = "off" /\ ScreenIs' = "going_on" /\ worker = "late_resume"
      BY <1>8, <2>1 DEF E!LateBegin, ScreenIs
    <3>2. pc = "idle"
      BY <3>1 DEF WholeInv, LinkInv
    <3>3. Promise!GoOn
      BY <1>1, <1>3, <2>1, <3>1, <3>2 DEF Promise!GoOn, WholeInv, W!Awake
    <3> QED
      BY <3>3 DEF PromiseStep, Promise!Next
  <2>2. CASE ~(suspended /\ ~requested)
    <3>1. ScreenIs' = ScreenIs /\ UNCHANGED suspended
      BY <1>8, <2>2 DEF E!LateBegin, ScreenIs
    <3> QED
      BY <1>2, <3>1
  <2> QED
    BY <2>1, <2>2
<1>9. CASE E!LateEnd
  <2>1. ScreenIs = "going_on" /\ ScreenIs' = "on"
    BY <1>9 DEF E!LateEnd, E!stateVars, ScreenIs, WholeInv
  <2>2. Promise!Arrive
    BY <1>1, <1>3, <2>1 DEF Promise!Arrive, WholeInv
  <2> QED
    BY <2>2 DEF PromiseStep, Promise!Next
<1> QED
  BY <1>4, <1>5, <1>6, <1>7, <1>8, <1>9 DEF EarlyWork

(* The steps of the wake locks alone.                                      *)
LEMMA OnlyLocksFrame ==
    ASSUME WholeInv, OnlyLocks
    PROVE  UNCHANGED <<requested, suspended>> /\ ScreenIs' = ScreenIs
  BY DEF OnlyLocks, E!OtherLockReleased, E!SuspendEnd, earlyState, E!stateVars, ScreenIs

LEMMA SuspendPromised ==
    ASSUME WholeInv, WholeInv', SuspendWork
    PROVE  PromiseStep
<1>1. OnlyLocks /\ pc # "asleep"
  BY DEF SuspendWork, W!SuspendCheck, W!SuspendSnapshot, W!PmSuspendFails, W!power_suspend_late,
     W!SuspendCompare, W!SuspendNoEvent
<1>2. UNCHANGED <<requested, suspended>> /\ ScreenIs' = ScreenIs
  BY <1>1, OnlyLocksFrame
<1>3. CASE pc' # "asleep"
  BY <1>1, <1>2, <1>3, LocksMove
<1>4. CASE pc' = "asleep"
  <2>1. (active \cap SuspendLocks)' = {}
    BY <1>4 DEF WholeInv, WP!NoSleepWithLock, WP!Awake
  <2>2. Main \notin active'
    BY <2>1, LocksAssumption DEF LocksAssumption
  <2>3. requested /\ suspended
    BY <1>2, <2>2 DEF WholeInv
  <2>4. ScreenIs' = "off"
    BY <1>2, <1>4, <2>3 DEF WholeInv, LinkInv, ScreenIs
  <2>5. (W!Held \ {Main})' = {}
    BY <2>1 DEF W!Held
  <2>6. Promise!Sleep
    BY <1>1, <1>2, <1>4, <2>3, <2>4, <2>5 DEF Promise!Sleep, WholeInv, W!Awake
  <2> QED
    BY <2>6 DEF PromiseStep, Promise!Next
<1> QED
  BY <1>3, <1>4

LEMMA OwnersPromised ==
    ASSUME WholeInv, WholeInv',
           \/ \E l \in Locks : UseLock(l)
           \/ Tick \/ TimerFires \/ expire_wake_locks
    PROVE  PromiseStep
<1>1. OnlyLocks /\ pc # "asleep" /\ pc' = pc
  BY DEF UseLock, Tick, TimerFires, expire_wake_locks, W!wake_lock_init, W!wake_lock_destroy,
     W!wake_lock, W!wake_lock_timeout, W!wake_unlock, W!Tick, W!TimerFires, W!expire_wake_locks,
     W!workVars, W!Awake
<1> QED
  BY <1>1, OnlyLocksFrame, LocksMove

LEMMA NextPromised == WholeInv /\ WholeInv' /\ [Next]_vars => PromiseStep
<1> SUFFICES ASSUME WholeInv, WholeInv', [Next]_vars PROVE PromiseStep
  OBVIOUS
<1>1. ASSUME UNCHANGED <<lockState, earlyState>> PROVE PromiseStep
  <2>1. UNCHANGED <<requested, suspended, active, timed, left, pc>> /\ ScreenIs' = ScreenIs
    BY <1>1 DEF lockState, earlyState, ScreenIs
  <2> QED
    BY <2>1, LocksMove
<1>2. CASE UNCHANGED vars
  BY <1>1, <1>2 DEF vars
<1>3. ASSUME NEW w, NEW state, state_store(w, state) PROVE PromiseStep
  BY <1>1, <1>3 DEF state_store
<1>4. ASSUME NEW w, request_suspend_state(w) PROVE PromiseStep
  BY <1>4, RequestPromised
<1>5. ASSUME NEW h, Register(h) PROVE PromiseStep
  <2>1. pc # "asleep" /\ pc' = pc /\ UNCHANGED <<requested, suspended, worker>>
    BY <1>5 DEF Register, W!Awake, lockState, E!register_early_suspend, E!RegisterCall,
       E!unregister_early_suspend
  <2>2. ScreenIs' = ScreenIs
    BY <2>1 DEF ScreenIs
  <2> QED
    BY <2>1, <2>2, LocksMove
<1>6. CASE EarlyRelease \/ StartSuspend
  <2>1. UNCHANGED <<requested, suspended>> /\ ScreenIs' = ScreenIs
    BY <1>6 DEF EarlyRelease, StartSuspend, E!EarlyEnd, E!RunWork, E!stateVars, ScreenIs
  <2>2. pc # "asleep" /\ pc' # "asleep"
    BY <1>6 DEF EarlyRelease, StartSuspend, W!wake_unlock, W!SuspendStart, W!Awake
  <2> QED
    BY <2>1, <2>2, LocksMove
<1>7. CASE WakeUp
  <2>1. /\ UNCHANGED <<requested, suspended>> /\ ScreenIs' = ScreenIs
        /\ pc = "asleep" /\ pc' # "asleep" /\ UNCHANGED <<active, timed, left>>
    BY <1>7, OnlyLocksFrame DEF WakeUp, W!WakeUp, W!lockVars
  <2>2. W!Held' = W!Held /\ Screen' = Screen
    BY <2>1 DEF W!Held, WholeInv
  <2>3. Promise!WakeUp
    BY <2>1, <2>2 DEF Promise!WakeUp, W!Awake
  <2> QED
    BY <2>3 DEF PromiseStep, Promise!Next
<1> QED
  BY <1>2, <1>3, <1>4, <1>5, <1>6, <1>7, EarlyPromised, SuspendPromised, OwnersPromised
  DEF Next, Worker

(* Whatever the locks, the timeouts, the handlers and the order in which   *)
(* all of them come, nothing happens that PowerPromise does not allow: the *)
(* system sleeps only with the drivers off, sleep asked for and no lock    *)
(* held, and the drivers go off and on as a whole.                         *)
THEOREM StepsPromised == Spec => Promise!Init /\ [][Promise!Next]_(Promise!vars)
<1>1. Init => Promise!Init
  <2> SUFFICES ASSUME Init PROVE Promise!Init
    OBVIOUS
  <2>1. /\ ~requested /\ ~suspended /\ worker = "idle" /\ off = {} /\ active = {Main} /\ pc = "idle"
    BY DEF Init, W!Init, E!Init
  <2>2. Screen = "on"
    BY <2>1 DEF Screen
  <2>3. W!Held \ {Main} = {}
    BY <2>1 DEF W!Held
  <2> QED
    BY <2>1, <2>2, <2>3 DEF Promise!Init, W!Awake
<1>2. WholeInv /\ WholeInv' /\ [Next]_vars => [Promise!Next]_(Promise!vars)
  BY NextPromised DEF PromiseStep
<1> QED
  BY <1>1, <1>2, WholeKept, PTL DEF Spec
=============================================================================
