--------------------------- MODULE WakeLockProofs ---------------------------
(***************************************************************************)
(* Proofs about WakeLock for any sets of locks and any timeouts.  The      *)
(* theorems on the suspend that is not lost assume that a lock without a   *)
(* timeout is released before it is destroyed (DestroyHeld = {}).          *)
(***************************************************************************)
EXTENDS WakeLock, TLAPS

(* Taking a lock marks only suspend locks that are then active.            *)
LEMMA ChargedType ==
    ASSUME TypeOK, NEW l \in Locks, NEW tm, NEW lf
    PROVE  ChargedAfterLock(l, tm, lf) \subseteq (active \cup {l}) \cap SuspendLocks
<1>1. CASE l \in IdleLocks
  BY <1>1 DEF ChargedAfterLock, TypeOK
<1>2. CASE l \notin IdleLocks /\ l = Main
  BY <1>2 DEF ChargedAfterLock, TypeOK
<1>3. CASE l \notin IdleLocks /\ l # Main
  BY <1>3 DEF ChargedAfterLock, TypeOK, Charged
<1> QED
  BY <1>1, <1>2, <1>3

(* The timer is set within its bounds.                                     *)
LEMMA RearmType ==
    ASSUME TypeOK, NEW r \in Returns, Rearm(r)
    PROVE  timer' \in -1..MaxTimeout /\ expiring' \in BOOLEAN /\ queued' \in BOOLEAN
<1>1. timer' \in -1..MaxTimeout
  BY TimeoutAssumption DEF Rearm, Returns, TypeOK, TimeoutAssumption
<1>2. queued' \in BOOLEAN
  BY Zenon DEF Rearm, TypeOK
<1>3. expiring' \in BOOLEAN
  BY Zenon DEF Rearm, TypeOK
<1> QED
  BY <1>1, <1>2, <1>3

(* Every state has its types, for every choice of locks and timeouts.      *)
THEOREM TypeCorrect == Spec => []TypeOK
<1> USE LocksAssumption, TimeoutAssumption DEF Locks, LocksAssumption, TimeoutAssumption
<1>1. ASSUME Init PROVE TypeOK
  <2> USE <1>1 DEF Init
  <2>1. initialized \in SUBSET Locks /\ {Main, Unknown} \subseteq initialized
    OBVIOUS
  <2>2. active \in SUBSET initialized /\ timed \in SUBSET active /\ Main \notin timed
    OBVIOUS
  <2>3. left \in [Locks -> 0..MaxTimeout] /\ \A l \in Locks \ timed : left[l] = 0
    OBVIOUS
  <2>4. timer \in -1..MaxTimeout
    OBVIOUS
  <2> QED
    BY <2>1, <2>2, <2>3, <2>4 DEF TypeOK
<1>2. TypeOK /\ [Next]_vars => TypeOK'
  <2> SUFFICES ASSUME TypeOK, [Next]_vars PROVE TypeOK'
    OBVIOUS
  <2> USE DEF TypeOK, lockVars, timerVars, workVars
  <2>1. ASSUME NEW l \in Locks, wake_lock_init(l) PROVE TypeOK'
    BY <2>1 DEF wake_lock_init
  <2>2. ASSUME NEW l \in Locks, wake_lock_destroy(l) PROVE TypeOK'
    BY <2>2 DEF wake_lock_destroy, Drop
  <2>3. ASSUME NEW l \in Locks, l # Unknown, wake_lock(l) PROVE TypeOK'
    <3>1. /\ initialized' = initialized
          /\ active' \in SUBSET initialized
          /\ timed' \in SUBSET active'
          /\ Main \notin timed'
      BY <2>3 DEF wake_lock
    <3>2. left' \in [Locks -> 0..MaxTimeout] /\ \A k \in Locks \ timed' : left'[k] = 0
      BY <2>3 DEF wake_lock
    <3>3. preventing' \in SUBSET (active' \cap SuspendLocks)
      BY <2>3, ChargedType DEF wake_lock
    <3>4. timer' \in -1..MaxTimeout /\ expiring' \in BOOLEAN /\ queued' \in BOOLEAN
      BY <2>3 DEF wake_lock, Rearm
    <3> QED
      BY <2>3, <3>1, <3>2, <3>3, <3>4 DEF wake_lock
  <2>10. ASSUME NEW l \in Locks \ {Main}, l \in initialized,
                NEW timeout \in 0..MaxTimeout, LockTimeout(l, timeout),
                UNCHANGED <<initialized, event>>, pc' \in {pc, "idle"}
         PROVE  TypeOK'
    <3> USE <2>10
    <3>1. active' \in SUBSET initialized /\ timed' \in SUBSET active' /\ Main \notin timed'
      BY DEF LockTimeout, Drop
    <3>2. left' \in [Locks -> 0..MaxTimeout] /\ \A k \in Locks \ timed' : left'[k] = 0
      BY DEF LockTimeout, Drop
    <3>3. preventing' \in SUBSET (active' \cap SuspendLocks)
      <4> DEFINE tm == timed \cup {l}
                 lf == [left EXCEPT ![l] = timeout]
                 gone == IF l \in SuspendLocks
                         THEN ExpiredByScan((active \cup {l}) \cap SuspendLocks, tm, lf)
                         ELSE {}
      <4>1. /\ preventing' = ChargedAfterLock(l, tm, lf) \ gone
            /\ active' = (active \cup {l}) \ gone
        BY DEF LockTimeout, Drop
      <4>2. ChargedAfterLock(l, tm, lf) \subseteq (active \cup {l}) \cap SuspendLocks
        BY ChargedType
      <4> HIDE DEF tm, lf, gone
      <4> QED
        BY <4>1, <4>2
    <3>4. timer' \in -1..MaxTimeout /\ expiring' \in BOOLEAN /\ queued' \in BOOLEAN
      BY RearmType, Zenon DEF LockTimeout
    <3> QED
      BY <3>1, <3>2, <3>3, <3>4
  <2>4. ASSUME NEW l \in Locks, NEW timeout \in 0..MaxTimeout, wake_lock_timeout(l, timeout)
        PROVE  TypeOK'
    BY <2>4, <2>10 DEF wake_lock_timeout
  <2>5. ASSUME NEW l \in Locks, wake_unlock(l) PROVE TypeOK'
    <3> USE <2>5
    <3>1. active' \in SUBSET initialized /\ timed' \in SUBSET active' /\ Main \notin timed'
      BY DEF wake_unlock, Drop
    <3>2. left' \in [Locks -> 0..MaxTimeout] /\ \A k \in Locks \ timed' : left'[k] = 0
      BY DEF wake_unlock, Drop
    <3>3. preventing' \in SUBSET (active' \cap SuspendLocks)
      <4> DEFINE act == active \ {l}
                 tm == timed \ {l}
                 lf == [left EXCEPT ![l] = 0]
                 gone == IF l \in SuspendLocks
                         THEN ExpiredByScan(act \cap SuspendLocks, tm, lf) ELSE {}
      <4>1. /\ active' = act \ gone
            /\ preventing' = IF l = Main THEN Charged(act \ gone, tm \ gone, lf)
                                         ELSE preventing \ (gone \cup {l})
        BY DEF wake_unlock, Drop
      <4> HIDE DEF gone
      <4> QED
        BY <4>1 DEF Charged
    <3>4. timer' \in -1..MaxTimeout /\ expiring' \in BOOLEAN /\ queued' \in BOOLEAN
      BY RearmType, Zenon DEF wake_unlock
    <3> QED
      BY <3>1, <3>2, <3>3, <3>4 DEF wake_unlock
  <2>11. ASSUME NEW list, NEW r, Scan(list, r)
         PROVE  /\ initialized' = initialized
                /\ active' \in SUBSET initialized
                /\ timed' \in SUBSET active'
                /\ Main \notin timed'
                /\ left' \in [Locks -> 0..MaxTimeout]
                /\ \A l \in Locks \ timed' : left'[l] = 0
                /\ preventing' \in SUBSET (active' \cap SuspendLocks)
    BY <2>11 DEF Scan, Drop
  <2>6. ASSUME NEW list, has_wake_lock(list) PROVE TypeOK'
    BY <2>6, <2>11 DEF has_wake_lock
  <2>7. CASE Tick
    BY <2>7 DEF Tick
  <2>8. CASE TimerFires
    BY <2>8 DEF TimerFires
  <2>9. CASE expire_wake_locks
    BY <2>9, <2>11 DEF expire_wake_locks
  <2>12. CASE SuspendStart
    BY <2>12 DEF SuspendStart
  <2>13. CASE SuspendCheck
    BY <2>13, <2>11 DEF SuspendCheck
  <2>14. CASE SuspendSnapshot
    BY <2>14 DEF SuspendSnapshot
  <2>15. CASE PmSuspendFails
    BY <2>15 DEF PmSuspendFails
  <2>16. CASE power_suspend_late
    BY <2>16, <2>11 DEF power_suspend_late
  <2>17. CASE SuspendCompare
    BY <2>17 DEF SuspendCompare
  <2>18. CASE SuspendNoEvent
    BY <2>18, <2>10 DEF SuspendNoEvent
  <2>19. CASE WakeUp
    BY <2>19 DEF WakeUp
  <2>20. CASE UNCHANGED vars
    BY <2>20 DEF vars
  <2> QED
    BY <2>1, <2>2, <2>3, <2>4, <2>5, <2>6, <2>7, <2>8, <2>9, <2>12, <2>13,
       <2>14, <2>15, <2>16, <2>17, <2>18, <2>19, <2>20 DEF Next, Suspend
<1> QED
  BY <1>1, <1>2, PTL DEF Spec
-----------------------------------------------------------------------------
(* A scan with nothing else done to the lists: what keeps the system awake *)
(* stays; a result of 0 leaves the list empty.                             *)
LEMMA ScanResult ==
    ASSUME TypeOK, NEW r \in Returns, Scan(active \cap SuspendLocks, r)
    PROVE  /\ r = -1 => Untimed(active \cap SuspendLocks, timed) # {}
           /\ r = 0 => active' \cap SuspendLocks = {}
           /\ r > 0 => /\ Untimed(active \cap SuspendLocks, timed) = {}
                       /\ Held # {}
<1>1. HasWakeLockReturns(r, active \cap SuspendLocks, timed, left)
  BY DEF Scan
<1>2. active' = active \ ExpiredByScan(active \cap SuspendLocks, timed, left)
  BY DEF Scan, Drop
<1>3. ASSUME r = -1 PROVE Untimed(active \cap SuspendLocks, timed) # {}
  BY <1>1, <1>3 DEF HasWakeLockReturns
<1>4. ASSUME r = 0 PROVE active' \cap SuspendLocks = {}
  <2>1. HasWakeLockReturns(0, active \cap SuspendLocks, timed, left)
    BY <1>1, <1>4
  <2>2. Untimed(active \cap SuspendLocks, timed) = {}
    BY <2>1 DEF HasWakeLockReturns
  <2>3. ASSUME NEW l \in active \cap SuspendLocks PROVE left[l] = 0 /\ l \in timed
    <3>1. left[l] \in Nat
      BY TimeoutAssumption DEF TypeOK, TimeoutAssumption, Locks
    <3>2. left[l] <= 0
      BY <2>1, <2>2, Zenon DEF HasWakeLockReturns
    <3>3. left[l] = 0
      BY <3>1, <3>2
    <3>4. l \in timed
      BY <2>2 DEF Untimed
    <3> QED
      BY <3>3, <3>4
  <2> QED
    BY <1>2, <2>2, <2>3 DEF ExpiredByScan, Expired
<1>5. ASSUME r > 0
      PROVE  Untimed(active \cap SuspendLocks, timed) = {} /\ Held # {}
  <2>1. Untimed(active \cap SuspendLocks, timed) = {}
    BY <1>1, <1>5 DEF HasWakeLockReturns
  <2>2. PICK l \in active \cap SuspendLocks : left[l] = r
    BY <1>1, <1>5, <2>1 DEF HasWakeLockReturns
  <2> QED
    BY <1>5, <2>1, <2>2 DEF Held
<1> QED
  BY <1>3, <1>4, <1>5

(* No suspend lock is active while the system sleeps, whenever the locks   *)
(* were taken (the check of power_suspend_late).                           *)
THEOREM SleepsWithoutLock == Spec => []NoSleepWithLock
<1>1. Init => NoSleepWithLock
  BY DEF Init, NoSleepWithLock, Awake
<1>2. TypeOK /\ NoSleepWithLock /\ [Next]_vars => NoSleepWithLock'
  <2> SUFFICES ASSUME TypeOK, NoSleepWithLock, [Next]_vars PROVE NoSleepWithLock'
    OBVIOUS
  <2> USE DEF NoSleepWithLock, Awake
  <2>1. CASE pc' # "asleep"
    BY <2>1
  <2>2. CASE power_suspend_late
    <3>1. PICK r \in Returns : /\ Scan(active \cap SuspendLocks, r)
                               /\ pc' = IF r = 0 THEN "asleep" ELSE "returned"
      BY <2>2 DEF power_suspend_late
    <3> QED
      BY <3>1, ScanResult
  <2>3. CASE pc = "asleep" /\ UNCHANGED <<active, pc>>
    BY <2>3
  <2>4. ASSUME NEW l \in Locks,
               \/ wake_lock_init(l) \/ wake_lock_destroy(l) \/ wake_lock(l)
               \/ \E timeout \in 0..MaxTimeout : wake_lock_timeout(l, timeout)
               \/ wake_unlock(l)
        PROVE  pc' # "asleep"
    <3>1. ASSUME wake_lock_init(l) \/ wake_lock_destroy(l) PROVE pc' # "asleep"
      BY <3>1 DEF workVars, wake_lock_init, wake_lock_destroy
    <3>2. ASSUME wake_lock(l) PROVE pc' # "asleep"
      BY <3>2 DEF wake_lock
    <3>3. ASSUME NEW timeout, wake_lock_timeout(l, timeout) PROVE pc' # "asleep"
      BY <3>3 DEF wake_lock_timeout
    <3>4. ASSUME wake_unlock(l) PROVE pc' # "asleep"
      BY <3>4 DEF wake_unlock
    <3> QED
      BY <2>4, <3>1, <3>2, <3>3, <3>4
  <2>5. ASSUME NEW list, has_wake_lock(list) PROVE pc' # "asleep"
    BY <2>5 DEF workVars, has_wake_lock
  <2>6. ASSUME Tick \/ TimerFires \/ expire_wake_locks PROVE pc' # "asleep"
    BY <2>6 DEF workVars, Tick, TimerFires, expire_wake_locks
  <2>7. ASSUME \/ SuspendStart \/ SuspendCheck \/ SuspendSnapshot \/ PmSuspendFails
               \/ SuspendCompare \/ SuspendNoEvent \/ WakeUp
        PROVE  pc' # "asleep"
    BY <2>7 DEF SuspendStart, SuspendCheck, SuspendSnapshot, PmSuspendFails,
               SuspendCompare, SuspendNoEvent, WakeUp
  <2>8. ASSUME UNCHANGED vars PROVE UNCHANGED <<active, pc>>
    BY <2>8 DEF vars
  <2> QED
    BY <2>1, <2>2, <2>3, <2>4, <2>5, <2>6, <2>7, <2>8 DEF Next, Suspend
<1> QED
  BY <1>1, <1>2, TypeCorrect, PTL DEF Spec
-----------------------------------------------------------------------------
SuspendList == active \cap SuspendLocks

Progress == TimerRight /\ NoLostSuspend /\ EventNotLost

(* A scan does not change what keeps the system awake, nor for how long.   *)
LEMMA ScanKeeps ==
    ASSUME TypeOK, NEW r,
           NEW list \in {active \cap SuspendLocks, active \cap IdleLocks}, Scan(list, r)
    PROVE  /\ Untimed(SuspendList, timed)' = Untimed(SuspendList, timed)
           /\ Held' = Held
           /\ \A l \in Held : left'[l] = left[l]
<1> DEFINE gone == ExpiredByScan(list, timed, left)
<1>1. /\ active' = active \ gone
      /\ timed' = timed \ gone
      /\ left' = [l \in Locks |-> IF l \in gone THEN 0 ELSE left[l]]
  BY DEF Scan, Drop
<1>2. gone \subseteq timed /\ \A l \in gone : left[l] = 0
  BY DEF ExpiredByScan, Expired
<1> HIDE DEF gone
<1>3. Untimed(SuspendList, timed)' = Untimed(SuspendList, timed)
  BY <1>1, <1>2 DEF Untimed, SuspendList
<1>4. \A l \in Locks : left'[l] = left[l]
  BY <1>1, <1>2
<1>5. Held' = Held
  BY <1>1, <1>2, <1>4 DEF Held, TypeOK, Locks
<1>6. \A l \in Held : left'[l] = left[l]
  BY <1>4 DEF Held, Locks
<1> QED
  BY <1>3, <1>5, <1>6

(* After the scan and the setting of the timer that end wake_lock_timeout  *)
(* and wake_unlock nothing is lost, whatever was so before.                *)
LEMMA RearmProgress ==
    ASSUME NEW act, NEW tm, NEW lf, tm \subseteq act,
           lf \in [Locks -> 0..MaxTimeout],
           NEW r \in Returns,
           HasWakeLockReturns(r, act \cap SuspendLocks, tm, lf),
           Drop(ExpiredByScan(act \cap SuspendLocks, tm, lf), act, tm, lf),
           Rearm(r)
    PROVE  Progress'
<1> DEFINE list == act \cap SuspendLocks
           gone == ExpiredByScan(list, tm, lf)
<1>1. /\ active' = act \ gone
      /\ timed' = tm \ gone
      /\ left' = [l \in Locks |-> IF l \in gone THEN 0 ELSE lf[l]]
  BY DEF Drop
<1>2. CASE Untimed(list, tm) # {}
  <2>1. gone = {}
    BY <1>2 DEF ExpiredByScan
  <2>2. Untimed(SuspendList, timed)' # {}
    BY <1>1, <1>2, <2>1 DEF Untimed, SuspendList
  <2>3. r = -1
    BY <1>2, Zenon DEF HasWakeLockReturns
  <2>4. timer' = -1
    BY <2>3 DEF Rearm
  <2> QED
    BY <2>2, <2>4 DEF Progress, TimerRight, NoLostSuspend, EventNotLost, SuspendList
<1>3. CASE Untimed(list, tm) = {}
  <2>1. r \in 0..MaxTimeout /\ \A l \in list : lf[l] <= r
    BY <1>3, Zenon DEF HasWakeLockReturns
  <2>2. gone = {l \in list \cap tm : lf[l] = 0}
    BY <1>3 DEF ExpiredByScan, Expired
  <2>3. Untimed(SuspendList, timed)' = {}
    BY <1>1, <1>3, <2>2 DEF Untimed, SuspendList
  <2>4. \A l \in Held' : l \in list /\ left'[l] = lf[l] /\ lf[l] > 0
    <3> SUFFICES ASSUME NEW l \in Held' PROVE l \in list /\ left'[l] = lf[l] /\ lf[l] > 0
      OBVIOUS
    <3>1. l \in list \ gone /\ l \in Locks
      BY <1>1 DEF Held, Locks
    <3>2. l \in tm
      BY <1>3, <3>1 DEF Untimed
    <3>3. left'[l] = lf[l]
      BY <1>1, <3>1
    <3>4. lf[l] # 0
      BY <2>2, <3>1, <3>2
    <3>5. lf[l] \in Nat
      BY <3>1, TimeoutAssumption DEF TimeoutAssumption
    <3> QED
      BY <3>1, <3>3, <3>4, <3>5
  <2>5. CASE r = 0
    <3>1. queued'
      BY <2>5 DEF Rearm
    <3>2. Held' = {}
      <4> SUFFICES ASSUME NEW l \in Held' PROVE FALSE
        OBVIOUS
      <4>1. l \in list /\ lf[l] > 0 /\ l \in Locks
        BY <2>4 DEF Locks
      <4>2. lf[l] <= 0
        BY <2>1, <2>5, <4>1
      <4>3. lf[l] \in Nat
        BY <4>1, TimeoutAssumption DEF TimeoutAssumption
      <4> QED
        BY <4>1, <4>2, <4>3
    <3> QED
      BY <2>3, <3>1, <3>2 DEF Progress, TimerRight, NoLostSuspend, EventNotLost, SuspendList
  <2>6. CASE r # 0
    <3>1. timer' = r /\ r # -1
      BY <2>1, <2>6, TimeoutAssumption DEF Rearm, TimeoutAssumption
    <3>2. \A l \in Held' : left'[l] <= timer'
      BY <2>1, <2>4, <3>1
    <3>3. timer' # -1
      BY <3>1
    <3> QED
      BY <2>3, <3>2, <3>3 DEF Progress, TimerRight, NoLostSuspend, EventNotLost, SuspendList
  <2> QED
    BY <2>5, <2>6
<1> QED
  BY <1>2, <1>3

(* Steps that leave the lists, their times and the work alone.             *)
LEMMA ProgressKept ==
    ASSUME Progress,
           Untimed(SuspendList, timed)' = Untimed(SuspendList, timed),
           Held' = Held, \A l \in Held : left'[l] = left[l],
           timer' = timer, expiring => expiring' \/ queued',
           queued => queued', pc' = pc, event' => event
    PROVE  Progress'
<1>1. TimerRight'
  BY DEF Progress, TimerRight, SuspendList
<1>2. NoLostSuspend'
  BY DEF Progress, NoLostSuspend, SuspendList
<1>3. EventNotLost'
  BY DEF Progress, EventNotLost, SuspendList
<1> QED
  BY <1>1, <1>2, <1>3 DEF Progress

(* The timer is pending as long as a timed lock alone keeps the system up. *)
LEMMA HeldMeansTimer ==
    ASSUME TypeOK, Progress, Untimed(SuspendList, timed) = {}, Held # {}
    PROVE  timer > 0
<1>1. PICK l \in Held : left[l] <= timer
  BY DEF Progress, TimerRight, SuspendList
<1>2. l \in Locks /\ left[l] > 0
  BY <1>1 DEF Held, Untimed, SuspendList, Locks
<1> QED
  BY <1>1, <1>2, TimeoutAssumption DEF TypeOK, TimeoutAssumption

(* Provided no owner destroys a lock it holds without a timeout, the next  *)
(* attempt to suspend is always under way once such locks are gone, and    *)
(* the timer is never early.                                               *)
THEOREM ProgressMade ==
    ASSUME DestroyHeld = {}
    PROVE  Spec => [](NoLostSuspend /\ TimerRight /\ EventNotLost)
<1>1. ASSUME Init PROVE Progress
  <2>1. Main \in Untimed(SuspendList, timed) /\ timer = -1
    BY <1>1, LocksAssumption DEF Init, LocksAssumption, Untimed, SuspendList
  <2> QED
    BY <2>1 DEF Progress, TimerRight, NoLostSuspend, EventNotLost, SuspendList
<1>2. TypeOK /\ Progress /\ [Next]_vars => Progress'
  <2> SUFFICES ASSUME TypeOK, Progress, [Next]_vars PROVE Progress'
    OBVIOUS
  <2> USE DEF lockVars, timerVars, workVars
  <2>1. ASSUME NEW l \in Locks, wake_lock_init(l) PROVE Progress'
    BY <2>1, ProgressKept DEF wake_lock_init, Held, SuspendList
  <2>2. ASSUME NEW l \in Locks, wake_lock_destroy(l) PROVE Progress'
    <3>1. /\ active' = active \ {l}
          /\ timed' = timed \ {l}
          /\ left' = [k \in Locks |-> IF k = l THEN 0 ELSE left[k]]
          /\ UNCHANGED <<timer, expiring, queued, pc, event>>
      BY <2>2 DEF wake_lock_destroy, Drop
    <3>2. l \notin Untimed(active, timed)
      BY <2>2 DEF wake_lock_destroy
    <3>3. Untimed(SuspendList, timed)' = Untimed(SuspendList, timed)
      BY <3>1, <3>2 DEF Untimed, SuspendList
    <3>4. Held' = Held \ {l} /\ \A k \in Held' : left'[k] = left[k]
      BY <3>1 DEF Held, Locks
    <3>5. TimerRight'
      BY <3>1, <3>3, <3>4 DEF Progress, TimerRight, SuspendList
    <3>6. CASE Untimed(SuspendList, timed) = {} /\ Held # {}
      <4>1. timer' > 0
        BY <3>1, <3>6, HeldMeansTimer
      <4> QED
        BY <4>1, <3>5 DEF Progress, NoLostSuspend, EventNotLost
    <3>7. CASE Untimed(SuspendList, timed) # {} \/ Held = {}
      BY <3>1, <3>3, <3>4, <3>5, <3>7 DEF Progress, NoLostSuspend, EventNotLost, SuspendList
    <3> QED
      BY <3>6, <3>7
  <2>3. ASSUME NEW l \in Locks, wake_lock(l) PROVE Progress'
    <3>1. CASE l \in SuspendLocks
      <4>1. l \in Untimed(SuspendList, timed)'
        BY <2>3, <3>1 DEF wake_lock, Untimed, SuspendList
      <4>2. timer' = -1
        BY <2>3, <3>1 DEF wake_lock, Rearm
      <4> QED
        BY <4>1, <4>2 DEF Progress, TimerRight, NoLostSuspend, EventNotLost, SuspendList
    <3>2. CASE l \notin SuspendLocks
      <4>1. /\ SuspendList' = SuspendList
            /\ Untimed(SuspendList, timed)' = Untimed(SuspendList, timed)
            /\ Held' = Held
            /\ \A k \in Held : left'[k] = left[k]
        BY <2>3, <3>2 DEF wake_lock, Untimed, SuspendList, Held, TypeOK, Locks
      <4>2. UNCHANGED <<timer, expiring, queued, pc>> /\ (event' => event)
        BY <2>3, <3>2, LocksAssumption DEF wake_lock, LocksAssumption
      <4> QED
        BY <4>1, <4>2, ProgressKept
    <3> QED
      BY <3>1, <3>2
  <2>4. ASSUME NEW l \in Locks, NEW timeout \in 0..MaxTimeout, LockTimeout(l, timeout),
               l \in SuspendLocks \/ UNCHANGED <<pc, event>>
        PROVE  Progress'
    <3> DEFINE act == active \cup {l}
               tm == timed \cup {l}
               lf == [left EXCEPT ![l] = timeout]
    <3>1. CASE l \in SuspendLocks
      <4>1. PICK r \in Returns :
               HasWakeLockReturns(r, act \cap SuspendLocks, tm, lf) /\ Rearm(r)
        BY <2>4, <3>1 DEF LockTimeout
      <4>2. Drop(ExpiredByScan(act \cap SuspendLocks, tm, lf), act, tm, lf)
        BY <2>4, <3>1 DEF LockTimeout
      <4>3. tm \subseteq act /\ lf \in [Locks -> 0..MaxTimeout]
        BY DEF TypeOK
      <4> QED
        BY <4>1, <4>2, <4>3, RearmProgress
    <3>2. CASE l \notin SuspendLocks
      <4>1. /\ active' = act \ {}
            /\ timed' = tm \ {}
            /\ left' = [k \in Locks |-> IF k \in {} THEN 0 ELSE lf[k]]
            /\ UNCHANGED <<timer, expiring, queued>>
        BY <2>4, <3>2 DEF LockTimeout, Drop
      <4>2. /\ Untimed(SuspendList, timed)' = Untimed(SuspendList, timed)
            /\ Held' = Held
            /\ \A k \in Held : left'[k] = left[k]
        BY <4>1, <3>2 DEF Untimed, SuspendList, Held, TypeOK, Locks
      <4> QED
        BY <2>4, <3>2, <4>1, <4>2, ProgressKept
    <3> QED
      BY <3>1, <3>2
  <2>5. ASSUME NEW l \in Locks, NEW timeout \in 0..MaxTimeout, wake_lock_timeout(l, timeout)
        PROVE  Progress'
    BY <2>5, <2>4 DEF wake_lock_timeout
  <2>6. ASSUME NEW l \in Locks, wake_unlock(l) PROVE Progress'
    <3> DEFINE act == active \ {l}
               tm == timed \ {l}
               lf == [left EXCEPT ![l] = 0]
    <3>1. CASE l \in SuspendLocks
      <4>1. PICK r \in Returns :
               HasWakeLockReturns(r, act \cap SuspendLocks, tm, lf) /\ Rearm(r)
        BY <2>6, <3>1 DEF wake_unlock
      <4>2. Drop(ExpiredByScan(act \cap SuspendLocks, tm, lf), act, tm, lf)
        BY <2>6, <3>1 DEF wake_unlock
      <4>3. tm \subseteq act /\ lf \in [Locks -> 0..MaxTimeout]
        BY TimeoutAssumption DEF TypeOK, TimeoutAssumption
      <4> QED
        BY <4>1, <4>2, <4>3, RearmProgress
    <3>2. CASE l \notin SuspendLocks
      <4>1. /\ active' = act \ {}
            /\ timed' = tm \ {}
            /\ left' = [k \in Locks |-> IF k \in {} THEN 0 ELSE lf[k]]
            /\ UNCHANGED <<timer, expiring, queued, pc, event>>
        BY <2>6, <3>2 DEF wake_unlock, Drop
      <4>2. /\ Untimed(SuspendList, timed)' = Untimed(SuspendList, timed)
            /\ Held' = Held
            /\ \A k \in Held : left'[k] = left[k]
        BY <4>1, <3>2 DEF Untimed, SuspendList, Held, TypeOK, Locks
      <4> QED
        BY <4>1, <4>2, ProgressKept
    <3> QED
      BY <3>1, <3>2
  <2>7. ASSUME NEW list \in {active \cap SuspendLocks, active \cap IdleLocks},
               has_wake_lock(list)
        PROVE  Progress'
    <3>1. PICK r \in Returns : Scan(list, r)
      BY <2>7 DEF has_wake_lock
    <3> QED
      BY <2>7, <3>1, ScanKeeps, ProgressKept DEF has_wake_lock
  <2>8. CASE Tick
    <3>1. UNCHANGED <<active, timed, expiring, queued, pc, event>>
      BY <2>8 DEF Tick
    <3>2. Untimed(SuspendList, timed)' = Untimed(SuspendList, timed)
      BY <3>1 DEF Untimed, SuspendList
    <3>3. \A l \in Locks : left[l] \in Nat /\ left'[l] = IF left[l] > 0 THEN left[l] - 1 ELSE 0
      BY <2>8, TimeoutAssumption DEF Tick, TypeOK, TimeoutAssumption
    <3>4. timer \in -1..MaxTimeout /\ timer' = IF timer > 0 THEN timer - 1 ELSE timer
      BY <2>8 DEF Tick, TypeOK
    <3>5. CASE Untimed(SuspendList, timed) # {}
      <4>1. timer = -1
        BY <3>5 DEF Progress, TimerRight, SuspendList
      <4> QED
        BY <3>2, <3>4, <3>5, <4>1
        DEF Progress, TimerRight, NoLostSuspend, EventNotLost, SuspendList
    <3>6. CASE Untimed(SuspendList, timed) = {}
      <4>1. \A l \in Held' : l \in Held /\ l \in Locks
        <5> SUFFICES ASSUME NEW l \in Held' PROVE l \in Held /\ l \in Locks
          OBVIOUS
        <5>1. l \in SuspendList /\ l \in Locks /\ l \in timed
          BY <3>1, <3>6 DEF Held, Locks, SuspendList, Untimed
        <5>2. left'[l] > 0
          BY <3>1, <5>1 DEF Held
        <5>3. left[l] > 0
          BY <3>3, <5>1, <5>2
        <5> QED
          BY <5>1, <5>3 DEF Held, SuspendList
      <4>2. ASSUME NEW l \in Held' PROVE left'[l] <= timer'
        <5>1. l \in Held /\ l \in Locks /\ left[l] <= timer
          BY <3>6, <4>1 DEF Progress, TimerRight, SuspendList
        <5> QED
          BY <3>3, <3>4, <5>1, TimeoutAssumption DEF TimeoutAssumption
      <4>3. Held # {} => timer' >= 0
        BY <3>4, <3>6, HeldMeansTimer, TimeoutAssumption DEF TimeoutAssumption
      <4>4. timer # -1 => timer' # -1
        BY <3>4, TimeoutAssumption DEF TimeoutAssumption
      <4>5. Held # {} => timer' # -1
        BY <4>3
      <4> QED
        BY <3>1, <3>2, <3>6, <4>1, <4>2, <4>4, <4>5
        DEF Progress, TimerRight, NoLostSuspend, EventNotLost, SuspendList
    <3> QED
      BY <3>5, <3>6
  <2>9. CASE TimerFires
    <3>1. /\ timer = 0 /\ expiring'
          /\ UNCHANGED <<active, timed, left, queued, pc, event>>
      BY <2>9 DEF TimerFires
    <3>2. Untimed(SuspendList, timed) = {}
      BY <3>1 DEF Progress, TimerRight, SuspendList
    <3>3. Held = {}
      BY <3>1, <3>2, HeldMeansTimer
    <3>4. Held' = {} /\ Untimed(SuspendList, timed)' = {}
      BY <3>1, <3>2, <3>3 DEF Held, Untimed, SuspendList
    <3> QED
      BY <3>1, <3>4 DEF Progress, TimerRight, NoLostSuspend, EventNotLost, SuspendList
  <2>10. CASE expire_wake_locks
    <3>1. PICK r \in Returns : /\ Scan(active \cap SuspendLocks, r)
                               /\ queued' = (queued \/ r = 0)
      BY <2>10 DEF expire_wake_locks
    <3>2. UNCHANGED <<timer, pc, event>>
      BY <2>10 DEF expire_wake_locks
    <3>3. /\ Untimed(SuspendList, timed)' = Untimed(SuspendList, timed)
          /\ Held' = Held
          /\ \A l \in Held : left'[l] = left[l]
      BY <3>1, ScanKeeps
    <3>4. CASE r = 0
      BY <3>1, <3>2, <3>3, <3>4, ProgressKept
    <3>5. CASE r = -1
      <4>1. Untimed(SuspendList, timed) # {}
        BY <3>1, <3>5, ScanResult DEF SuspendList
      <4> QED
        BY <3>2, <3>3, <4>1 DEF Progress, TimerRight, NoLostSuspend, EventNotLost, SuspendList
    <3>6. CASE r > 0
      <4>1. Untimed(SuspendList, timed) = {} /\ Held # {}
        BY <3>1, <3>6, ScanResult DEF SuspendList
      <4>2. timer # -1
        BY <4>1, HeldMeansTimer
      <4> QED
        BY <3>2, <3>3, <4>1, <4>2
        DEF Progress, TimerRight, NoLostSuspend, EventNotLost, SuspendList
    <3> QED
      BY <3>4, <3>5, <3>6, TimeoutAssumption DEF Returns, TimeoutAssumption
  <2>11. CASE SuspendStart \/ SuspendSnapshot \/ PmSuspendFails \/ WakeUp
    <3>1. /\ UNCHANGED <<active, timed, left, timer, expiring>>
          /\ Untimed(SuspendList, timed)' = Untimed(SuspendList, timed)
          /\ Held' = Held
      BY <2>11 DEF SuspendStart, SuspendSnapshot, PmSuspendFails, WakeUp,
                  Untimed, SuspendList, Held
    <3>2. TimerRight'
      BY <3>1 DEF Progress, TimerRight, SuspendList
    <3>3. pc' # "idle"
      BY <2>11 DEF SuspendStart, SuspendSnapshot, PmSuspendFails, WakeUp
    <3>4. EventNotLost'
      BY <2>11, <3>1 DEF SuspendStart, SuspendSnapshot, PmSuspendFails, WakeUp,
                        Progress, EventNotLost, SuspendList
    <3> QED
      BY <3>2, <3>3, <3>4 DEF Progress, NoLostSuspend
  <2>12. CASE SuspendCheck \/ power_suspend_late
    <3>1. PICK r \in Returns :
             /\ Scan(active \cap SuspendLocks, r)
             /\ \/ pc = "check" /\ pc' = IF r = 0 THEN "snapshot" ELSE "idle"
                \/ pc = "pm_suspend" /\ pc' = IF r = 0 THEN "asleep" ELSE "returned"
      BY <2>12, Zenon DEF SuspendCheck, power_suspend_late
    <3>2. UNCHANGED <<timer, expiring, queued, event>>
      BY <2>12 DEF SuspendCheck, power_suspend_late
    <3>3. /\ Untimed(SuspendList, timed)' = Untimed(SuspendList, timed)
          /\ Held' = Held
          /\ \A l \in Held : left'[l] = left[l]
      BY <3>1, ScanKeeps
    <3>4. TimerRight'
      BY <3>2, <3>3 DEF Progress, TimerRight, SuspendList
    <3>5. EventNotLost'
      BY <3>1, <3>2, <3>3 DEF Progress, EventNotLost, SuspendList
    <3>6. CASE pc' # "idle"
      BY <3>4, <3>5, <3>6 DEF Progress, NoLostSuspend
    <3>7. CASE pc' = "idle"
      <4>1. r # 0
        BY <3>1, <3>7
      <4>2. CASE r = -1
        <5>1. Untimed(SuspendList, timed)' # {}
          BY <3>1, <3>3, <4>2, ScanResult DEF SuspendList
        <5> QED
          BY <3>4, <3>5, <5>1 DEF Progress, NoLostSuspend, SuspendList
      <4>3. CASE r > 0
        <5>1. Untimed(SuspendList, timed) = {} /\ Held # {}
          BY <3>1, <4>3, ScanResult DEF SuspendList
        <5>2. timer # -1
          BY <5>1, HeldMeansTimer
        <5> QED
          BY <3>2, <3>4, <3>5, <5>2 DEF Progress, NoLostSuspend
      <4> QED
        BY <4>1, <4>2, <4>3, TimeoutAssumption DEF Returns, TimeoutAssumption
    <3> QED
      BY <3>6, <3>7
  <2>13. CASE SuspendCompare
    <3>1. /\ UNCHANGED <<active, timed, left, timer, expiring, queued, event>>
          /\ Untimed(SuspendList, timed)' = Untimed(SuspendList, timed)
          /\ Held' = Held
      BY <2>13 DEF SuspendCompare, Untimed, SuspendList, Held
    <3>2. TimerRight'
      BY <3>1 DEF Progress, TimerRight, SuspendList
    <3>3. EventNotLost'
      BY <2>13 DEF SuspendCompare, EventNotLost
    <3>4. CASE Untimed(SuspendList, timed) = {} /\ Held # {}
      <4>1. timer' # -1
        BY <3>1, <3>4, HeldMeansTimer
      <4> QED
        BY <3>2, <3>3, <4>1 DEF Progress, NoLostSuspend
    <3>5. CASE Untimed(SuspendList, timed) # {} \/ Held = {}
      <4>1. NoLostSuspend'
        BY <2>13, <3>1, <3>5
        DEF SuspendCompare, Progress, EventNotLost, NoLostSuspend, SuspendList
      <4> QED
        BY <3>2, <3>3, <4>1 DEF Progress
    <3> QED
      BY <3>4, <3>5
  <2>14. CASE SuspendNoEvent
    BY <2>14, <2>4, LocksAssumption, TimeoutAssumption
    DEF SuspendNoEvent, LocksAssumption, TimeoutAssumption, Locks
  <2>15. CASE UNCHANGED vars
    BY <2>15, ProgressKept DEF vars, Held, SuspendList
  <2> QED
    BY <2>1, <2>2, <2>3, <2>5, <2>6, <2>7, <2>8, <2>9, <2>10, <2>11, <2>12,
       <2>13, <2>14, <2>15 DEF Next, Suspend
<1> QED
  BY <1>1, <1>2, TypeCorrect, PTL DEF Spec, Progress

(* No suspend is lost when the last lock is released or expires.           *)
THEOREM SuspendNotLost ==
    ASSUME DestroyHeld = {}
    PROVE  Spec => []NoLostSuspend
  BY ProgressMade, PTL

(* expire_timer does not fire before the last lock expires, nor in vain.   *)
THEOREM TimerIsRight ==
    ASSUME DestroyHeld = {}
    PROVE  Spec => []TimerRight
  BY ProgressMade, PTL

(* A main_wake_lock taken during pm_suspend leads to the next attempt.     *)
THEOREM EventIsNotLost ==
    ASSUME DestroyHeld = {}
    PROVE  Spec => []EventNotLost
  BY ProgressMade, PTL
-----------------------------------------------------------------------------
(* The locks a scan drops are not among those that keep the system awake.  *)
LEMMA DropHeld ==
    ASSUME NEW gone, NEW act, NEW tm, NEW lf \in [Locks -> 0..MaxTimeout],
           act \subseteq Locks,
           gone \cap tm \subseteq Expired(tm, lf), Drop(gone, act, tm, lf)
    PROVE  Held' \subseteq Charged(act, tm, lf) \ gone
<1> SUFFICES ASSUME NEW l \in Held' PROVE l \in Charged(act, tm, lf) \ gone
  OBVIOUS
<1>1. l \in act /\ l \notin gone /\ l \in SuspendLocks /\ l \in Locks
  BY DEF Drop, Held, Locks
<1>2. l \notin tm \/ lf[l] > 0
  BY <1>1 DEF Drop, Held
<1> QED
  BY <1>1, <1>2 DEF Charged, Expired

(* A lock that is taken is charged with the others, unless main is held.   *)
LEMMA LockCharges ==
    ASSUME TypeOK, PreventingExact, NEW l \in Locks, NEW tm, NEW lf,
           l \in IdleLocks =>
               Charged(active \cup {l}, tm, lf) \subseteq Held
    PROVE  IF Main \in active \cup {l}
           THEN ChargedAfterLock(l, tm, lf) = {}
           ELSE Charged(active \cup {l}, tm, lf) \subseteq ChargedAfterLock(l, tm, lf)
<1> DEFINE before == IF l \in Expired(timed, left) THEN preventing \ {l} ELSE preventing
<1>0. preventing \subseteq active \cap SuspendLocks /\ before \subseteq preventing
  BY DEF TypeOK
<1>1. CASE l \in IdleLocks
  <2>1. l \notin SuspendLocks /\ l # Main
    BY <1>1, LocksAssumption DEF LocksAssumption
  <2>2. ChargedAfterLock(l, tm, lf) = before /\ before = preventing
    BY <1>0, <1>1, <2>1 DEF ChargedAfterLock
  <2>3. CASE Main \in active
    BY <2>1, <2>2, <2>3 DEF PreventingExact
  <2>4. CASE Main \notin active
    BY <1>1, <2>1, <2>2, <2>4 DEF PreventingExact
  <2> QED
    BY <2>3, <2>4
<1>2. CASE l \notin IdleLocks /\ l = Main
  <2>1. ChargedAfterLock(l, tm, lf) = before \ active
    BY <1>2 DEF ChargedAfterLock
  <2> QED
    BY <1>0, <1>2, <2>1
<1>3. CASE l \notin IdleLocks /\ l # Main
  <2>1. ChargedAfterLock(l, tm, lf) =
           IF Main \in active THEN before ELSE Charged(active \cup {l}, tm, lf)
    BY <1>3 DEF ChargedAfterLock
  <2> QED
    BY <1>0, <1>3, <2>1 DEF PreventingExact
<1> QED
  BY <1>1, <1>2, <1>3

(* The time awake is charged to nobody while main is held, and to every    *)
(* lock that keeps the system awake otherwise (wake_lock_internal,         *)
(* wake_unlock and update_sleep_wait_stats_locked).                        *)
THEOREM ChargesAreRight == Spec => []PreventingExact
<1>1. ASSUME Init PROVE PreventingExact
  BY <1>1 DEF Init, PreventingExact
<1>2. TypeOK /\ PreventingExact /\ [Next]_vars => PreventingExact'
  <2> SUFFICES ASSUME TypeOK, PreventingExact, [Next]_vars PROVE PreventingExact'
    OBVIOUS
  <2> USE DEF lockVars
  <2>0. /\ active \subseteq Locks /\ timed \subseteq active /\ Main \notin timed
        /\ left \in [Locks -> 0..MaxTimeout]
        /\ preventing \subseteq active \cap SuspendLocks
    BY DEF TypeOK
  <2>1. ASSUME UNCHANGED <<active, timed, left, preventing>> PROVE PreventingExact'
    BY <2>1 DEF PreventingExact, Held
  <2>2. ASSUME NEW l \in Locks, wake_lock_destroy(l) PROVE PreventingExact'
    <3>1. /\ l # Main /\ active' = active \ {l} /\ timed' = timed \ {l}
          /\ left' = [k \in Locks |-> IF k = l THEN 0 ELSE left[k]]
          /\ preventing' = preventing \ {l}
      BY <2>2 DEF wake_lock_destroy, Drop
    <3>2. Held' \subseteq Held \ {l}
      BY <2>0, <3>1 DEF Held
    <3> QED
      BY <3>1, <3>2 DEF PreventingExact
  <2>3. ASSUME NEW l \in Locks, wake_lock(l) PROVE PreventingExact'
    <3> DEFINE tm == timed \ {l}
               lf == [left EXCEPT ![l] = 0]
    <3>1. /\ active' = active \cup {l} /\ timed' = tm /\ left' = lf
          /\ preventing' = ChargedAfterLock(l, tm, lf)
      BY <2>3 DEF wake_lock
    <3>2. l \in IdleLocks => Charged(active \cup {l}, tm, lf) \subseteq Held
      <4> SUFFICES ASSUME l \in IdleLocks, NEW k \in Charged(active \cup {l}, tm, lf)
                   PROVE  k \in Held
        OBVIOUS
      <4>1. k \in active /\ k \in SuspendLocks /\ k # l /\ k \in Locks
        BY <2>0, LocksAssumption DEF Charged, LocksAssumption
      <4>2. k \notin timed \/ lf[k] # 0
        BY <4>1 DEF Charged, Expired
      <4>3. lf[k] = left[k] /\ left[k] \in 0..MaxTimeout
        BY <2>0, <4>1
      <4> QED
        BY <4>1, <4>2, <4>3, TimeoutAssumption DEF Held, TimeoutAssumption
    <3>3. Held' \subseteq Charged(active \cup {l}, tm, lf)
      <4> SUFFICES ASSUME NEW k \in Held' PROVE k \in Charged(active \cup {l}, tm, lf)
        OBVIOUS
      <4>1. k \in active \cup {l} /\ k \in SuspendLocks /\ (k \notin tm \/ lf[k] > 0)
        BY <3>1 DEF Held
      <4> QED
        BY <4>1 DEF Charged, Expired
    <3> HIDE DEF tm, lf
    <3>4. IF Main \in active \cup {l}
          THEN ChargedAfterLock(l, tm, lf) = {}
          ELSE Charged(active \cup {l}, tm, lf) \subseteq ChargedAfterLock(l, tm, lf)
      BY <3>2, LockCharges
    <3> QED
      BY <3>1, <3>3, <3>4 DEF PreventingExact
  <2>4. ASSUME NEW l \in Locks \ {Main}, NEW timeout \in 0..MaxTimeout,
               LockTimeout(l, timeout)
        PROVE  PreventingExact'
    <3> DEFINE act == active \cup {l}
               tm == timed \cup {l}
               lf == [left EXCEPT ![l] = timeout]
               gone == IF l \in SuspendLocks
                       THEN ExpiredByScan(act \cap SuspendLocks, tm, lf) ELSE {}
    <3>1. Drop(gone, act, tm, lf) /\ preventing' = ChargedAfterLock(l, tm, lf) \ gone
      BY <2>4 DEF LockTimeout
    <3>2. l \in IdleLocks => Charged(act, tm, lf) \subseteq Held
      <4> SUFFICES ASSUME l \in IdleLocks, NEW k \in Charged(act, tm, lf)
                   PROVE  k \in Held
        OBVIOUS
      <4>1. k \in active /\ k \in SuspendLocks /\ k # l /\ k \in Locks
        BY <2>0, LocksAssumption DEF Charged, LocksAssumption
      <4>2. k \notin timed \/ lf[k] # 0
        BY <4>1 DEF Charged, Expired
      <4>3. lf[k] = left[k] /\ left[k] \in 0..MaxTimeout
        BY <2>0, <4>1
      <4> QED
        BY <4>1, <4>2, <4>3, TimeoutAssumption DEF Held, TimeoutAssumption
    <3>3. gone \subseteq Expired(tm, lf)
      BY DEF ExpiredByScan
    <3>4. act \subseteq Locks /\ lf \in [Locks -> 0..MaxTimeout]
      BY <2>0
    <3>5. active' = act \ gone
      BY <3>1 DEF Drop
    <3>6. Main \in active' => Main \in act
      BY <3>5
    <3> HIDE DEF gone, tm, lf
    <3>7. Held' \subseteq Charged(act, tm, lf) \ gone
      BY <3>1, <3>3, <3>4, DropHeld
    <3>8. IF Main \in act
          THEN ChargedAfterLock(l, tm, lf) = {}
          ELSE Charged(act, tm, lf) \subseteq ChargedAfterLock(l, tm, lf)
      BY <3>2, LockCharges
    <3>9. Main \notin gone
      BY <2>0, <3>3 DEF Expired, tm
    <3> QED
      BY <3>1, <3>5, <3>6, <3>7, <3>8, <3>9 DEF PreventingExact
  <2>5. ASSUME NEW l \in Locks, NEW timeout \in 0..MaxTimeout, wake_lock_timeout(l, timeout)
        PROVE  PreventingExact'
    BY <2>4, <2>5 DEF wake_lock_timeout
  <2>6. ASSUME NEW l \in Locks, wake_unlock(l) PROVE PreventingExact'
    <3> DEFINE act == active \ {l}
               tm == timed \ {l}
               lf == [left EXCEPT ![l] = 0]
               gone == IF l \in SuspendLocks
                       THEN ExpiredByScan(act \cap SuspendLocks, tm, lf) ELSE {}
    <3>1. /\ Drop(gone, act, tm, lf)
          /\ preventing' = IF l = Main THEN Charged(act \ gone, tm \ gone, lf)
                           ELSE preventing \ (gone \cup {l})
      BY <2>6 DEF wake_unlock
    <3>2. gone \subseteq Expired(tm, lf)
      BY DEF ExpiredByScan
    <3>3. act \subseteq Locks /\ lf \in [Locks -> 0..MaxTimeout]
      BY <2>0, TimeoutAssumption DEF TimeoutAssumption
    <3>4. active' = act \ gone
      BY <3>1 DEF Drop
    <3>5. CASE l = Main
      <4>1. Main \notin active'
        BY <3>4, <3>5
      <4>2. Held' \subseteq Charged(act \ gone, tm \ gone, lf)
        <5> SUFFICES ASSUME NEW k \in Held'
                     PROVE  k \in Charged(act \ gone, tm \ gone, lf)
          OBVIOUS
        <5> HIDE DEF gone
        <5>1. /\ k \in act \ gone /\ k \in SuspendLocks /\ k \in Locks
              /\ k \notin tm \ gone \/ lf[k] > 0
          BY <3>1 DEF Held, Drop, Locks
        <5> QED
          BY <5>1 DEF Charged, Expired
      <4> QED
        BY <3>1, <3>5, <4>1, <4>2 DEF PreventingExact
    <3>6. CASE l # Main
      <4>1. Held' \subseteq Held \ (gone \cup {l})
        <5> SUFFICES ASSUME NEW k \in Held' PROVE k \in Held \ (gone \cup {l})
          OBVIOUS
        <5> HIDE DEF gone
        <5>1. /\ k \in act \ gone /\ k \in SuspendLocks /\ k \in Locks
              /\ k \notin tm \ gone \/ lf[k] > 0
          BY <3>1 DEF Held, Drop, Locks
        <5>2. k # l /\ lf[k] = left[k]
          BY <2>0, <5>1
        <5> QED
          BY <5>1, <5>2 DEF Held
      <4>2. Main \notin gone
        BY <2>0, <3>2 DEF Expired
      <4> HIDE DEF gone
      <4>3. Main \in active' <=> Main \in active
        BY <3>4, <3>6, <4>2
      <4> QED
        BY <3>1, <3>6, <4>1, <4>3 DEF PreventingExact
    <3> QED
      BY <3>5, <3>6
  <2>7. ASSUME NEW r \in Returns,
               NEW list \in {active \cap SuspendLocks, active \cap IdleLocks}, Scan(list, r)
        PROVE  PreventingExact'
    <3> DEFINE gone == ExpiredByScan(list, timed, left)
    <3>1. gone \subseteq Expired(timed, left)
      BY DEF ExpiredByScan
    <3>2. Drop(gone, active, timed, left) /\ preventing' = preventing \ gone
      BY <2>7 DEF Scan
    <3> HIDE DEF gone
    <3>3. Main \notin gone
      BY <2>0, <3>1 DEF Expired
    <3>4. Held' = Held /\ Held' \cap gone = {}
      <4>1. Held' = Held
        BY <2>7, ScanKeeps
      <4>2. Held' \cap gone = {}
        BY <3>2 DEF Drop, Held
      <4> QED
        BY <4>1, <4>2
    <3>5. Main \in active' <=> Main \in active
      BY <3>2, <3>3 DEF Drop
    <3> QED
      BY <3>2, <3>4, <3>5 DEF PreventingExact
  <2>8. CASE Tick
    <3>1. /\ UNCHANGED <<active, timed, preventing>>
          /\ left' = [l \in Locks |-> IF left[l] > 0 THEN left[l] - 1 ELSE 0]
      BY <2>8 DEF Tick
    <3>2. Held' \subseteq Held
      BY <2>0, <3>1, TimeoutAssumption DEF Held, TimeoutAssumption
    <3> QED
      BY <3>1, <3>2 DEF PreventingExact
  <2>9. CASE \/ \E l \in Locks : wake_lock_init(l)
             \/ TimerFires \/ SuspendStart \/ SuspendSnapshot \/ PmSuspendFails
             \/ SuspendCompare \/ WakeUp \/ UNCHANGED vars
    <3>1. UNCHANGED <<active, timed, left, preventing>>
      BY <2>9 DEF wake_lock_init, TimerFires, SuspendStart, SuspendSnapshot,
                 PmSuspendFails, SuspendCompare, WakeUp, vars
    <3> QED
      BY <2>1, <3>1
  <2>10. CASE \/ \E list \in {active \cap SuspendLocks, active \cap IdleLocks} :
                    has_wake_lock(list)
              \/ expire_wake_locks \/ SuspendCheck \/ power_suspend_late
    <3>1. PICK r \in Returns, list \in {active \cap SuspendLocks, active \cap IdleLocks} :
             Scan(list, r)
      BY <2>10 DEF has_wake_lock, expire_wake_locks, SuspendCheck, power_suspend_late
    <3> QED
      BY <2>7, <3>1
  <2>11. CASE SuspendNoEvent
    BY <2>4, <2>11, LocksAssumption, TimeoutAssumption
    DEF SuspendNoEvent, LocksAssumption, TimeoutAssumption, Locks
  <2> QED
    BY <2>2, <2>3, <2>5, <2>6, <2>8, <2>9, <2>10, <2>11 DEF Next, Suspend
<1> QED
  BY <1>1, <1>2, TypeCorrect, PTL DEF Spec
=============================================================================
