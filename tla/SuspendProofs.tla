--------------------------- MODULE SuspendProofs ---------------------------
(***************************************************************************)
(* Proofs about two parts of a suspend that share nothing but its order:   *)
(* the freezer, for any sets of tasks and any finite set of requests for   *)
(* helpers; and the alarms, for any set of alarm types, any times, any     *)
(* jumps of the wall clock, and any number of suspends.                    *)
(***************************************************************************)
EXTENDS Freezer, Alarm, FiniteSetTheorems, TLAPS

-----------------------------------------------------------------------------
(* The freezer.                                                            *)

(* What TypeOK says of the tasks, and that a vfork parent waits for one    *)
(* child only ...                                                          *)
TasksOK ==
    /\ asked \subseteq Alive
    /\ frozen \subseteq Alive
    /\ asked \cap frozen = {}
    /\ at \in [Tasks -> UserPlaces \cup KernelPlaces]
    /\ \A t \in UserTasks : at[t] \in UserPlaces
    /\ \A t \in KernelTasks : at[t] \in KernelPlaces
    /\ \A t \in frozen : at[t] = "ice"
    /\ tell \in [UserTasks -> SUBSET UserTasks]
    /\ \A t \in UserTasks : \A p \in tell[t] : at[p] = "vfork"
    /\ \A t, u \in UserTasks : t # u => tell[t] \cap tell[u] = {}

(* ... of the suspending thread ...                                        *)
PassOK ==
    /\ pc \in {"idle", "helpers", "scan", "decide", "cancel", "frozen",
               "thaw_kernel", "thaw_user", "enable"}
    /\ pass \in {"user", "all"}
    /\ todo \in BOOLEAN

(* ... and of the helpers, with what running_helpers counts.               *)
Counted ==
    {r \in Requests : \/ request[r] = "locked"
                      \/ request[r] \in {"queued", "spawned"} /\ Waits[r] # "nothing"
                      \/ request[r] = "user" /\ Waits[r] = "exit"}

HelpersOK ==
    /\ disabled \in BOOLEAN
    /\ request \in [Requests -> {"none", "locked", "queued", "spawned", "user"}]
    /\ running = Cardinality(Counted)

TaskStep(t) ==
    /\ \/ t \in UserTasks /\ (UserStep(t) \/ EnterSyscall(t) \/ Stops(t) \/ Continues(t))
       \/ t \in KernelTasks /\ ThreadStep(t)
       \/ refrigerator(t) \/ LeavesRefrigerator(t) \/ SleepEnds(t)

(* The three kinds of steps and what each leaves alone.                    *)
LEMMA StepKinds ==
    ASSUME [Next]_vars
    PROVE  \/ \E t \in Tasks : TaskStep(t) /\ UNCHANGED passVars /\ UNCHANGED helperVars
           \/ usermodehelper_disable
           \/ Suspender
           \/ /\ \E r \in Requests : helper_lock(r) \/ HelperStep(r) \/ HelperExits(r)
              /\ UNCHANGED taskVars /\ UNCHANGED passVars
           \/ UNCHANGED vars
<1>1. ASSUME NEW t \in Tasks, Runs(t) \/ MayDo(t)
      PROVE  TaskStep(t) /\ UNCHANGED passVars /\ UNCHANGED helperVars
  BY <1>1, Zenon DEF Runs, MayDo, TaskStep
<1>2. ASSUME NEW r \in Requests, helper_lock(r) \/ HelperStep(r) \/ HelperExits(r)
      PROVE  UNCHANGED taskVars /\ UNCHANGED passVars
  BY <1>2, Zenon DEF helper_lock, HelperStep, HelperExits, HelperMoves, call_usermodehelper_exec,
     __call_usermodehelper, kernel_execve
<1> QED
  BY <1>1, <1>2, Zenon DEF Next

(* A step of a task keeps the types of the tasks.                          *)
LEMMA TaskTypes ==
    ASSUME TasksOK, NEW t \in Tasks, TaskStep(t)
    PROVE  TasksOK'
<1> USE TasksAssumption DEF TasksOK, TasksAssumption, Tasks, Alive, Moves, UserPlaces, KernelPlaces, Back
<1>1. ASSUME t \in UserTasks,
             EnterSyscall(t) \/ SyscallReturns(t) \/ SyscallSleeps(t) \/ Stops(t) \/ Continues(t)
             \/ freezer_count(t) \/ try_to_freeze(t)
      PROVE  TasksOK'
  BY <1>1 DEF EnterSyscall, SyscallReturns, SyscallSleeps, Stops, Continues, freezer_count,
              try_to_freeze
<1>2. ASSUME SleepEnds(t) PROVE TasksOK'
  BY <1>2 DEF SleepEnds
<1>3. ASSUME t \in UserTasks, SyscallBlocks(t) PROVE TasksOK'
  <2>1. /\ \A u \in UserTasks : at'[u] = IF u = t THEN "blocked" ELSE at[u]
        /\ \A u \in KernelTasks : at'[u] = at[u] \/ (at[u] = "sleep" /\ at'[u] = "run")
        /\ DOMAIN at' = Tasks /\ at' = [u \in Tasks |-> at'[u]]
    BY <1>3 DEF SyscallBlocks
  <2> QED
    BY <1>3, <2>1 DEF SyscallBlocks
<1>4. ASSUME t \in UserTasks, NEW place \in {"user", "none"}, mm_release(t, place) PROVE TasksOK'
  <2>1. /\ at' = [u \in Tasks |-> at'[u]] /\ at'[t] = place
        /\ \A u \in tell[t] \ {t} : at'[u] = "woken"
        /\ \A u \in Tasks : u # t /\ u \notin tell[t] => at'[u] = at[u]
    BY <1>4 DEF mm_release
  <2>2. /\ tell' \in [UserTasks -> SUBSET UserTasks]
        /\ tell'[t] = {}
        /\ \A u \in UserTasks \ {t} : tell'[u] = tell[u]
    BY <1>4 DEF mm_release
  <2>3. /\ at[t] = "syscall" /\ frozen' = frozen
        /\ asked' = IF place = "none" THEN asked \ {t} ELSE asked
    BY <1>4 DEF mm_release
  <2>4. \A u \in UserTasks : \A p \in tell'[u] : at'[p] = "vfork"
    BY <2>1, <2>2, <2>3
  <2>5. at' \in [Tasks -> UserPlaces \cup KernelPlaces]
    BY <2>1
  <2>6. /\ \A u \in UserTasks : at'[u] \in UserPlaces
        /\ \A u \in KernelTasks : at'[u] \in KernelPlaces
    BY <1>4, <2>1
  <2>7. frozen' \subseteq Alive' /\ \A u \in frozen' : at'[u] = "ice"
    BY <2>1, <2>3
  <2>8. asked' \subseteq Alive'
    BY <2>1, <2>3
  <2> QED
    BY <2>2, <2>3, <2>4, <2>5, <2>6, <2>7, <2>8
<1>5. ASSUME t \in UserTasks, NEW child \in UserTasks \ {t}, NEW vfork \in BOOLEAN,
             do_fork(t, child, vfork)
      PROVE  TasksOK'
  <2>1. /\ at' = [u \in Tasks |-> at'[u]] /\ at'[t] \in {"vfork", "user"} /\ at'[child] = "user"
        /\ vfork => at'[t] = "vfork"
        /\ \A u \in Tasks : u # t /\ u # child => at'[u] = at[u]
        /\ at[t] = "syscall" /\ at[child] = "none"
    BY <1>5 DEF do_fork
  <2>2. /\ tell' \in [UserTasks -> SUBSET UserTasks]
        /\ tell'[child] = IF vfork THEN {t} ELSE {}
        /\ \A u \in UserTasks \ {child} : tell'[u] = tell[u]
    BY <1>5 DEF do_fork
  <2>3. /\ \A u \in UserTasks : \A p \in tell'[u] : at'[p] = "vfork"
        /\ \A u, v \in UserTasks : u # v => tell'[u] \cap tell'[v] = {}
    BY <2>1, <2>2
  <2>4. asked' = asked /\ frozen' = frozen
    BY <1>5 DEF do_fork
  <2>5. at' \in [Tasks -> UserPlaces \cup KernelPlaces]
    BY <2>1
  <2>6. /\ \A u \in UserTasks : at'[u] \in UserPlaces
        /\ \A u \in KernelTasks : at'[u] \in KernelPlaces
    BY <2>1
  <2>7. asked' \subseteq Alive' /\ frozen' \subseteq Alive' /\ \A u \in frozen' : at'[u] = "ice"
    BY <2>1, <2>4
  <2> QED
    BY <2>2, <2>3, <2>4, <2>5, <2>6, <2>7
<1>6. ASSUME t \in KernelTasks, ThreadChecks(t) \/ ThreadSleeps(t) PROVE TasksOK'
  BY <1>6 DEF ThreadChecks, ThreadSleeps
<1>7. ASSUME t \in KernelTasks, ThreadWorks(t) PROVE TasksOK'
  <2>1. /\ at' = [u \in Tasks |-> at'[u]] /\ at'[t] = "run"
        /\ \A u \in UserTasks : at'[u] = at[u] \/ (at[u] = "blocked" /\ at'[u] = "user")
        /\ \A u \in KernelTasks \ {t} : at'[u] = at[u]
    BY <1>7 DEF ThreadWorks, Blocked
  <2> QED
    BY <1>7, <2>1 DEF ThreadWorks
<1>8. ASSUME refrigerator(t) PROVE TasksOK'
  BY <1>8 DEF refrigerator
<1>9. ASSUME LeavesRefrigerator(t) PROVE TasksOK'
  BY <1>9 DEF LeavesRefrigerator
<1> QED
  BY <1>1, <1>2, <1>3, <1>4, <1>5, <1>6, <1>7, <1>8, <1>9, Zenon
  DEF TaskStep, UserStep, ThreadStep

(* So does the suspending thread.                                          *)
LEMMA SuspenderTypes ==
    ASSUME TasksOK, PassOK, usermodehelper_disable \/ Suspender
    PROVE  TasksOK' /\ PassOK'
<1> USE DEF PassOK, taskVars
<1>1. ASSUME \/ usermodehelper_disable \/ HelpersDone \/ HelpersTimeout \/ Decide \/ GiveUp
             \/ Resume \/ usermodehelper_enable
      PROVE  UNCHANGED taskVars /\ PassOK'
  <2>1. UNCHANGED taskVars
    BY <1>1, Zenon DEF usermodehelper_disable, HelpersDone, HelpersTimeout, Decide, GiveUp, Resume,
       usermodehelper_enable
  <2>2. PassOK'
    BY <1>1 DEF usermodehelper_disable, HelpersDone, HelpersTimeout, Decide, GiveUp, Resume,
       usermodehelper_enable
  <2> QED
    BY <2>1, <2>2
<1>2. ASSUME UNCHANGED taskVars PROVE TasksOK'
  BY <1>2 DEF TasksOK, Alive
<1>3. CASE Scan
  <2>1. PassOK'
    BY <1>3 DEF Scan
  <2>2. /\ at' = [u \in Tasks |-> at'[u]]
        /\ \A u \in Tasks : at'[u] = at[u] \/ (at[u] = "sleep" /\ at'[u] = Back(u))
    BY <1>3 DEF Scan
  <2>3. /\ asked' = asked \cup Asking /\ frozen' = frozen /\ tell' = tell
        /\ Asking \subseteq Alive \ frozen
    BY <1>3 DEF Scan, Asking
  <2>4. TasksOK'
    BY <2>2, <2>3, TasksAssumption
    DEF TasksOK, TasksAssumption, Tasks, Alive, Back, UserPlaces, KernelPlaces
  <2> QED
    BY <2>1, <2>4
<1>4. CASE cancel_freezing
  BY <1>4 DEF cancel_freezing, TasksOK, Alive
<1>5. CASE thaw_processes
  BY <1>5 DEF thaw_processes, thaw_tasks, TasksOK, Alive
<1> QED
  BY <1>1, <1>2, <1>3, <1>4, <1>5, Zenon DEF Suspender
-----------------------------------------------------------------------------
StillHeld(tasks) == \A t \in tasks \cap Alive : Stopped(t)

(* While user space is held no task starts another one, and none of those  *)
(* held goes anywhere but into the refrigerator.                           *)
LEMMA HeldStay ==
    ASSUME TasksOK, NEW tasks \in {UserTasks, Tasks}, StillHeld(tasks),
           NEW t \in Tasks, TaskStep(t)
    PROVE  StillHeld(tasks)'
<1> USE TasksAssumption DEF TasksOK, TasksAssumption, Tasks, Alive, Moves, StillHeld, Stopped
<1>1. Blocked = {}
  BY DEF Blocked
<1>2. ASSUME t \in UserTasks,
             \/ EnterSyscall(t) \/ SyscallReturns(t) \/ SyscallSleeps(t) \/ SyscallBlocks(t)
             \/ Stops(t) \/ try_to_freeze(t) \/ SleepEnds(t)
             \/ \E place \in {"user", "none"} : mm_release(t, place)
             \/ \E child \in UserTasks \ {t} : \E vfork \in BOOLEAN : do_fork(t, child, vfork)
      PROVE  FALSE
  <2>1. at[t] \in {"user", "syscall", "sleep"}
    BY <1>2, Zenon DEF EnterSyscall, SyscallReturns, SyscallSleeps, SyscallBlocks, Stops, try_to_freeze,
       SleepEnds, mm_release, do_fork
  <2> QED
    BY <1>2, <2>1
<1>3. ASSUME t \in UserTasks, Continues(t) \/ freezer_count(t) PROVE StillHeld(tasks)'
  BY <1>3 DEF Continues, freezer_count
<1>4. ASSUME t \in KernelTasks, ThreadStep(t) \/ SleepEnds(t) PROVE StillHeld(tasks)'
  <2>1. /\ at[t] \in {"run", "checked", "sleep"} /\ frozen' = frozen /\ asked' = asked
        /\ \A u \in Tasks \ {t} : at'[u] = at[u]
    BY <1>1, <1>4 DEF ThreadStep, ThreadChecks, ThreadSleeps, ThreadWorks, SleepEnds
  <2>2. ~Stopped(t) /\ t \in Alive
    BY <2>1
  <2>3. tasks = UserTasks
    BY <1>4, <2>2
  <2> QED
    BY <1>4, <2>1, <2>3
<1>5. ASSUME refrigerator(t) PROVE StillHeld(tasks)'
  BY <1>5 DEF refrigerator
<1>6. ASSUME LeavesRefrigerator(t) PROVE StillHeld(tasks)'
  BY <1>6 DEF LeavesRefrigerator
<1> QED
  BY <1>2, <1>3, <1>4, <1>5, <1>6, Zenon DEF TaskStep, UserStep

(* What the passes have achieved: user space is held from the end of the   *)
(* first one on, everybody from the end of the second; a kernel thread is  *)
(* asked in the second only; and nothing is left behind.                   *)
Holding ==
    /\ \/ pass = "all" /\ pc \in {"scan", "decide", "cancel", "frozen"}
       \/ pc = "decide" /\ ~todo
       => StillHeld(UserTasks)
    /\ \/ pc = "frozen"
       \/ pc = "decide" /\ ~todo /\ pass = "all"
       => StillHeld(Tasks)
    /\ (asked \cup frozen) \cap KernelTasks # {} =>
         \/ pass = "all" /\ pc \in {"scan", "decide", "cancel", "frozen"}
         \/ pc = "thaw_kernel"
    /\ NothingLeftFrozen

TypeInv == TasksOK /\ PassOK
Inv == TypeInv /\ Holding

LEMMA Initially == Init => Inv
<1> SUFFICES ASSUME Init PROVE Inv
  OBVIOUS
<1>1. TasksOK
  BY TasksAssumption DEF Init, TasksOK, Alive, Tasks, UserPlaces, KernelPlaces, TasksAssumption
<1>2. PassOK
  BY DEF Init, PassOK
<1>3. Holding
  BY DEF Init, Holding, NothingLeftFrozen
<1> QED
  BY <1>1, <1>2, <1>3 DEF Inv, TypeInv

(* A task that is asked stays asked until it is frozen: no step of a task  *)
(* asks or freezes one that was left alone.                                *)
LEMMA TasksAskNobody ==
    ASSUME NEW t \in Tasks, TaskStep(t)
    PROVE  asked' \cup frozen' \subseteq asked \cup frozen
<1>1. ASSUME refrigerator(t) PROVE asked' \cup frozen' \subseteq asked \cup frozen
  BY <1>1 DEF refrigerator
<1>2. ASSUME \/ LeavesRefrigerator(t) \/ SleepEnds(t) \/ EnterSyscall(t) \/ Stops(t)
             \/ Continues(t) \/ ThreadStep(t) \/ UserStep(t)
      PROVE  frozen' = frozen /\ asked' \subseteq asked
  BY <1>2 DEF LeavesRefrigerator, SleepEnds, EnterSyscall, Stops, Continues, ThreadStep,
     ThreadChecks, ThreadSleeps, ThreadWorks, UserStep, SyscallReturns, SyscallSleeps,
     SyscallBlocks, try_to_freeze, freezer_count, mm_release, do_fork
<1> QED
  BY <1>1, <1>2, Zenon DEF TaskStep

(* Every step keeps the invariant.                                         *)
LEMMA InvKept == Inv /\ [Next]_vars => Inv'
<1> SUFFICES ASSUME Inv, [Next]_vars PROVE Inv'
  OBVIOUS
<1> USE DEF Inv, TypeInv
<1>1. ASSUME NEW t \in Tasks, TaskStep(t), UNCHANGED passVars PROVE Inv'
  <2>1. TasksOK' /\ PassOK'
    BY <1>1, TaskTypes DEF passVars, PassOK
  <2>2. pc' = pc /\ pass' = pass /\ todo' = todo
    BY <1>1 DEF passVars
  <2>3. \A tasks \in {UserTasks, Tasks} : StillHeld(tasks) => StillHeld(tasks)'
    BY <1>1, HeldStay
  <2>4. asked' \cup frozen' \subseteq asked \cup frozen
    BY <1>1, TasksAskNobody
  <2>5. Holding'
    <3> HIDE DEF Inv, TypeInv
    <3>1. Holding
      BY DEF Inv
    <3> QED
      BY <2>2, <2>3, <2>4, <3>1 DEF Holding, NothingLeftFrozen
  <2> QED
    BY <2>1, <2>5
<1>2. CASE UNCHANGED taskVars /\ UNCHANGED passVars
  BY <1>2 DEF taskVars, passVars, TasksOK, PassOK, Holding, NothingLeftFrozen, StillHeld, Stopped, Alive
<1>3. CASE usermodehelper_disable \/ Suspender
  <2>1. TypeInv'
    BY <1>3, SuspenderTypes
  <2>2. ASSUME \/ usermodehelper_disable \/ HelpersDone \/ HelpersTimeout \/ Decide \/ GiveUp
               \/ Resume \/ usermodehelper_enable
        PROVE  Holding'
    <3>1. UNCHANGED <<asked, frozen, at>>
      BY <2>2, Zenon DEF usermodehelper_disable, HelpersDone, HelpersTimeout, Decide, GiveUp, Resume,
         usermodehelper_enable, taskVars
    <3>2. \A tasks \in {UserTasks, Tasks} : StillHeld(tasks)' = StillHeld(tasks)
      BY <3>1 DEF StillHeld, Stopped, Alive
    <3>3. /\ StillHeld(UserTasks)' = StillHeld(UserTasks) /\ StillHeld(Tasks)' = StillHeld(Tasks)
          /\ asked' = asked /\ frozen' = frozen
      BY <3>1, <3>2
    <3>4. Holding /\ PassOK
      OBVIOUS
    <3> HIDE DEF Inv, TypeInv
    <3>5. CASE usermodehelper_disable \/ HelpersDone \/ HelpersTimeout \/ usermodehelper_enable
      BY <3>3, <3>4, <3>5 DEF usermodehelper_disable, HelpersDone, HelpersTimeout,
         usermodehelper_enable, Holding, NothingLeftFrozen
    <3>6. CASE Decide
      <4>1. CASE todo
        <5>1. pc = "decide" /\ pc' = "scan" /\ pass' = pass
          BY <3>6, <4>1 DEF Decide
        <5> QED
          BY <3>3, <3>4, <5>1 DEF Holding, NothingLeftFrozen
      <4>2. CASE ~todo /\ pass = "user"
        <5>1. pc = "decide" /\ pc' = "scan" /\ pass' = "all"
          BY <3>6, <4>2 DEF Decide
        <5> QED
          BY <3>3, <3>4, <4>2, <5>1 DEF Holding, NothingLeftFrozen
      <4>3. CASE ~todo /\ pass = "all"
        <5>1. pc = "decide" /\ pc' = "frozen" /\ pass' = "all"
          BY <3>6, <4>3 DEF Decide
        <5> QED
          BY <3>3, <3>4, <4>3, <5>1 DEF Holding, NothingLeftFrozen
      <4> QED
        BY <3>4, <4>1, <4>2, <4>3 DEF PassOK
    <3>7. CASE GiveUp \/ Resume
      BY <3>3, <3>4, <3>7 DEF GiveUp, Resume, Holding, NothingLeftFrozen
    <3> QED
      BY <2>2, <3>5, <3>6, <3>7
  <2>3. CASE Scan
    <3>1. /\ pc = "scan" /\ pc' = "decide" /\ pass' = pass /\ frozen' = frozen
          /\ asked' = asked \cup Asking
          /\ todo' = \E t \in Asking : ~(task_is_stopped_or_traced(t) \/ freezer_should_skip(t))
          /\ \A u \in Tasks : at'[u] = at[u] \/ (at[u] = "sleep" /\ at'[u] = Back(u) /\ u \in Asking)
      BY <2>3 DEF Scan
    <3>2. ASSUME NEW tasks \in {UserTasks, Tasks}, ~todo', Asking = (tasks \cap Alive) \ frozen
          PROVE  StillHeld(tasks)'
      <4>1. \A u \in Asking : at[u] \in {"stopped", "vfork", "woken"}
        BY <3>1, <3>2 DEF task_is_stopped_or_traced, freezer_should_skip
      <4>2. \A u \in Tasks : at'[u] = at[u]
        BY <3>1, <4>1
      <4> QED
        BY <3>1, <3>2, <4>1, <4>2 DEF StillHeld, Stopped, Alive, Tasks
    <3>3. ASSUME StillHeld(UserTasks) PROVE StillHeld(UserTasks)'
      <4>1. \A u \in UserTasks : at[u] # "sleep"
        BY <3>3 DEF StillHeld, Stopped, Alive, Tasks, TasksOK
      <4> QED
        BY <3>1, <3>3, <4>1 DEF StillHeld, Stopped, Alive, Tasks
    <3>4. Asking = ((IF pass = "user" THEN UserTasks ELSE Tasks) \cap Alive) \ frozen
      BY DEF Asking
    <3>5. pass = "user" => Asking \cap KernelTasks = {}
      BY <3>4, TasksAssumption DEF TasksAssumption
    <3>6. ~todo' /\ pass = "all" => StillHeld(UserTasks)'
      BY <3>2, <3>4, <3>3, <3>1 DEF Holding
    <3>7. Holding'
      BY <3>1, <3>2, <3>3, <3>4, <3>5, <3>6 DEF Holding, NothingLeftFrozen, PassOK
    <3> QED
      BY <2>1, <3>7
  <2>4. CASE cancel_freezing
    <3>1. Holding'
      BY <2>4 DEF cancel_freezing, Holding, NothingLeftFrozen
    <3> QED
      BY <2>1, <3>1
  <2>5. CASE thaw_processes
    <3>1. Holding'
      BY <2>5 DEF thaw_processes, thaw_tasks, Holding, NothingLeftFrozen, TasksOK, Alive
    <3> QED
      BY <2>1, <3>1
  <2> QED
    BY <1>3, <2>1, <2>2, <2>3, <2>4, <2>5, Zenon DEF Suspender
<1> QED
  BY <1>1, <1>2, <1>3, StepKinds DEF vars, taskVars, passVars

LEMMA Invariant == Spec => []Inv
<1> QED
  BY Initially, InvKept, PTL DEF Spec

(* No way out of a suspend, completed or aborted in either pass, leaves a  *)
(* task frozen or asked to freeze.                                         *)
THEOREM EverybodyThawed == Spec => []NothingLeftFrozen
<1>1. Inv => NothingLeftFrozen
  BY DEF Inv, Holding
<1> QED
  BY <1>1, Invariant, PTL

(* freeze_processes() returns 0 only when every task is stopped.           *)
THEOREM FreezeIsComplete == Spec => []FrozenMeansStopped
<1>1. Inv => FrozenMeansStopped
  BY DEF Inv, Holding, FrozenMeansStopped, StillHeld, Alive
<1> QED
  BY <1>1, Invariant, PTL

(* No user task waits for a kernel thread that is frozen, but in the one   *)
(* step after an abort.                                                    *)
THEOREM FrozenOwesNothing == Spec => []NobodyWaitsForFrozen
<1>1. Inv => NobodyWaitsForFrozen
  <2> SUFFICES ASSUME Inv, NEW u \in Blocked, NEW k \in frozen \cap KernelTasks, pc # "thaw_kernel"
               PROVE  FALSE
    BY DEF NobodyWaitsForFrozen
  <2>1. StillHeld(UserTasks)
    BY DEF Inv, Holding
  <2>2. u \in UserTasks \cap Alive /\ at[u] = "blocked"
    BY DEF Blocked, Alive, Tasks
  <2>3. Stopped(u)
    BY <2>1, <2>2 DEF StillHeld
  <2> QED
    BY <2>2, <2>3 DEF Stopped, Inv, TypeInv, TasksOK
<1> QED
  BY <1>1, Invariant, PTL
-----------------------------------------------------------------------------
(* A request moves on and the counter follows.                             *)
LEMMA CountFollows ==
    ASSUME HelpersOK, NEW r \in Requests, NEW place \in {"none", "locked", "queued", "spawned", "user"},
           NEW count \in {-1, 0, 1}, HelperMoves(r, place, count),
           count = 0 => (r \in Counted <=> r \in Counted'),
           count = 1 => r \notin Counted /\ r \in Counted',
           count = -1 => r \in Counted /\ r \notin Counted'
    PROVE  HelpersOK'
<1>1. /\ request' = [request EXCEPT ![r] = place] /\ running' = running + count /\ disabled' = disabled
  BY DEF HelperMoves
<1>2. request' \in [Requests -> {"none", "locked", "queued", "spawned", "user"}] /\ disabled' \in BOOLEAN
  BY <1>1 DEF HelpersOK
<1>3. \A q \in Requests \ {r} : request'[q] = request[q]
  BY <1>1 DEF HelpersOK
<1>4. \A q \in Requests \ {r} : q \in Counted' <=> q \in Counted
  BY <1>3 DEF Counted
<1>5. IsFiniteSet(Counted)
  BY RequestsAssumption, FS_Subset DEF RequestsAssumption, Counted
<1>6. Counted \subseteq Requests /\ Counted' \subseteq Requests
  BY DEF Counted
<1>7. Cardinality(Counted) \in Nat /\ running = Cardinality(Counted)
  BY <1>5, FS_CardinalityType DEF HelpersOK
<1>8. CASE count = 0
  <2>1. Counted' = Counted
    BY <1>4, <1>6, <1>8
  <2> QED
    BY <1>1, <1>2, <1>7, <1>8, <2>1 DEF HelpersOK
<1>9. CASE count = 1
  <2>1. Counted' = Counted \cup {r}
    BY <1>4, <1>6, <1>9
  <2>2. Cardinality(Counted') = Cardinality(Counted) + 1
    BY <1>5, <1>9, <2>1, FS_AddElement
  <2> QED
    BY <1>1, <1>2, <1>7, <1>9, <2>2 DEF HelpersOK
<1>10. CASE count = -1
  <2>1. Counted' = Counted \ {r}
    BY <1>4, <1>6, <1>10
  <2>2. Cardinality(Counted') = Cardinality(Counted) - 1
    BY <1>5, <1>10, <2>1, FS_RemoveElement
  <2> QED
    BY <1>1, <1>2, <1>7, <1>10, <2>2 DEF HelpersOK
<1> QED
  BY <1>8, <1>9, <1>10

(* running_helpers is the number of requests that hold a count.            *)
LEMMA HelperTypes == HelpersOK /\ PassOK /\ [Next]_vars => HelpersOK'
<1> SUFFICES ASSUME HelpersOK, PassOK, [Next]_vars PROVE HelpersOK'
  OBVIOUS
<1>1. CASE UNCHANGED <<running, request>> /\ disabled' \in BOOLEAN
  BY <1>1 DEF HelpersOK, Counted
<1>2. CASE UNCHANGED helperVars
  BY <1>1, <1>2 DEF helperVars, HelpersOK
<1>3. CASE usermodehelper_disable \/ Suspender
  <2>1. CASE usermodehelper_disable \/ HelpersDone \/ HelpersTimeout \/ usermodehelper_enable
    BY <1>1, <2>1 DEF usermodehelper_disable, HelpersDone, HelpersTimeout, usermodehelper_enable,
       HelpersOK
  <2>2. CASE Scan \/ Decide \/ GiveUp \/ cancel_freezing \/ Resume \/ thaw_processes
    BY <1>2, <2>2, Zenon DEF Scan, Decide, GiveUp, cancel_freezing, Resume, thaw_processes, thaw_tasks
  <2> QED
    BY <1>3, <2>1, <2>2, Zenon DEF Suspender
<1>4. ASSUME NEW r \in Requests, helper_lock(r) \/ HelperStep(r) \/ HelperExits(r) PROVE HelpersOK'
  <2> USE WaitsAssumption DEF WaitsAssumption
  <2>1. ASSUME NEW place, NEW count, HelperMoves(r, place, count) PROVE request'[r] = place
    BY <2>1 DEF HelperMoves, HelpersOK
  <2>2. CASE helper_lock(r)
    <3>1. request[r] = "none" /\ HelperMoves(r, "locked", 1)
      BY <2>2 DEF helper_lock
    <3> QED
      BY <2>1, <3>1, CountFollows DEF Counted
  <2>3. CASE call_usermodehelper_exec(r) /\ disabled
    <3>1. request[r] = "locked" /\ HelperMoves(r, "none", -1)
      BY <2>3 DEF call_usermodehelper_exec
    <3> QED
      BY <2>1, <3>1, CountFollows DEF Counted
  <2>4. CASE call_usermodehelper_exec(r) /\ ~disabled /\ Waits[r] = "nothing"
    <3>1. request[r] = "locked" /\ HelperMoves(r, "queued", -1)
      BY <2>4 DEF call_usermodehelper_exec
    <3> QED
      BY <2>1, <2>4, <3>1, CountFollows DEF Counted
  <2>5. CASE call_usermodehelper_exec(r) /\ ~disabled /\ Waits[r] # "nothing"
    <3>1. request[r] = "locked" /\ HelperMoves(r, "queued", 0)
      BY <2>5 DEF call_usermodehelper_exec
    <3> QED
      BY <2>1, <2>5, <3>1, CountFollows DEF Counted
  <2>6. CASE __call_usermodehelper(r)
    <3>1. request[r] = "queued" /\ HelperMoves(r, "spawned", 0)
      BY <2>6 DEF __call_usermodehelper
    <3> QED
      BY <2>1, <3>1, CountFollows DEF Counted
  <2>7. CASE kernel_execve(r)
    <3>1. request[r] = "spawned" /\ HelperMoves(r, "user", IF Waits[r] = "exec" THEN -1 ELSE 0)
      BY <2>7 DEF kernel_execve
    <3>2. CASE Waits[r] = "exec"
      BY <2>1, <3>1, <3>2, CountFollows DEF Counted
    <3>3. CASE Waits[r] # "exec"
      BY <2>1, <3>1, <3>3, CountFollows DEF Counted
    <3> QED
      BY <3>2, <3>3
  <2>8. CASE HelperExits(r)
    <3>1. request[r] = "user" /\ HelperMoves(r, "none", IF Waits[r] = "exit" THEN -1 ELSE 0)
      BY <2>8 DEF HelperExits
    <3>2. CASE Waits[r] = "exit"
      BY <2>1, <3>1, <3>2, CountFollows DEF Counted
    <3>3. CASE Waits[r] # "exit"
      BY <2>1, <3>1, <3>3, CountFollows DEF Counted
    <3> QED
      BY <3>2, <3>3
  <2> QED
    BY <1>4, <2>2, <2>3, <2>4, <2>5, <2>6, <2>7, <2>8, Zenon DEF HelperStep
<1> QED
  BY <1>2, <1>3, <1>4, StepKinds DEF vars, helperVars

LEMMA HelpersCounted == Spec => []HelpersOK
<1>1. Init => HelpersOK
  <2> SUFFICES ASSUME Init PROVE HelpersOK
    OBVIOUS
  <2>1. Counted = {}
    BY DEF Init, Counted
  <2> QED
    BY <2>1, FS_EmptySet DEF Init, HelpersOK
<1>2. Inv => PassOK
  BY DEF Inv, TypeInv
<1> QED
  BY <1>1, <1>2, HelperTypes, Invariant, PTL DEF Spec

(* Every state has its types; PF_FROZEN is set in the refrigerator only.   *)
THEOREM TypeCorrect == Spec => []TypeOK
<1>1. Inv /\ HelpersOK => TypeOK
  <2> SUFFICES ASSUME Inv, HelpersOK PROVE TypeOK
    OBVIOUS
  <2>1. Counted \in SUBSET Requests
    BY DEF Counted
  <2>2. IsFiniteSet(Counted) /\ Cardinality(Counted) <= Cardinality(Requests)
    BY <2>1, RequestsAssumption, FS_Subset DEF RequestsAssumption
  <2>3. Cardinality(Counted) \in Nat /\ Cardinality(Requests) \in Nat
    BY <2>2, RequestsAssumption, FS_CardinalityType DEF RequestsAssumption
  <2>4. running \in 0..Cardinality(Requests)
    BY <2>2, <2>3 DEF HelpersOK
  <2>5. TasksOK /\ PassOK
    BY DEF Inv, TypeInv
  <2> QED
    BY <2>4, <2>5 DEF HelpersOK, TypeOK, TasksOK, PassOK
<1> QED
  BY <1>1, HelpersCounted, Invariant, PTL

(* Every caller waits for its helper, at least until it is executed.       *)
EverybodyWaits == \A r \in Requests : Waits[r] # "nothing"

(* From the end of the wait for the helpers on they are switched off, and  *)
(* none is between its queue and its exec.                                 *)
NoneStarting ==
    /\ pc # "idle" => disabled
    /\ pc \notin {"idle", "helpers"} =>
         \A r \in Requests : request[r] \notin {"queued", "spawned"}

LEMMA NoneStarts == EverybodyWaits /\ NoneStarting /\ HelpersOK /\ PassOK /\ [Next]_vars => NoneStarting'
<1> SUFFICES ASSUME EverybodyWaits, NoneStarting, HelpersOK, PassOK, [Next]_vars PROVE NoneStarting'
  OBVIOUS
<1>1. CASE UNCHANGED passVars /\ UNCHANGED helperVars
  BY <1>1 DEF passVars, helperVars, NoneStarting
<1>2. CASE usermodehelper_disable \/ HelpersTimeout \/ usermodehelper_enable
  BY <1>2 DEF usermodehelper_disable, HelpersTimeout, usermodehelper_enable, NoneStarting
<1>3. CASE HelpersDone
  <2>1. Cardinality(Counted) = 0
    BY <1>3 DEF HelpersDone, HelpersOK
  <2>2. IsFiniteSet(Counted)
    BY RequestsAssumption, FS_Subset DEF RequestsAssumption, Counted
  <2>3. Counted = {}
    BY <2>1, <2>2, FS_EmptySet
  <2> QED
    BY <1>3, <2>3 DEF HelpersDone, NoneStarting, Counted, EverybodyWaits
<1>4. CASE Scan \/ Decide \/ GiveUp \/ cancel_freezing \/ Resume \/ thaw_processes
  <2>1. UNCHANGED helperVars
    BY <1>4, Zenon DEF Scan, Decide, GiveUp, cancel_freezing, Resume, thaw_processes, thaw_tasks
  <2>2. pc \notin {"idle", "helpers"}
    BY <1>4 DEF Scan, Decide, GiveUp, cancel_freezing, Resume, thaw_processes, thaw_tasks
  <2> QED
    BY <2>1, <2>2 DEF NoneStarting, helperVars
<1>5. ASSUME NEW r \in Requests, helper_lock(r) \/ HelperStep(r) \/ HelperExits(r),
             UNCHANGED passVars
      PROVE  NoneStarting'
  <2>1. pc' = pc /\ disabled' = disabled
    BY <1>5 DEF passVars, helper_lock, HelperStep, HelperExits, HelperMoves, call_usermodehelper_exec,
       __call_usermodehelper, kernel_execve
  <2>2. CASE pc \in {"idle", "helpers"}
    BY <2>1, <2>2 DEF NoneStarting
  <2>3. CASE pc \notin {"idle", "helpers"}
    <3>1. disabled /\ \A q \in Requests : request[q] \notin {"queued", "spawned"}
      BY <2>3 DEF NoneStarting
    <3>2. \E place \in {"none", "locked"} : request' = [request EXCEPT ![r] = place]
      BY <1>5, <3>1 DEF helper_lock, HelperStep, HelperExits, HelperMoves, call_usermodehelper_exec,
         __call_usermodehelper, kernel_execve
    <3> QED
      BY <2>1, <3>1, <3>2 DEF NoneStarting, HelpersOK
  <2> QED
    BY <2>2, <2>3
<1> QED
  BY <1>1, <1>2, <1>3, <1>4, <1>5, StepKinds, Zenon DEF vars, passVars, helperVars, Suspender

(* No helper is executed from the moment the freezer starts until it has   *)
(* thawed the tasks, if the caller of each one waits for it.               *)
THEOREM NoHelperWhileFrozen == ASSUME EverybodyWaits PROVE Spec => NoProcessWhileFrozen
<1>1. Init => NoneStarting
  BY DEF Init, NoneStarting
<1>2. Inv => PassOK
  BY DEF Inv, TypeInv
<1>3. NoneStarting /\ [Next]_vars =>
        [\A r \in Requests : request[r] = "spawned" /\ request'[r] = "user"
                               => pc \in {"idle", "helpers"}]_vars
  BY DEF NoneStarting
<1>4. EverybodyWaits
  OBVIOUS
<1>5. NoneStarting /\ HelpersOK /\ PassOK /\ [Next]_vars => NoneStarting'
  BY <1>4, NoneStarts
<1> QED
  BY <1>1, <1>2, <1>3, <1>5, HelpersCounted, Invariant, PTL DEF Spec, NoProcessWhileFrozen
-----------------------------------------------------------------------------
(* The alarms.                                                             *)

LEMMA MaxOfTwo ==
    ASSUME NEW a \in Int, NEW b \in Int
    PROVE  Max({a, b}) \in {a, b} /\ Max({a, b}) >= a /\ Max({a, b}) >= b
<1>1. \E x \in {a, b} : \A y \in {a, b} : x >= y
  <2>1. a >= b \/ b >= a
    OBVIOUS
  <2> QED
    BY <2>1
<1>2. Max({a, b}) \in {a, b} /\ \A y \in {a, b} : Max({a, b}) >= y
  BY <1>1 DEF Max
<1> QED
  BY <1>2

(* The lock of a passing second loses one, and stops at nothing.           *)
LEMMA Countdown ==
    ASSUME NEW n \in Nat
    PROVE  Max({0, n - 1}) \in Nat /\ Max({0, n - 1}) >= n - 1 /\ Max({0, n - 1}) <= n
<1>1. /\ Max({0, n - 1}) \in {0, n - 1}
      /\ Max({0, n - 1}) >= 0 /\ Max({0, n - 1}) >= n - 1
  BY MaxOfTwo
<1> QED
  BY <1>1

LEMMA PassedIsInt ==
    ASSUME NEW n \in Int
    PROVE  Passed(n) \in Int /\ Passed(n) >= n
<1> DEFINE low == -1 - MaxSkew
<1>1. low \in Int
  BY TimeAssumption DEF TimeAssumption
<1> HIDE DEF low
<1>2. Max({n, low}) \in {n, low} /\ Max({n, low}) >= n
  BY <1>1, MaxOfTwo
<1> QED
  BY <1>1, <1>2 DEF Passed, low
-----------------------------------------------------------------------------
(* Timers.  Nobody sets the clock during a suspend; alarm_suspend cancels  *)
(* the timers of wakeup alarms only, SET_RTC all but the SYSTEMTIME one.   *)
SettingWhileRunning == phase # "run" => setting = "out"

TimersInv ==
    /\ SettingWhileRunning
    /\ phase \in {"run", "frozen", "cancel"} /\ setting \notin {"cancelled", "set"} =>
         enabled \subseteq timers
    /\ enabled \cap {"SYSTEMTIME"} \subseteq timers
    /\ phase # "run" => enabled \ Wakeup \subseteq timers

LEMMA TimersClient ==
    ASSUME TimersInv, Client \/ Waiting
    PROVE  TimersInv'
<1>1. ASSUME NEW t \in Types, Clear(t) PROVE TimersInv'
  BY <1>1 DEF TimersInv, SettingWhileRunning, Clear, clockVars, sleepVars
<1>2. ASSUME NEW t \in Types, NEW time \in Ahead, Set(t, time) PROVE TimersInv'
  BY <1>2 DEF TimersInv, SettingWhileRunning, Set, clockVars, sleepVars
<1>3. ASSUME NEW by \in Jumps, SetRtcCancel(by) PROVE TimersInv'
  BY <1>3 DEF TimersInv, SettingWhileRunning, SetRtcCancel, UserRuns, sleepVars
<1>4. CASE alarm_release
  BY <1>4 DEF TimersInv, SettingWhileRunning, alarm_release, clockVars, sleepVars
<1>5. ASSUME NEW w \in Waiters, WaitBegins(w) \/ WaitEvent(w) \/ WaitReturns(w) PROVE TimersInv'
  BY <1>5 DEF TimersInv, SettingWhileRunning, WaitBegins, WaitEvent, WaitReturns, clockVars, sleepVars
<1> QED
  BY <1>1, <1>2, <1>3, <1>4, <1>5 DEF Client, Waiting

LEMMA TimersClock ==
    ASSUME TimersInv, SettingClock \/ Tick \/ \E t \in Types : alarm_timer_triggered(t)
    PROVE  TimersInv'
<1>1. CASE do_settimeofday
  BY <1>1 DEF TimersInv, SettingWhileRunning, do_settimeofday, sleepVars
<1>2. CASE SetRtcRestart
  BY <1>2 DEF TimersInv, SettingWhileRunning, SetRtcRestart, sleepVars
<1>3. CASE SetRtcWrite
  BY <1>3 DEF TimersInv, SettingWhileRunning, SetRtcWrite
<1>4. CASE Tick
  <2>1. /\ UNCHANGED <<enabled, timers, setting>>
        /\ phase' = phase \/ (phase = "asleep" /\ phase' = "resume_rtc")
    BY <1>4 DEF Tick, clockVars
  <2> QED
    BY <2>1 DEF TimersInv, SettingWhileRunning
<1>5. ASSUME NEW t \in Types, alarm_timer_triggered(t) PROVE TimersInv'
  BY <1>5 DEF TimersInv, SettingWhileRunning, alarm_timer_triggered, clockVars, sleepVars
<1> QED
  BY <1>1, <1>2, <1>3, <1>4, <1>5 DEF SettingClock

LEMMA TimersSuspend ==
    ASSUME TimersInv, PowerWork \/ PmSuspend \/ WakeUp
    PROVE  TimersInv'
<1> USE DEF TimersInv, SettingWhileRunning, SuspendStep, clockVars
<1>1. CASE PmSuspend
  BY <1>1 DEF PmSuspend
<1>2. CASE alarm_suspend
  BY <1>2 DEF alarm_suspend
<1>3. CASE AlarmSuspendCancel
  BY <1>3 DEF AlarmSuspendCancel, Wakeup
<1>4. CASE AlarmSuspendSet \/ msmrtc_suspend \/ power_suspend_late \/ msmrtc_resume \/ WakeUp
  BY <1>4 DEF AlarmSuspendSet, msmrtc_suspend, power_suspend_late, msmrtc_resume, WakeUp
<1>5. CASE SuspendFails
  BY <1>5 DEF SuspendFails
<1>6. CASE alarm_resume
  BY <1>6 DEF alarm_resume
<1> QED
  BY <1>1, <1>2, <1>3, <1>4, <1>5, <1>6 DEF PowerWork

LEMMA TimersKept == TimersInv /\ [AlarmNext]_allVars => TimersInv'
<1> SUFFICES ASSUME TimersInv, [AlarmNext]_allVars PROVE TimersInv'
  OBVIOUS
<1>1. CASE UNCHANGED allVars
  BY <1>1 DEF allVars, alarmVars, clockVars, sleepVars, TimersInv, SettingWhileRunning
<1> QED
  BY <1>1, TimersClient, TimersClock, TimersSuspend DEF AlarmNext

LEMMA TimersInitially == AlarmInit => TimersInv
  BY DEF AlarmInit, TimersInv, SettingWhileRunning

(* No alarm is lost: while user space runs every enabled alarm has its     *)
(* timer, whatever suspends, settings of the clock and clears came before. *)
THEOREM EnabledAlarmsRun == AlarmSpec => []TimersRun
<1>1. TimersInv => TimersRun
  BY DEF TimersInv, TimersRun
<1> QED
  BY <1>1, TimersInitially, TimersKept, PTL DEF AlarmSpec
-----------------------------------------------------------------------------
(* Numbers, and the time a suspend has taken.                              *)
TimeInv ==
    /\ left \in [Types -> Int]
    /\ alarm_lock \in Nat /\ rtc_lock \in Nat
    /\ spent \in 0..SuspendTime
    /\ skew \in Int /\ jump \in Int
    /\ rtc \subseteq Int
    /\ phase = "run" => spent = 0

LEMMA TimeUser ==
    ASSUME TimeInv, Client \/ Waiting
    PROVE  TimeInv'
<1> USE DEF TimeInv
<1>1. ASSUME NEW t \in Types, Clear(t) PROVE TimeInv'
  BY <1>1 DEF Clear, clockVars, sleepVars
<1>2. ASSUME NEW t \in Types, NEW time \in Ahead, Set(t, time) PROVE TimeInv'
  <2>1. time \in Int
    BY TimeAssumption DEF TimeAssumption
  <2> QED
    BY <1>2, <2>1 DEF Set, lockVars, clockVars, sleepVars
<1>3. ASSUME NEW by \in Jumps, SetRtcCancel(by) PROVE TimeInv'
  <2>1. by \in Int
    BY TimeAssumption DEF TimeAssumption
  <2> QED
    BY <1>3, <2>1 DEF SetRtcCancel, lockVars, sleepVars
<1>4. CASE alarm_release
  BY <1>4 DEF alarm_release, clockVars, sleepVars
<1>5. ASSUME NEW w \in Waiters, WaitBegins(w) \/ WaitEvent(w) \/ WaitReturns(w) PROVE TimeInv'
  <2>1. /\ alarm_lock' \in {alarm_lock, 0} /\ rtc_lock' \in {rtc_lock, 0}
        /\ UNCHANGED <<left, clockVars, sleepVars>>
    BY <1>5 DEF WaitBegins, WaitEvent, WaitReturns, lockVars
  <2> QED
    BY <2>1 DEF clockVars, sleepVars
<1> QED
  BY <1>1, <1>2, <1>3, <1>4, <1>5 DEF Client, Waiting

LEMMA TimeClock ==
    ASSUME TimeInv, SettingClock \/ Tick \/ \E t \in Types : alarm_timer_triggered(t)
    PROVE  TimeInv'
<1> USE DEF TimeInv
<1>1. CASE do_settimeofday
  <2>1. left' \in [Types -> Int]
    BY <1>1, PassedIsInt DEF do_settimeofday
  <2> QED
    BY <1>1, <2>1 DEF do_settimeofday, lockVars, sleepVars
<1>2. CASE SetRtcRestart
  BY <1>2 DEF SetRtcRestart, lockVars, sleepVars
<1>3. CASE SetRtcWrite
  <2>1. \A n \in rtc : Passed(n - skew) \in Int
    BY PassedIsInt
  <2>2. rtc' \subseteq Int /\ skew' \in Int
    <3>1. CASE skew' = 0 /\ rtc' = {Passed(n - skew) : n \in rtc}
      BY <2>1, <3>1
    <3>2. CASE UNCHANGED <<skew, rtc>>
      BY <3>2
    <3> QED
      BY <1>3, <3>1, <3>2 DEF SetRtcWrite
  <2> QED
    BY <1>3, <2>2 DEF SetRtcWrite, lockVars
<1>4. CASE Tick
  <2>1. left' \in [Types -> Int]
    BY <1>4, PassedIsInt DEF Tick
  <2>2. rtc' \subseteq Int
    BY <1>4, PassedIsInt DEF Tick
  <2>3. alarm_lock' \in Nat /\ rtc_lock' \in Nat
    BY <1>4, Countdown DEF Tick
  <2>4. /\ spent' \in 0..SuspendTime
        /\ phase' = "run" => phase = "run" /\ spent' = spent
    BY <1>4, TimeAssumption DEF Tick, TimeAssumption, Suspending
  <2> QED
    BY <1>4, <2>1, <2>2, <2>3, <2>4 DEF Tick, clockVars
<1>5. ASSUME NEW t \in Types, alarm_timer_triggered(t) PROVE TimeInv'
  BY <1>5, TimeAssumption DEF alarm_timer_triggered, clockVars, sleepVars, TimeAssumption
<1> QED
  BY <1>1, <1>2, <1>3, <1>4, <1>5 DEF SettingClock

(* A step of a suspend or a resume, for the whole of what it leaves alone. *)
LEMMA SuspendFrame ==
    ASSUME NEW from, NEW to, SuspendStep(from, to)
    PROVE  /\ phase = from /\ phase' = to
           /\ UNCHANGED <<enabled, left, pending, alarm_lock, setting, jump, skew>>
           /\ spent' = IF to = "run" THEN 0 ELSE spent
  BY DEF SuspendStep, clockVars

(* The time that is programmed: with a wakeup alarm enabled it is that of  *)
(* the first.                                                              *)
LEMMA FirstAlarm ==
    ASSUME TimeInv, enabled \cap Wakeup # {}, enabled \subseteq Types
    PROVE  \E t \in enabled \cap Wakeup :
              /\ Programmed = {left[t]}
              /\ \A u \in enabled \cap Wakeup : left[t] <= left[u]
<1> DEFINE R == "RTC_WAKEUP"
           E == "ELAPSED_REALTIME_WAKEUP"
<1>1. \A t \in enabled : left[t] \in Int
  BY DEF TimeInv
<1>2. CASE R \in enabled /\ (E \notin enabled \/ left[R] < left[E])
  BY <1>1, <1>2 DEF Programmed, Wakeup
<1>3. CASE ~(R \in enabled /\ (E \notin enabled \/ left[R] < left[E]))
  BY <1>1, <1>3 DEF Programmed, Wakeup
<1> QED
  BY <1>2, <1>3

LEMMA TimeSuspend ==
    ASSUME TimeInv, PowerWork \/ PmSuspend \/ WakeUp
    PROVE  TimeInv'
<1>1. ASSUME NEW from, NEW to, SuspendStep(from, to),
             rtc_lock' \in {rtc_lock, 1}, rtc' \subseteq Int
      PROVE  TimeInv'
  BY <1>1, SuspendFrame, TimeAssumption DEF TimeInv, TimeAssumption
<1>2. CASE PmSuspend \/ WakeUp \/ alarm_suspend \/ AlarmSuspendCancel \/ SuspendFails
           \/ power_suspend_late
  BY <1>1, <1>2 DEF PmSuspend, WakeUp, alarm_suspend, AlarmSuspendCancel, SuspendFails,
     power_suspend_late, TimeInv
<1>3. CASE msmrtc_suspend \/ msmrtc_resume
  BY <1>1, <1>3 DEF msmrtc_suspend, msmrtc_resume, Expires, TimeInv
<1>4. CASE alarm_resume
  BY <1>1, <1>4 DEF alarm_resume, RtcDisabled, TimeInv
<1>5. CASE AlarmSuspendSet
  <2>1. PICK n \in Programmed, dropped \in 0..1 : rtc' = virtual_alarm_set(n - dropped)
    BY <1>5 DEF AlarmSuspendSet
  <2>2. n \in Int
    <3>1. Ahead \subseteq Int /\ Wakeup \subseteq Types
      BY TimeAssumption, TypesAssumption DEF TimeAssumption, TypesAssumption
    <3> QED
      BY <3>1 DEF Programmed, TimeInv, Wakeup
  <2>3. rtc' \subseteq Int
    BY <2>1, <2>2 DEF virtual_alarm_set
  <2> QED
    BY <1>1, <1>5, <2>3 DEF AlarmSuspendSet
<1> QED
  BY <1>2, <1>3, <1>4, <1>5 DEF PowerWork

LEMMA TimeKept == TimeInv /\ [AlarmNext]_allVars => TimeInv'
<1> SUFFICES ASSUME TimeInv, [AlarmNext]_allVars PROVE TimeInv'
  OBVIOUS
<1>1. CASE UNCHANGED allVars
  BY <1>1 DEF allVars, alarmVars, lockVars, clockVars, sleepVars, TimeInv
<1> QED
  BY <1>1, TimeUser, TimeClock, TimeSuspend DEF AlarmNext

LEMMA TimeInitially == AlarmInit => TimeInv
  BY TimeAssumption DEF AlarmInit, TimeInv, TimeAssumption
-----------------------------------------------------------------------------
(* An alarm that has gone off during a suspend has taken alarm_wake_lock   *)
(* for longer than the suspend can take.                                   *)
PendingInv ==
    /\ phase # "run" => setting = "out"
    /\ phase = "frozen" => alarm_lock = 0 \/ alarm_lock > SuspendTime - spent
    /\ phase \in {"cancel", "set", "alarm_done", "late"} =>
         pending = {} \/ alarm_lock > SuspendTime - spent
    /\ phase = "asleep" => pending = {}

LEMMA PendingKept == TimeInv /\ PendingInv /\ [AlarmNext]_allVars => PendingInv'
<1> SUFFICES ASSUME TimeInv, PendingInv, [AlarmNext]_allVars PROVE PendingInv'
  OBVIOUS
<1> USE DEF PendingInv
<1>1. CASE UNCHANGED allVars
  BY <1>1 DEF allVars, alarmVars, lockVars, clockVars, sleepVars
<1>2. ASSUME phase' = "run" PROVE PendingInv'
  BY <1>2
<1>3. CASE Client \/ Waiting
  <2>1. phase' = "run"
    BY <1>3 DEF Client, Waiting, Clear, Set, SetRtcCancel, alarm_release, WaitBegins, WaitEvent,
       WaitReturns, UserRuns, sleepVars
  <2> QED
    BY <1>2, <2>1
<1>4. CASE SettingClock
  <2>1. phase' = phase /\ phase = "run"
    BY <1>4 DEF SettingClock, do_settimeofday, SetRtcRestart, SetRtcWrite, sleepVars
  <2> QED
    BY <1>2, <2>1
<1>5. CASE Tick
  <2>1. /\ phase' = phase \/ (phase = "asleep" /\ phase' = "resume_rtc")
        /\ UNCHANGED <<setting, pending>>
        /\ phase \in Suspending => spent < SuspendTime /\ spent' = spent + 1
        /\ alarm_lock' = Max({0, alarm_lock - 1})
    BY <1>5, TimeAssumption DEF Tick, clockVars, Suspending
  <2>2. alarm_lock' \in Nat /\ alarm_lock' >= alarm_lock - 1 /\ alarm_lock' <= alarm_lock
    BY <2>1, Countdown DEF TimeInv
  <2>3. alarm_lock > SuspendTime - spent /\ phase \in Suspending =>
          alarm_lock' > SuspendTime - spent'
    BY <2>1, <2>2, TimeAssumption DEF TimeInv, TimeAssumption
  <2>4. alarm_lock = 0 => alarm_lock' = 0
    BY <2>2 DEF TimeInv
  <2> QED
    BY <2>1, <2>3, <2>4 DEF Suspending
<1>6. ASSUME NEW t \in Types, alarm_timer_triggered(t) PROVE PendingInv'
  <2>1. phase # "asleep" /\ UNCHANGED <<phase, spent, setting>> /\ alarm_lock' = LockTime
    BY <1>6 DEF alarm_timer_triggered, clockVars, sleepVars
  <2>2. LockTime > SuspendTime - spent
    BY TimeAssumption DEF TimeInv, TimeAssumption
  <2> QED
    BY <2>1, <2>2
<1>7. CASE PmSuspend
  <2>1. phase' = "frozen" /\ alarm_lock' = 0 /\ setting' = "out"
    BY <1>7, SuspendFrame DEF PmSuspend
  <2> QED
    BY <2>1
<1>8. CASE alarm_suspend
  <2>1. /\ phase = "frozen" /\ UNCHANGED <<alarm_lock, setting, pending>>
        /\ phase' \in {"run", "alarm_done", "cancel"}
        /\ phase' # "run" => ~(pending # {} /\ alarm_lock = 0)
        /\ phase' # "run" => spent' = spent
    BY <1>8, SuspendFrame DEF alarm_suspend
  <2> QED
    BY <2>1
<1>9. CASE AlarmSuspendCancel \/ AlarmSuspendSet \/ msmrtc_suspend
  <2>1. /\ phase \in {"cancel", "set", "alarm_done"} /\ phase' \in {"set", "alarm_done", "late"}
        /\ UNCHANGED <<alarm_lock, setting, pending, spent>>
    BY <1>9, SuspendFrame DEF AlarmSuspendCancel, AlarmSuspendSet, msmrtc_suspend
  <2> QED
    BY <2>1
<1>10. CASE power_suspend_late
  <2>1. /\ phase = "late" /\ phase' \in {"resume_rtc", "asleep"}
        /\ UNCHANGED <<alarm_lock, setting, pending, spent>>
        /\ phase' = "asleep" => ~(alarm_lock > 0)
    BY <1>10, SuspendFrame DEF power_suspend_late
  <2>2. ~(alarm_lock > 0) => ~(alarm_lock > SuspendTime - spent)
    BY TimeAssumption DEF TimeInv, TimeAssumption
  <2> QED
    BY <2>1, <2>2
<1>11. CASE SuspendFails \/ WakeUp \/ msmrtc_resume \/ alarm_resume
  <2>1. phase # "run" /\ phase' \in {"run", "resume_rtc", "resume_alarm"} /\ setting' = setting
    BY <1>11, SuspendFrame DEF SuspendFails, WakeUp, msmrtc_resume, alarm_resume
  <2> QED
    BY <2>1
<1> QED
  BY <1>1, <1>3, <1>4, <1>5, <1>6, <1>7, <1>8, <1>9, <1>10, <1>11 DEF AlarmNext, PowerWork

(* The system never sleeps on an alarm that has gone off and was not       *)
(* collected, nor on a change of the clock nobody has been told of,        *)
(* because a suspend takes less than alarm_wake_lock lasts.                *)
THEOREM NothingSleptOver == AlarmSpec => []SleepsWithNothingPending
<1>1. AlarmInit => PendingInv
  BY DEF AlarmInit, PendingInv
<1>2. PendingInv => SleepsWithNothingPending
  BY DEF PendingInv, SleepsWithNothingPending
<1> QED
  BY <1>1, <1>2, TimeInitially, TimeKept, PendingKept, PTL DEF AlarmSpec
-----------------------------------------------------------------------------
(* The sleep ends by itself before any wakeup alarm is due.                *)
SleepsShort ==
    \A t \in enabled \cap Wakeup : max_sleep \in Nat \ {0} /\ max_sleep <= left[t]

(* What is handed on from step to step of a suspend.                       *)
WakeInv ==
    /\ phase # "run" => setting = "out"
    /\ setting = "out" => skew = 0
    /\ enabled \subseteq Types
    /\ phase = "set" => \A t \in enabled \cap Wakeup : left[t] > 0
    /\ phase = "alarm_done" /\ enabled \cap Wakeup # {} =>
         \E n \in Int : rtc = {n} /\ \A t \in enabled \cap Wakeup : n <= left[t]
    /\ phase = "late" => rtc_lock > 0 \/ SleepsShort
    /\ phase = "asleep" => SleepsShort

LEMMA PassedOrder ==
    ASSUME NEW m \in Int, NEW n \in Int, m <= n
    PROVE  Passed(m) <= Passed(n)
<1> DEFINE low == -1 - MaxSkew
<1>1. low \in Int
  BY TimeAssumption DEF TimeAssumption
<1> HIDE DEF low
<1>2. /\ Max({m, low}) \in {m, low}
      /\ Max({n, low}) >= n /\ Max({n, low}) >= low /\ Max({n, low}) \in {n, low}
  BY <1>1, MaxOfTwo
<1> QED
  BY <1>1, <1>2 DEF Passed, low

(* A second that passes while the system suspends or sleeps.               *)
LEMMA WakeTick ==
    ASSUME TimeInv, WakeInv, "set" \notin SlowIn, "late" \notin SlowIn, Tick
    PROVE  WakeInv'
<1> USE DEF WakeInv
<1>1. /\ phase' = phase \/ (phase = "asleep" /\ phase' = "resume_rtc")
      /\ UNCHANGED <<setting, skew, enabled>>
      /\ phase \notin {"set", "late"}
  BY DEF Tick, clockVars
<1>2. \A t \in enabled \cap Wakeup : phase # "run" => left'[t] = Passed(left[t] - 1)
  BY DEF Tick, Wakeup
<1>3. \A t \in enabled \cap Wakeup : left[t] \in Int
  BY DEF TimeInv
<1>4. CASE phase = "alarm_done" /\ enabled \cap Wakeup # {}
  <2>1. PICK n \in Int : rtc = {n} /\ \A t \in enabled \cap Wakeup : n <= left[t]
    BY <1>4
  <2>2. rtc' = {Passed(n - 1)}
    BY <2>1 DEF Tick
  <2>3. Passed(n - 1) \in Int
    BY PassedIsInt
  <2>4. \A t \in enabled \cap Wakeup : Passed(n - 1) <= left'[t]
    BY <1>2, <1>3, <1>4, <2>1, PassedOrder
  <2> QED
    BY <1>1, <1>4, <2>2, <2>3, <2>4
<1>5. CASE phase = "asleep"
  <2> SUFFICES ASSUME phase' = "asleep", NEW t \in enabled \cap Wakeup
               PROVE  max_sleep' \in Nat \ {0} /\ max_sleep' <= left'[t]
    BY <1>1, <1>5 DEF SleepsShort
  <2>1. max_sleep \in Nat \ {0} /\ max_sleep <= left[t]
    BY <1>5 DEF SleepsShort
  <2>2. max_sleep' = max_sleep - 1 /\ max_sleep # 1
    BY <1>5, <2>1 DEF Tick
  <2>3. left'[t] >= left[t] - 1
    BY <1>2, <1>3, <1>5, PassedIsInt
  <2>4. left'[t] \in Int /\ left[t] \in Int
    BY <1>2, <1>3, <1>5, PassedIsInt
  <2> QED
    BY <2>1, <2>2, <2>3, <2>4
<1> QED
  BY <1>1, <1>4, <1>5

(* Suspend and resume.                                                     *)
LEMMA WakeSuspend ==
    ASSUME TimeInv, TimersInv, WakeInv, PowerWork \/ PmSuspend \/ WakeUp
    PROVE  WakeInv'
<1> USE DEF WakeInv
<1>1. ASSUME NEW from, NEW to, SuspendStep(from, to), setting = "out",
             to \in {"run", "frozen", "cancel", "resume_rtc", "resume_alarm"}
      PROVE  WakeInv'
  BY <1>1, SuspendFrame
<1>2. phase # "run" => setting = "out"
  OBVIOUS
<1>3. CASE PmSuspend
  BY <1>1, <1>3 DEF PmSuspend
<1>4. CASE SuspendFails \/ WakeUp \/ msmrtc_resume \/ alarm_resume
  BY <1>1, <1>2, <1>4, SuspendFrame DEF SuspendFails, WakeUp, msmrtc_resume, alarm_resume
<1>5. CASE alarm_suspend
  <2>1. /\ phase = "frozen" /\ UNCHANGED <<enabled, left, setting, skew>>
        /\ phase' \in {"run", "cancel", "alarm_done"}
        /\ phase' = "alarm_done" => enabled \cap Wakeup = {}
    BY <1>5, SuspendFrame DEF alarm_suspend
  <2> QED
    BY <2>1
<1>6. CASE AlarmSuspendCancel
  <2>1. /\ phase = "cancel" /\ phase' = "set" /\ UNCHANGED <<enabled, left, setting, skew>>
    BY <1>6, SuspendFrame DEF AlarmSuspendCancel
  <2>2. \A t \in enabled : ~(left[t] + 0 <= 0)
    BY <1>6, <2>1 DEF AlarmSuspendCancel, Prompt, Due, TimersInv
  <2>3. \A t \in enabled : left[t] > 0
    BY <2>2 DEF TimeInv
  <2> QED
    BY <2>1, <2>3
<1>7. CASE AlarmSuspendSet
  <2>1. phase = "set" /\ phase' = "alarm_done" /\ UNCHANGED <<enabled, left, setting, skew>>
    BY <1>7, SuspendFrame DEF AlarmSuspendSet
  <2>2. PICK n \in Programmed, dropped \in 0..1 : rtc' = virtual_alarm_set(n - dropped)
    BY <1>7 DEF AlarmSuspendSet
  <2>3. CASE enabled \cap Wakeup # {}
    <3>1. PICK t \in enabled \cap Wakeup :
            Programmed = {left[t]} /\ \A u \in enabled \cap Wakeup : left[t] <= left[u]
      BY <2>3, FirstAlarm
    <3>2. n = left[t] /\ n \in Int /\ n > 0
      BY <2>1, <2>2, <3>1 DEF TimeInv
    <3>3. skew = 0
      BY <2>1
    <3>4. rtc' = {n - dropped}
      BY <2>2, <3>2, <3>3 DEF virtual_alarm_set
    <3>5. \A u \in enabled \cap Wakeup : left[u] \in Int
      BY DEF TimeInv
    <3>6. \A u \in enabled \cap Wakeup : n - dropped <= left[u]
      BY <3>1, <3>2, <3>5
    <3> QED
      BY <2>1, <3>2, <3>4, <3>6
  <2>4. CASE enabled \cap Wakeup = {}
    BY <2>1, <2>4
  <2> QED
    BY <2>3, <2>4
<1>8. CASE msmrtc_suspend
  <2>1. phase = "alarm_done" /\ phase' = "late" /\ UNCHANGED <<enabled, left, setting, skew>>
    BY <1>8, SuspendFrame DEF msmrtc_suspend
  <2>2. CASE enabled \cap Wakeup # {}
    <3>1. PICK n \in Int : rtc = {n} /\ \A t \in enabled \cap Wakeup : n <= left[t]
      BY <2>1, <2>2
    <3>2. CASE n <= 0
      BY <1>8, <2>1, <3>1, <3>2 DEF msmrtc_suspend, Expires
    <3>3. CASE ~(n <= 0)
      <4>1. max_sleep' = Max({0} \cup rtc) /\ {0} \cup rtc = {0, n}
        BY <1>8, <3>1, <3>3 DEF msmrtc_suspend
      <4>2. Max({0, n}) \in {0, n} /\ Max({0, n}) >= n
        BY MaxOfTwo
      <4>3. max_sleep' = n
        BY <3>3, <4>1, <4>2
      <4> QED
        BY <2>1, <3>1, <3>3, <4>3 DEF SleepsShort
    <3> QED
      BY <3>2, <3>3
  <2>3. CASE enabled \cap Wakeup = {}
    BY <2>1, <2>3 DEF SleepsShort
  <2> QED
    BY <2>2, <2>3
<1>9. CASE power_suspend_late
  <2>1. /\ phase = "late" /\ phase' \in {"resume_rtc", "asleep"}
        /\ UNCHANGED <<enabled, left, setting, skew>> /\ max_sleep' = max_sleep
        /\ phase' = "asleep" => ~(rtc_lock > 0)
    BY <1>9, SuspendFrame DEF power_suspend_late
  <2> QED
    BY <2>1 DEF SleepsShort
<1> QED
  BY <1>3, <1>4, <1>5, <1>6, <1>7, <1>8, <1>9 DEF PowerWork

LEMMA WakeKept ==
    ASSUME ~SetFails, "set" \notin SlowIn, "late" \notin SlowIn
    PROVE  TimeInv /\ TimersInv /\ WakeInv /\ [AlarmNext]_allVars => WakeInv'
<1> SUFFICES ASSUME TimeInv, TimersInv, WakeInv, [AlarmNext]_allVars PROVE WakeInv'
  OBVIOUS
<1> USE DEF WakeInv
<1>1. CASE UNCHANGED allVars
  BY <1>1 DEF allVars, alarmVars, lockVars, clockVars, sleepVars, SleepsShort
<1>2. ASSUME phase' = "run", enabled' \subseteq Types, setting' = "out" => skew' = 0 PROVE WakeInv'
  BY <1>2
<1>3. CASE Client \/ Waiting
  <2>1. phase' = "run" /\ enabled' \subseteq Types
    BY <1>3 DEF Client, Waiting, Clear, Set, SetRtcCancel, alarm_release, WaitBegins, WaitEvent,
       WaitReturns, UserRuns, sleepVars
  <2>2. (setting' = setting \/ setting' = "cancelled") /\ skew' = skew
    BY <1>3 DEF Client, Waiting, Clear, Set, SetRtcCancel, alarm_release, WaitBegins, WaitEvent,
       WaitReturns, clockVars
  <2> QED
    BY <1>2, <2>1, <2>2
<1>4. CASE SettingClock
  <2>1. phase' = phase /\ phase = "run" /\ enabled' = enabled
    BY <1>4 DEF SettingClock, do_settimeofday, SetRtcRestart, SetRtcWrite, sleepVars
  <2>2. setting' = "out" => skew' = 0
    BY <1>4 DEF SettingClock, do_settimeofday, SetRtcRestart, SetRtcWrite
  <2> QED
    BY <1>2, <2>1, <2>2
<1>5. ASSUME NEW t \in Types, alarm_timer_triggered(t) PROVE WakeInv'
  <2>1. /\ phase # "asleep" /\ UNCHANGED <<phase, setting, skew, rtc, rtc_lock, max_sleep>>
        /\ enabled' = enabled \ {t} /\ left' = [left EXCEPT ![t] = 0]
    BY <1>5 DEF alarm_timer_triggered, clockVars, sleepVars
  <2>2. \A u \in enabled' : u \in enabled /\ left'[u] = left[u]
    BY <2>1 DEF TimeInv
  <2> QED
    BY <2>1, <2>2 DEF SleepsShort
<1> QED
  BY <1>1, <1>3, <1>4, <1>5, WakeTick, WakeSuspend DEF AlarmNext

(* When the system sleeps with a wakeup alarm enabled it wakes up by       *)
(* itself, and in time: provided that the RTC follows the wall clock, and  *)
(* no second passes between the choice of the alarm and its setting, or    *)
(* between msmrtc_suspend and the last look at the locks.                  *)
THEOREM WakesInTime ==
    ASSUME ~SetFails, "set" \notin SlowIn, "late" \notin SlowIn
    PROVE  AlarmSpec => []WakesForAlarm
<1>1. AlarmInit => WakeInv
  BY DEF AlarmInit, WakeInv
<1>2. TimeInv /\ WakeInv => WakesForAlarm
  <2> SUFFICES ASSUME TimeInv, WakeInv, phase = "asleep", NEW t \in enabled \cap Wakeup
               PROVE  max_sleep > 0 /\ max_sleep <= Max({0, left[t]}) + SuspendTime
    BY DEF WakesForAlarm
  <2>1. left[t] \in Int /\ SuspendTime \in Nat
    BY TimeAssumption DEF WakeInv, TimeInv, TimeAssumption
  <2>2. Max({0, left[t]}) \in {0, left[t]} /\ Max({0, left[t]}) >= left[t]
    <3> DEFINE ahead == left[t]
    <3>1. ahead \in Int
      BY <2>1
    <3> HIDE DEF ahead
    <3>2. Max({0, ahead}) \in {0, ahead} /\ Max({0, ahead}) >= ahead
      BY <3>1, MaxOfTwo
    <3> QED
      BY <3>2 DEF ahead
  <2>3. max_sleep \in Nat \ {0} /\ max_sleep <= left[t]
    BY DEF WakeInv, SleepsShort
  <2> QED
    BY <2>1, <2>2, <2>3
<1>3. TimeInv /\ TimersInv /\ WakeInv /\ [AlarmNext]_allVars => WakeInv'
  BY WakeKept
<1> QED
  BY <1>1, <1>2, <1>3, TimeInitially, TimeKept, TimersInitially, TimersKept, PTL DEF AlarmSpec
=============================================================================
