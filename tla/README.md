# Android power management of the Galaxy Europa (GT-I5500) kernel in TLA+

The repository is the open source part of the Samsung GT-I5500: a Linux 2.6.29
kernel with the Android drivers, the Qualcomm MSM7x27 machine code and the board
code "Europa" (`src/GT-I5500_OpenSource_Kernel/kernel`; paths below are relative
to it unless they start with `src/`), together with user space code of other
projects (busybox, iproute2, iperf, bluez and its Broadcom adaptation).

What sets this kernel apart from the one of kernel.org, and what the phone stands
or falls with, is how it goes to sleep: at any time, in the middle of the use of
any driver, without losing an event. Most of these modules model that part and
check it; three more model Android drivers with a protocol of their own: the
log, the shared memory that may be taken back, and the calls to the modem.
They are written from the code as `arch/arm/configs/europa_rev02_defconfig`
builds it: one processor (no SMP), PREEMPT, HZ = 100, NO_HZ, WAKELOCK,
USER_WAKELOCK, EARLYSUSPEND, SUSPEND_FREEZER, RTC_INTF_ALARM, RTC_DRV_MSM,
MSM_N_WAY_SMSM, no hibernation.

Contents: [inventory](#inventory), [modules](#modules), [runs](#runs),
[fairness](#fairness), [proofs](#proofs), [disagreements
found](#disagreements-found), [limits](#limits), [not modelled](#not-modelled).

## Inventory

### How the parts of the power manager meet

```
 user space      /sys/power/state        /sys/power/wake_lock      /dev/alarm
                       |                         |                     |
                 state_store             userwakelock.c            alarm.c --- hrtimers
                       |                         |                     |
              request_suspend_state              |  wake_lock_timeout  |
                       |                         v          v          |
  drivers ------> earlysuspend.c --main--> wakelock.c <--- drivers     |
  (register)           |                         |    smd_rpcrouter.c  |
                       +--- suspend_work_queue --+  one thread         |
                                   |                                   |
                              pm_suspend (kernel/power/main.c)         |
              kmod.c, process.c, freezer.c : helpers off, tasks frozen |
              drivers/base/power/main.c    : devices suspended --------+
              wakelock.c power_suspend_late: the last look at the locks, rtc-msm.c
              arch/arm/mach-msm/pm2.c      : the processor sleeps
```

| part | code | state | operations |
|---|---|---|---|
| wake locks | `kernel/power/wakelock.c` | the lists of active and inactive locks, `expire_timer`, `suspend_work`, `current_event_num` | init, destroy, lock with or without a timeout, unlock, the timer, `suspend()`, `power_suspend_late` |
| early suspend | `kernel/power/earlysuspend.c` | `state` (SUSPEND_REQUESTED, SUSPENDED), the list of handlers ordered by level, two work items, `main_wake_lock` | request, register, unregister, `early_suspend`, `late_resume` |
| /sys/power/state | `kernel/power/main.c` | `global_state` | `state_store` |
| freezer | `kernel/power/process.c`, `kernel/freezer.c`, `include/linux/freezer.h` | TIF_FREEZE, PF_FROZEN, PF_FREEZER_SKIP, PF_NOFREEZE of every task | freeze in two passes, refrigerator, cancel, thaw |
| user mode helpers | `kernel/kmod.c` | `usermodehelper_disabled`, `running_helpers` | exec, disable, enable |
| devices | `drivers/base/power/main.c` | `dpm_list`, the status of each device, `transition_started` | add, remove, the walks prepare, suspend, resume, complete |
| alarms | `drivers/rtc/alarm.c` | enabled and pending alarms, hrtimers, `alarm_wake_lock`, `elapsed_rtc_delta` | ioctls, open, release, timer handler, suspend, resume |
| RTC | `drivers/rtc/rtc-msm.c` | `rtcalarm_time`, `alarm_rtc_wake_lock`, `msm_pm_max_sleep_time` | set alarm, suspend, resume, expiry |
| log | `drivers/staging/android/logger.c` | the ring, `w_off`, `head`, the readers with `r_off` and `fixed` | write, read, open, release, flush, moving the readers on |
| ashmem | `mm/ashmem.c` | the unpinned ranges of each area, `ashmem_lru_list`, `lru_count` | open, release, mmap, set name, pin, unpin, the shrinker |
| RPC router | `arch/arm/mach-msm/smd_rpcrouter.c` | endpoints with their `read_q`, `restart_state` and wake lock; the quota of the remote endpoint; the channel's `need_len` and wake lock | connect, close, call (write, then read), the interrupt, the worker, control messages, the restart of the modem |

What is hard about it, and hard to test:

- *Interleaving.* `suspend()` looks at the locks, then works for seconds without
  any lock; drivers take and release wake locks, user space requests wakeup,
  devices come and go and alarms go off all the while. A timer softirq and a
  thread race for the last look at the list of locks. Two work items and
  `suspend()` itself share one thread.
- *Lost wakeups.* Nobody polls: after the last wake lock is gone exactly one of
  `wake_unlock` and the timer must queue the work; after a task is asked to freeze
  it must notice; a thread that tests a flag before it sleeps may miss it.
- *Partial failure.* Every phase may fail or be given up, and must then undo what
  it has done, no more and no less: thaw every task, resume exactly the devices
  suspended, start every alarm again.
- *Order.* Children before parents down, parents before children up; levels of
  handlers; kernel threads frozen after and thawed before user tasks.
- *Stale state.* The alarm kept by the RTC driver, the flag that says which lock
  is charged for the time awake, the length of an entry of the log that was
  overwritten since.
- *A limit reached.* A ring whose writers never wait and lap its readers; a quota
  of packets after which somebody must ask for more; memory taken back while its
  owner asks for it again.
- *A peer that restarts.* The modem may be reset in the middle of a call, with
  threads asleep at four places, each to be woken and told, once.

What makes the parts correct is stated property by property under [runs](#runs).

The parts that are left out are listed with the reasons under
[not modelled](#not-modelled).

## Modules

| module | models | extended or instantiated by |
|---|---|---|
| `WakeLock` | wake locks and `suspend()` | `WakeLockProofs`, `PowerManager` |
| `EarlySuspend` | early suspend on the work queue | `MCEarlySuspend`, `EarlySuspendProofs`, `PowerManager` |
| `PowerPromise` | what both together promise, in four variables | `PowerManager` (refinement) |
| `PowerManager` | `WakeLock` and `EarlySuspend` composed, with `/sys/power/state` | `MCPowerManager`, `PowerManagerProofs` |
| `Freezer` | freezing and thawing of tasks, user mode helpers | `MCFreezer`, `SuspendProofs` |
| `DevicePM` | the list of devices and its four walks | `MCDevicePM`, `DevicePMProofs` |
| `Alarm` | the alarm driver and the RTC driver through suspend and resume | `MCAlarm`, `SuspendProofs` |
| `LogPromise` | what a log promises its readers | `Logger` (refinement) |
| `Logger` | one log device: ring, writers and readers | `MCLogger`, `LoggerProofs` |
| `Ashmem` | areas, their unpinned ranges and the shrinker | `MCAshmem`, `AshmemProofs` |
| `RpcRouter` | clients of one server of the modem, quota, restart | `RpcRouterProofs` |
| `*Proofs` | theorems | |

Names are those of the code where a definition is one of its functions. An action
that is a part of a function has a name of its own and a comment that says which
part. `PROJECT.json` maps each definition to its lines. In each module the
definitions whose comment begins with "Mutant:" are not part of the model: each
is a changed form of the definition after it, of the kind a slip in the code
would produce, and every property fails when the one named for it in
`PROJECT.json` takes its place.

**What is one step.** A section under a spinlock taken with interrupts off, or
under a mutex without anything that sleeps in it, is one action. With one
processor, a section under `tasklist_lock` or in an interrupt handler is one too,
as nothing else runs. Wherever the code lets go of the lock, calls a driver or
user supplied function, or may be preempted in a way that another part can
notice, the action ends.

### WakeLock

The two lists are sets (`active` of the type); `timed` and `left` are
WAKE_LOCK_AUTO_EXPIRE and `expires - jiffies`. The order of a list matters only
in that locks without a timeout come first, which makes a scan return -1 before it
has expired anything: `ExpiredByScan`. Every action that looks at a list lets
`has_wake_lock_locked` expire what is due, as the code does. `TimerFires` and
`expire_wake_locks` are apart: a softirq has taken the timer off its list when a
thread can still re-arm or delete it. `suspend()` is a chain of actions from
`SuspendStart` to `SuspendNoEvent`; `pm_suspend` is opaque: it fails at any point,
is refused by `power_suspend_late`, or sleeps. `event` is the comparison of the
event numbers. Statistics are left out, but for the flag they hang on.
`DestroyHeld` names the owners that destroy a lock they may hold: the RPC router
does (`smd_rpcrouter.c:517`).

### EarlySuspend

`worklist` is the list of `suspend_work_queue` and `worker` its only thread.
Each call of a handler is a step, made under the mutex; requests come at any
time, as they take only `state_lock`. Registration is two steps, entering the
list and the direct call of the hook. An element of `Handlers` is one
registration, so a driver that registers again is another element.

### PowerManager and PowerPromise

`PowerManager` has no state of its own but the file and its writers. It runs
`WakeLock` and `EarlySuspend` together: `main_wake_lock` is `Main \in active` in
the one and `mainHeld` in the other, `queued` is membership of `"suspend"` in
`worklist`, and `pc # "idle"` is `worker = "suspend"`. `Linked` states this of
every step. `PowerPromise` is the contract without the mechanism: the screen goes
off and on as a whole, the system sleeps only with the screen off, no lock held
and sleep still asked for, and what is asked for is done. The mapping takes the
screen from what was *called* in the drivers, not from the flag SUSPENDED.

### Freezer

A task is at one of the places of `UserPlaces` or `KernelPlaces`, as far as the
freezer can tell: in user mode, in a system call, in an interruptible sleep, in an
uninterruptible wait for a kernel thread, stopped by a signal, in vfork, on its
way into the refrigerator, in it. The kernel thread is the one of
`f_mass_storage.c` (`sleep_thread`), which tests TIF_FREEZE before it sets its
state. Tasks fork, vfork, exec and exit meanwhile; a child inherits no request.
Both passes, the timeout, the abort, `cancel_freezing` and both steps of thawing
are there. A helper runs through `locked`, `queued`, `spawned`, `user`; `Waits`
says what its caller waits for.

### DevicePM

`dpm_list` and the local `list` of the walk are sequences; each callback is a
step during which devices are registered and removed, since the code lets go of
`dpm_list_mtx`. Every callback of prepare and suspend may fail, and prepare may
say -EAGAIN. `device_power_down` with the interrupts off is one step, which gets
the last n devices down and takes that back at once if that is not all. The
`Careful` constant is TRUE in every run: the thread that registers devices heeds
what `device_pm_add` warns about (a parent that is going to sleep, or no parent
in the middle of a transition). With FALSE, a device registered in spite of the
warning sleeps without having been told (`AllOff` fails), which is what the
warning is for. `RegisterAt` says at which points devices are registered: in the
run at all of them but the callbacks of `dpm_complete`, which builds its list the
wrong way round (see [below](#disagreements-found)).

### Alarm

Time is in seconds and relative. `left[t]` is how far the alarm is ahead on its
own clock, so setting the wall clock moves the alarms that follow it and leaves
those of elapsed realtime alone, which is what `elapsed_rtc_delta` is for.
`SET_RTC` is four steps, as it lets go of `alarm_slock` twice. A suspend is the
chain `PmSuspend`, `alarm_suspend`, `AlarmSuspendCancel`, `AlarmSuspendSet`,
`msmrtc_suspend`, `power_suspend_late`, each of which may be the last; time may
pass between them, and timers not yet cancelled fire. Fractions of a second, which
the code drops, may or may not matter: `AlarmSuspendSet` takes either.

### Logger and LogPromise

Of the bytes of the ring `buffer` keeps the length at the start of each entry and
0 elsewhere. A write is one action under `bufflock`: it moves the readers and the
head that it is about to overrun (`fix_up_readers`), then stores. The wake-up of
the readers is an action of its own, as it comes after the unlock. What is to be
written has one of `Lengths`, header included, which may be over the limit `MaxLen`.
`header_len` cuts it for the header and for the room made, and in the events log
(`Events`) also for what is stored; `write_log_entry_mainradio` stores all of it.
`read()` has two sections with the lock let go between them, one that takes the
length of the entry and one that copies it (`ReadLength`, `do_read_log_to_user`), and
takes the length again when `fixed` says that the reader was moved in between. `ret`
is what the last call has returned: an error, or the length taken first, as the code
sets `ret` (183) before it takes the length again (199). The error of a copy to user
space comes when the reader has moved past the entry (218-223). What `get_entry_len`
makes of bytes in the middle of an entry is any length (`get_entry_len` of a 0).
`LogPromise` has neither ring nor offsets: for each
reader the sequence of entries it has not read, which only a write may shorten,
from its front, and by no more than the room it needs. `UnreadFrom` is the
mapping: it walks the ring from the reader to `w_off` and yields an impossible
entry where that walk leaves the entries.

### Ashmem

`unpinned_list` holds the ranges of each area in the order of the list (highest
first), `lru` the shrinker's list. A range is known by its place on the list of its
area, and on `lru` it is the first entry like it (`LruAt`). `Pin`, `UnpinMerged`,
`Release` and `Shrink` are the loops of the code: functions of the number of turns
on a record of the three lists, as a turn changes the list that is walked. A turn
takes a range out or goes past one, so there are no more of them than ranges to
begin with, and what is left of the turns does nothing. `PinTurn` has the five cases
of `ashmem_pin`, `UnpinTurn` the merging of `ashmem_unpin` with its `goto restart`,
and `Purge` is the body of `ashmem_shrink`. `unpinned` and `lost` are what the
owner believes: the pages it gave up, and those taken of which it has not been
told. A call is one action under `ashmem_mutex`, unless it waits with the mutex
held, for the page of its caller (`set_name`) or for memory (`range_alloc`); these
are the actions `NameFaults` and `RangeAllocReclaims`, and `mmap`, which comes with
`mmap_sem` held, waits for the mutex in a step of its own. `AllocFails` allows
`range_alloc` to fail; see [below](#disagreements-found) for what is lost then.

### RpcRouter

Each client is a thread with a local endpoint, at one of the places of `Calling`:
waiting for the restart to end, for quota, for room in the channel, for the reply,
or between two of these. `asleep` says who has to be woken: a condition that has
become true helps nobody whom no `wake_up` reached.

The modem puts whole messages into the channel (`rx`), which become visible in
pieces (`Arrives`; `coming` is what is still missing); a pending interrupt may stand
for several pieces. The worker reads a message part by part: the header, then what a
control message says, or the pacmark and the data of a packet. Each part is an
`rr_read`: it takes what it needs, or sets `need_len`, gives up the wake lock of the
channel ("wait") and looks again before it sleeps ("asleep"). The interrupt takes the
wake lock if there is as much as `need_len`, which may be that of an earlier part,
and wakes the worker. A data packet goes to the `read_q` of its endpoint and may cost
a RESUME_TX; a control message gives the quota back, ends the restart, or says that
the server is somewhere else.

The two halves of the clean-up after a reset of the modem are apart, so everything may
come between them. After it the server is announced at any of `Addresses`: an
endpoint keeps the address it was connected to (`dst_cid`), and the quota is that of
the remote endpoint at `Home`, the only one that is made. A modem that is up reads,
answers or does not, and keeps to the quota as the code here does. The timeout of a
wait for a reply and a signal may come at any moment (`WaitsForReply`, `Interrupted`);
a late reply then meets the next call, or an endpoint that is gone. `SlowWriters` and
`Clearers` are there for two schedules in which the code goes wrong, and empty in
the run.

## Runs

A bound is there to keep a run finite; each is chosen so that every action fires
and each property fails for its mutant within it.

### Runs that pass

**wakelock** (`WakeLock.cfg`, 36,948 states): `main`, `unknown_wakeup`, two driver
locks and an idle lock, timeouts of 0 to 2 jiffies. Two locks beyond `main` are
what it takes for one to expire while another is re-timed; 0 is the timeout that
is over in the jiffy it is taken; 2 lets the timer be shorter or longer than a
lock that is added.
- `TypeOK`
- `NoSleepWithLock`: no suspend lock is active while the system sleeps.
- `NoLostSuspend`: when no lock without a timeout is left, the work is queued or
  running, or the timer is armed or firing.
- `EventNotLost`: when `suspend()` skips `unknown_wakeup` because `main` was taken
  meanwhile, the next attempt is already on its way.
- `TimerRight`: the timer is not before the last expiry, and off when a lock has
  none.
- `PreventingExact`: nobody is charged for the time awake while `main` is held, and
  every lock that keeps the system awake once it is released.
- `SuspendAttempted` (liveness): with the locks left alone, `pm_suspend` is
  reached again and again.

**earlysuspend** (`EarlySuspend.cfg`, 15,269): three handlers, two of one level,
one without a resume hook; they register and leave at any time; any sequence of
requests.
- `MainReleasedOnlySuspended`: `main_wake_lock` is released only with sleep still
  requested and every handler suspended.
- `HandlersAgree`: with the mutex free, each handler is as SUSPENDED says,
  late comers included.
- `HooksAlternate`: no hook is called twice in a row.
- `LevelOrder`: low levels first down, last up.
- `SleepReached`, `WakeupReached` (liveness): the last request is carried out.

**powermanager** (`PowerManager.cfg`, 145,584): both together, with one driver
lock, one handler, one writer, timeouts of 1 jiffy. The parts are checked with
more above; here it is the hand-over that counts.
- `KeepsPromise`: the composition implements `PowerPromise`, liveness included.
- `SleepAttempted` (liveness): sleep asked for, with the locks released, leads to
  attempts to suspend for ever.

**freezer** (`Freezer.cfg`, 411,192): three user tasks (a vfork parent, its child
and a bystander), a kernel thread, one helper whose caller waits for its exec, an
abort at any round.
- `FrozenMeansStopped`: success means every task is stopped or will stop before
  it runs anything more.
- `NobodyWaitsForFrozen`: no user task waits for a kernel thread that is frozen.
- `NothingLeftFrozen`: no way out leaves a task frozen or asked to freeze.
- `NoProcessWhileFrozen` (action property): no helper is executed while tasks are
  frozen, when its caller waits for it.
- `FreezeSucceeds` (liveness): a freezing that is not given up succeeds.

**devicepm** (`DevicePM.cfg`, 24,793): a chain of three devices and a fourth
without a parent, registered and removed during every callback except those of
`dpm_complete` (see [below](#disagreements-found)). Three in a chain have a middle
one that is child and parent.
- `TypeOK`: no device is on the lists twice.
- `DepthFirst`: parents are before children, in the middle of a walk too.
- `CallsPaired`: only prepared devices are suspended, only suspended ones
  resumed.
- `AllOff`: while the system sleeps every device does.
- `NothingLeftOff`: after a suspend, completed or not, every device is as before.
- `BottomUp` (action property): children before parents down, parents first up.

**alarm** (`Alarm.cfg`, 252,672): the two types of alarm that wake the system,
set 2 seconds ahead, the clock set by a second either way, one waiting thread, a
suspend that takes up to a second (in three places, `SlowIn`). An alarm 2 seconds
ahead can be due during the suspend, right after it, or in the sleep. The timeout
of the wake lock (5 s) is scaled to 2 with the length of the suspend to 1; only
their order matters. A third alarm (SYSTEMTIME) without the waiting thread adds
361,183 states and no violation of the safety properties.
- `TimersRun`: back from any suspend, completed, failed or given up, every enabled
  alarm has its timer.
- `SleepsWithNothingPending`: the system does not sleep on an alarm that user
  space has not collected.
- `WakesForAlarm`: it wakes by itself no later than the first alarm and the time
  the suspend took.
- `AlarmsGoOff` (liveness): every wakeup alarm goes off.

**logger** (`Logger.cfg`, 338,822): a ring of 8 bytes, the events log, messages of 1
to 3 cut at 2, one writer, one file and the thread that reads it. Four to eight
entries fill the ring, so it is lapped again and again in every phase of the read.
The log is not flushed between the two sections of a read here: see `logger_flush`.
- `OnBoundary`: head and every reader stand where an entry starts, and the entries
  the ring still knows are whole and lead from one to the next up to `w_off`. With
  `Events = FALSE` it is violated by the first message of 3
  ([below](#disagreements-found)).
- `ReadsOneEntry`: a read copies, and moves the reader past, just the entry the reader
  is at, however often it was lapped; and it returns the length of that entry, unless
  it was lapped in the middle of the read, when it returns that of the entry it lost.
- `KeepsPromise`: the ring implements `LogPromise`: entries are passed in order and
  once, and only the oldest are lost, to a writer in need of room.
- `ReaderServed` (liveness): a reader that waits is served, or the log is empty.

**ashmem** (`Ashmem.cfg`, 173,977): an area of 3 pages and one of 1, up to 3
ranges each. Three pages are what it takes for a request to split a range, to lie
inside one, and to meet two; the second area makes the shrinker's list more than
one area's. Deadlock is not checked, as one is in the code (below).
- `ListsAgree`: ranges are disjoint and sorted, the shrinker's list has what is
  unpinned and not purged, and `lru_count` is its number of pages.
- `UnpinnedExactly`: the pages on the shrinker's list and those in ranges marked
  purged are together what the owner unpinned, and no page is among both: the
  shrinker takes no page in use, and no unpinned page drops out of its sight without
  a range that says it is lost. It may say so wrongly: a page that `ashmem_unpin`
  merges with a purged range is marked and stays where it is
  ([below](#disagreements-found)).
- `LossRemembered`: a page taken lies in a range that says so until its owner has
  been told.

**rpcrouter** (`RpcRouter.cfg`, 989,083): two clients, one of which takes signals and
closes its endpoint; a quota of 1 packet, a channel with room for 1, 2 calls in all,
one restart of the modem, two addresses for the server. A quota of 1 is used up by
each packet and waited for by the other client; the second call may come before,
during or after the restart. A packet is five units long, a control message two, and
the last two of a packet may come later: a wait for the data then sees one unit of
three, and the interrupt that brings the rest finds exactly what is needed. A message
follows the interrupt of the one before (`MayOutrun`); without that bound there are
1.5 million states and no violation. Deadlock is not checked, as the number of calls
is bounded.
- `QuotaConfirmed`: while the modem runs, used up quota is on its way back: the
  packet that asks for it, or the answer, is in the channel or about to be. It is
  not lost with a call that is given up.
- `AwakeForPacket`: when the worker waits and what it waits for is there, the wake
  lock of the channel is held or an interrupt is to come, whatever `need_len` was and
  however the pieces, the interrupts and the looks at the channel are interleaved; a
  packet in a queue holds the wake lock of its endpoint.
- `CallEnds` (liveness): a call ends, whatever becomes of the modem. Two waits
  are excepted, both in `msm_rpc_write_pkt` for the end of a restart (below): with
  RESTART_PEND_NTFY, which nobody clears for a client that has been idle, and with
  RESTART_PEND_SVR when the server is no longer where it was.

### Runs that end in a violation

**alarm_cleared**, **logger_flush**, **ashmem_deadlock**: one disagreement each,
[below](#disagreements-found).

## Fairness

Weak fairness of what the scheduler, the timer interrupt and the softirqs run
without anyone's help: the worker thread, the suspending thread, runnable tasks,
a timer that is due, a registration that has entered its list; in `Logger` the
wake-up that follows a write, and a reading thread that is awake; in `RpcRouter` the
threads, interrupts and the modem's reading of its channel taken together: something
of it goes on as long as anything can, which is less than fairness to each, and
enough as the calls are finite. In `Alarm` the passing of time is strongly
fair: a clock is not kept from advancing by threads that are busy. `DevicePM` and
`Ashmem` have no liveness.

No run assumes that an owner releases a lock, that user space asks for anything,
that a sleep of a task ends, that a helper exits, that a suspend succeeds, that the
modem answers a call, or that something wakes the system; where a liveness
property needs one of these it has it as a premise (`<>[]requested`,
`<>[][~Client]_vars`), or the code has a timeout. `EarlySuspend` lets a handler
register once, so a caller cannot keep the mutex from the worker for ever; the
kernel mutex is not fair in general.

## Proofs

The proofs hold for every value of the constants: any sets of locks, handlers,
tasks, alarms and clients, any tree of devices, any timeouts, levels and quotas.
What a theorem assumes beyond the ASSUMEs of its module stands in its statement
and here.

### Wake locks: WakeLockProofs

| theorem | states | argument |
|---|---|---|
| `TypeCorrect` | `[]TypeOK` | inductive as it stands, one step per action; `ScanResult` and `RearmType` say what a scan and the re-arming of the timer return |
| `SleepsWithoutLock` | `[]NoSleepWithLock` | inductive with `TypeOK`: only `power_suspend_late` enters "asleep", and a scan that returns 0 leaves no active lock; no lock is taken while nothing runs |
| `ProgressMade`, and from it `SuspendNotLost`, `TimerIsRight`, `EventIsNotLost` | `DestroyHeld = {}` implies `Spec => [](NoLostSuspend /\ TimerRight /\ EventNotLost)` | the three are inductive together: a lock that expires unnoticed does no harm only because the timer is armed for it (`HeldMeansTimer`), a scan changes nothing of what is held (`ScanKeeps`), a release or a re-timing sets all three right whatever was before (`RearmProgress`) |
| `ChargesAreRight` | `[]PreventingExact` | inductive with `TypeOK`: what is held after a step is among what the step charges, less what its scan dropped (`DropHeld`, `LockCharges`) |

`ProgressMade` needs `DestroyHeld = {}`: with an owner that destroys a held lock
it is false, as `wake_lock_destroy` looks neither at the timer nor at the queue.

### Early suspend: EarlySuspendProofs

`TypeCorrect`, `MainReleasedSafely`, `HandlersDoAgree`, `HooksDoAlternate` and
`LevelsInOrder` are the type invariant and the four invariants of the run and follow
(`Implied`) from `Invariant`, which is `[]IInv`. None of the five is inductive: each
speaks of what has been called, and that depends on how far the worker has got in a
list that does not change under it. `IInv` says just that: `todo` is the tail of `handlers`
(of its reverse while resuming), the handlers before it are off and the others on
(the other way round), and all or none are off when no walk is under way
(`SuspendingInv`, `ResumingInv`, `RestInv`); the list has no duplicates and is
ordered by level (`ListInv`); and `main_wake_lock` is released only at rest, with
SUSPENDED and the request in place (`MainInv`). The lemmas on the community
modules' `RemoveAt`, `Tail` and `ToSet` come first; they are proved position by
position from the library's theorems on sequences.

### The freezer: SuspendProofs

The theorems on the freezer and those on alarms are two parts of one module: both
models follow the suspending thread through `suspend_prepare` to `suspend_enter`, each
for its share of the calls, and neither's proofs use the other's.

| theorem | states |
|---|---|
| `TypeCorrect` | `[]TypeOK` |
| `FreezeIsComplete` | `[]FrozenMeansStopped` |
| `EverybodyThawed` | `[]NothingLeftFrozen` |
| `FrozenOwesNothing` | `[]NobodyWaitsForFrozen` |
| `NoHelperWhileFrozen` | `EverybodyWaits` implies `Spec => NoProcessWhileFrozen` |

The invariant (`Inv`, with `Holding`) says what has been achieved at each place of
the suspending thread: from the end of the first pass on every user task is held
(`StillHeld`), from the end of the second every task is; a kernel thread
is asked only in the second pass, when nobody in user space is left to wait for it;
once thawing is past a kind of task, none of it is frozen or asked. `HelpersOK`
adds that `running_helpers` is the number of helpers counted. A helper nobody waits
for is not counted while it is queued: hence `EverybodyWaits`.

### Devices: DevicePMProofs

`OrderKept`, `CallsAlwaysPaired`, `SleepsAllOff`, `AllBack`, `ChildrenFirst` and
`TypeCorrect` are the six properties of the run, each for every tree of devices and
any history of registrations, removals and failures, provided that registrations
heed the warning and none happens during `dpm_complete` (`Heeds`; the run has the
same restriction, and without either part there is a counterexample).

They follow from `Invariant`. A walk moves devices one by one from `dpm_list` to
its own list; `ToDo` and `Done` name the two sides, whichever list each is on.
`IInv` says, for each place of the suspending thread, what every device of either
side has been told, and what its status is (`StatusInv`); that between the lists
no device stands before its parent, the walk's own list included (`DepthFirst`,
`WalkInv`); that a registered device has a registered parent (`TreeInv`). The
order of calls then needs no history: the last device of a list ordered so has no
child on it (`LastHasNoChildren`), the first no parent (`HeadHasNoParent`).

### Alarms: SuspendProofs

| theorem | states | argument |
|---|---|---|
| `EnabledAlarmsRun` | `[]TimersRun` | `TimersInv`: `alarm_suspend` cancels the timers of wakeup alarms only, SET_RTC all but the one of SYSTEMTIME, both start what they stopped, and they exclude each other |
| `NothingSleptOver` | `[]SleepsWithNothingPending` | `PendingInv`: an alarm that went off since the suspend began holds `alarm_wake_lock` for longer than the rest of the suspend may take |
| `WakesInTime` | `[]WakesForAlarm` | `WakeInv`: what `alarm_suspend` hands to the RTC driver, and this to the sleep, is before every wakeup alarm; assumes `~SetFails` and that no second passes between the look at the clock and its use (`"set"`, `"late"` not in `SlowIn`) |

### Calls to the modem: RpcRouterProofs

| theorem | states | argument |
|---|---|---|
| `TypeCorrect` | `[]TypeOK` | `TypeInv`, in parts for each group of variables |
| `NoPacketSleptOver` | `[]AwakeForPacket` | who waits has set `need_len` to what it waits for, and each piece that makes it complete has its interrupt (`ChannelAwake`); the wake lock of an endpoint is given up only with its queue empty (`QueuesAwake`). Any lengths of the parts and any pieces |
| `QuotaComesBack` | `SlowWriters = {}` implies `Spec => []QuotaConfirmed` | `QuotaInv`: nobody waits for quota with a restart pending while the modem runs, and a message in a queue stays there while others come and go; `Announced`: no announcement of the server is left over from before the reset |

### The log: LoggerProofs

| theorem | states | under |
|---|---|---|
| `TypeCorrect` | `[]TypeOK` | `Orderly` |
| `BoundaryHolds` | `[]OnBoundary` | the same |
| `ReadIsOneEntry` | `ReadsOneEntry`: of the entry the reader is at, and its length unless the reader was lapped in the middle | the same |
| `PromiseKept` | `KeepsPromise`: the ring implements `LogPromise` | the same |

Any number of writers, threads and files, any lengths of messages, and every size
of the ring of at least twice the longest entry (`SizeAssumption`). `Orderly` is what
the users of the log must heed: `OneThreadPerFile`, `~FlushAnyTime` and `WithinLimit`.

The ring is looked at from `w_off` on: `View` gives the entry that starts a
distance beyond it. Writing an entry of length n is then a shift by n, with the
new entry at the end and what it overwrote gone, and the wrap at the end of the buffer is out of
the way. `IInv` says that the entries whole at a time are chained from boundary to
boundary up to `w_off` (`Chained`), that `head` and each reader stand on one of
these boundaries (`PlacesInv`), and that a thread between the two halves of a read
has the length of the entry it is at, unless `fixed` tells it to look again
(`ReadInv`). `NextEntry` then shows that `get_next_entry` stops on the first
boundary beyond the new entry and before the writer.

What a reader has not read is a list that the model computes by a recursive
function of the distance. It exists, and is what its equation says, by strong
induction (`CourseOfValues`, from the library's well-foundedness of `<` on the
naturals); what `LogPromise` counts as the bytes of a list is treated the same way
(`BytesIs`). From both follow the three facts the refinement rests on: the list of
an unread stretch is as long as the stretch (`ListsBytes`), a write appends to it
(`ListsShift`), and moving a reader on drops entries at its front (`ListsDrop`).

`~FlushAnyTime` keeps LOGGER_FLUSH_LOG from the middle of a read; without it
`ReadsOneEntry` is false (run `logger_flush`). `OneThreadPerFile` says that no two
threads read from one open file: two that do tear a read, as the second half of each
takes the length of the first. The run has one file and one thread, the theorems
any number of both. `WithinLimit` says that the log is log_events or that no message
is longer than LOGGER_ENTRY_MAX_PAYLOAD; without it `OnBoundary` is false.

### Shared memory that may be taken back: AshmemProofs

| theorem | states | under |
|---|---|---|
| `ListsAlwaysAgree` | `[]ListsAgree` | nothing: any allocation may fail |
| `PurgeableIsUnpinned` | `[]UnpinnedExactly` | `AllocFails = {FALSE}` |
| `LossIsTold` | `[]LossRemembered` | the same |
| `TypeCorrect` | `[]TypeOK` | the same |

Any number of areas of any sizes, lists of any length, and any sequence of calls;
the run has two areas, of 3 pages and of 1.

`Orderly` is the invariant of the lists. Each area's list is `Sorted`, every two of
its ranges and not only neighbours, as an insertion or a cut disturbs a list in the
middle. And the lists are `Good`: every unpurged range is as often on the list of its area as its entry
is on `lru`, and `lru_count` is the sum of the sizes on `lru`. That they are the same
*sets*, as `ListsAgree` says, would not be inductive: a request of length 0 at the
end of the area passes the tests of `ashmem_pin_unpin` (503-530) and is put on the
list as a range without pages, a second time as well, since no range of the list
meets it. Taking out one of the two must leave the other, so occurrences are counted
(`Count`), with what an insertion, a removal and a change of one element make of a
count and of a sum of sizes (`CountChanged`, `SizesChanged`). `lru_count`, which the
code keeps by hand in `lru_add`, `lru_del` and `range_shrink`, then follows turn by
turn.

`Covered(P, s)` is the set of pages of those ranges of a list whose flag is in `P`,
so that one lemma each for a range put in, taken out and replaced serves both the
pages that are unpinned and those that are lost; a sorted list has no page both in
a range that is purged and in one that is not (`PurgedApart`), and the latter are the
pages of `lru` (`LruIsPages`). The loops are induction on the
number of turns (`LoopExists`: the function that the model defines by recursion
exists, and every turn keeps what a turn keeps). What they keep is `PinKept` and
`UnpinKept`: the ranges passed have no page of the request, the pages outside the
request are as they were, whatever was dropped had been unpinned, and there are
no more ranges to come than turns. The end of the loop then gives what the owner
expects: `ashmem_pin` takes exactly the request from what is unpinned
(`PinEnded`), `ashmem_unpin` adds exactly the request (`UnpinIs`), both whatever
the ranges were, and neither drops the mark of a page that stays. With it `Told`,
which ties the lists to `unpinned` and `lost`, is inductive.

`AllocFails = {FALSE}` is not a convenience: when `range_alloc` fails,
`ashmem_pin` does not notice, cuts the range and so forgets what lay above the
request (435-437), and `ashmem_unpin` has deleted the ranges it was to merge. Both
properties fail then
([below](#disagreements-found)). The lists stay in order all the same, which is
why the first theorem does without.

### The power manager as a whole: PowerManagerProofs

`LocksImplemented` and `EarlyImplemented` prove that the composition implements
each half: `Spec => WP!Spec` and `Spec => EP!Spec`, where `WP` and `EP` are the
proof modules of the halves under the refinement mapping. Every theorem above on
wake locks and early suspend so carries over to the whole at no cost.
`EarlyImplemented` needs one fact of the other half, its type invariant.

`StepsPromised` is the safety half of `KeepsPromise`: initial states map to initial
states of `PowerPromise`, and every step is one of its steps or a stutter. It rests
on `WholeKept`, `[]WholeInv`: the two halves agree on the queue and the thread
(`LinkInv`), the drivers are all off or all on when no walk is under way
(`Screen = ScreenIs`, which comes from early suspend's `IInv`), and
`main_wake_lock` is released only with the screen off and sleep asked for.

### Model-checked only

Every safety property of the passing runs is proved, and the refinement of
`LogPromise`. With TLC alone: all liveness, and the fairness half of `KeepsPromise`
of `PowerManager`, which are out of the prover's reach. The three runs that end in a
violation show that what they state is false, so nothing is proved of it.

## Disagreements found

With a run that shows them:

1. `alarm_cleared`. The RTC alarm is "disabled" with a zeroed time, which
   `rtc_valid_tm` refuses (`drivers/rtc/rtc-lib.c:97`), so the driver is never told;
   a later sleep ends for an alarm that was cleared, where
   `include/linux/android_alarm.h:47` says "Disable alarm".
2. `logger_flush`. `drivers/staging/android/logger.c:236` says "Atomically reads
   exactly one log entry". LOGGER_FLUSH_LOG between the two sections of a read moves
   the reader without setting `fixed`: the read copies as many bytes as the entry it
   was at had, from where there is none, and leaves the reader ahead of the writer.
3. `ashmem_deadlock`. `mm/ashmem.c:343` copies a name from its caller with
   `ashmem_mutex` held; a page that is absent is brought in under `mmap_sem`, which
   `mmap` of another thread holds while it waits for `ashmem_mutex`. The lock order
   at line 70 has no word of `mmap_sem`.

Found while modelling, and described here without a run:

- A user mode helper inherits PF_NOFREEZE from khelper (`kernel/fork.c:892`) and
  exec does not clear it (`fs/exec.c:1334`): it runs on while everything is frozen,
  though `Documentation/power/freezing-of-tasks.txt:13` calls all user space
  freezable. And a request that waits for nothing is not counted while it is queued
  (`kernel/kmod.c:275`), so khelper may execute it later.
- `dpm_complete` builds its list from the tail (`drivers/base/power/main.c:31` on
  the order): a child registered during `complete()` ends up in front of its
  parent, and the following suspend stops the parent first.
- `global_state` is set and the request made with no lock around the two
  (`kernel/power/main.c:564`): two writers may leave the wrong one on show.
- When the RTC could not be set it differs from the wall clock, and
  `drivers/rtc/rtc-msm.c:293`, which compares an alarm in the one with the other,
  refuses the alarm; `drivers/rtc/alarm.c:379` ignores that, and the phone sleeps
  on.
- `logger.c`: `write_log_entry_mainradio` cuts the length in the header and the room it
  makes to LOGGER_ENTRY_MAX_PAYLOAD (609-620) but stores the message whole (624-628),
  so that `w_off` ends beyond the boundary and the readers made no room for the rest
  (`WithinLimit`); a read that was lapped in the middle copies the new entry and
  returns the length of the old one (183, 197-200), against the comment at 171
  ("Returns 'count' on success"), and does not compare the new length with the size of
  the caller's buffer (297); an entry whose copy to user space fails is lost to its
  reader, whose `r_off` has moved on (212-218); `get_next_entry` may skip an entry more than the comment at 343
  says; the comment at 1050 on the size of a log is too weak, as moving a reader
  on must not take it past the writer (`SizeAssumption`: twice the longest
  entry); two threads that read from one file can tear a read, as the second
  section of each takes the length of the first; `logger_release` removes the
  reader without `bufflock` (801), against the comment at 64.
- `ashmem.c`: unpinning pages that overlap a purged range makes one purged range
  of both, and those that were not purged can no longer be taken; when
  `range_alloc` fails in `ashmem_unpin`, after the ranges it was to replace are
  gone, what was purged is forgotten (476).
- `smd_rpcrouter.c`: a client that waits for quota and still sleeps when the
  restarted modem announces its server takes quota for a packet that the restart
  check then drops, the request for RESUME_TX with it (1189, 1205; `SlowWriters`);
  `msm_rpc_clear_netreset` (1853) ends a pending restart without waking who waits
  for that (`Clearers`); a kernel client that only uses `msm_rpc_call` never
  clears RESTART_PEND_NTFY, so its first call after a reset that found it idle
  waits for ever (1108-1123, the first exception in `CallEnds`); a server announced at
  another address only has the address changed (728-731): RESTART_PEND_SVR stays,
  nobody on `restart_wait` is woken, so a call that waits there never ends (the second
  exception), quota stays aborted, and later connections are made to an address
  without a remote endpoint (1415); the worker may have a packet in hand without a
  wake lock, as it may read data before their interrupt, which then finds less than
  `need_len` (834-837, 2136), or after an interrupt that was measured by an earlier
  `need_len`; a reset in the middle of a message leaves the worker to take what comes
  next for the rest of it; a read without a
  timeout is not ended by the wake-up of the reset (1613); the reset empties
  `read_q` without releasing its wake lock, which then lasts until the next read;
  an endpoint can be freed while the worker holds its pointer (969-1015 against
  518); and the destruction of endpoints sends a message, which may sleep, under a
  spinlock (494-503).

## Limits

- A suspend is assumed to take less than the 5 seconds of `alarm_wake_lock`, and
  in the run `alarm` the second of `alarm_rtc_wake_lock` to suffice for what comes
  after it. The RTC answers its RPCs in time and `rtc_read_time` does not fail.
- `Alarm` leaves out `alarm_check_flag`: it is read only where no wakeup alarm is
  then enabled. That an elapsed realtime alarm may go off early in the middle of
  `SET_RTC` is in the model and no property excludes it. `SET_RTC` with a time
  that `do_settimeofday` refuses is not in it.
- `pm_suspend` is opaque in `WakeLock` and `PowerManager`, and its parts are
  separate in `Freezer`, `DevicePM` and `Alarm`: no run has all of them together.
  What they share is the order of calls in `suspend_prepare`,
  `suspend_devices_and_enter` and `suspend_enter`, which each follows for its part.
- The notifiers, the platform hooks, the tests of `kernel/power/main.c`, the
  choice between class, type and bus callbacks, `kernel_power_off` (which requests a
  state from `kernel/sys.c:407`), the statistics and the messages are left out.
- The runs of `Logger` have one file and one thread for it: two threads on a file tear
  each other's reads (above), and files share nothing but the ring. They are of the
  events log: in the others a message over the limit breaks the entries at once
  (above). What an entry holds, poll, the queries of lengths, and the calls of
  `logger_aio_write` that fail or are filtered before anything is written are left out.
- `Ashmem` leaves out the protection mask, SET_SIZE, the queries, and the calls of
  `mmap` that end in an error (217-225, 237-239) and change nothing. `AllocFails` is
  {FALSE} in the run: with TRUE the loss described above is found.
- `RpcRouter` has one server, of the modem. Servers on this side, fragments, more
  than one channel, the discovery of servers and the devices of user space are left
  out, and so are headers of the wrong version or size, which end the worker for
  good. An endpoint is destroyed only while the worker has no packet for it in hand
  (`msm_rpcrouter_destroy_local_endpoint`): what freed memory does is not modelled; nor
  is REMOVE_CLIENT, which the modem is sent first and which can fail only before there
  is a server to connect to. When the modem is reset, the rest of a message that the
  worker has begun to read is in the channel already, and an announcement of the
  server has been read whole: half of an old one followed by the reset would undo the
  abort of the quota. When the modem is back, the worker has read what was left.
- Wake locks are used as the header asks: initialised first, `unknown_wakeup` and
  `main_wake_lock` used only by the power manager.

## Not modelled

| part | code | why |
|---|---|---|
| user wake locks | `kernel/power/userwakelock.c` | a tree of names and the parsing of a string, sequential under one mutex; the wake locks it takes are those of `WakeLock`. Its timeout is converted from 64 bits of nanoseconds to 32 bits, beyond the integers of TLC |
| sleep of the processor | `arch/arm/mach-msm/pm2.c` | one step of the models; the handshake writes registers and shared memory whose other reader is the firmware of the modem |
| shared memory driver | `arch/arm/mach-msm/smd.c` | two rings and the state machine of a channel whose other half is that firmware; `RpcRouter` uses the channel as a queue |
| calls to the modem | `arch/arm/mach-msm/proc_comm.c`, `remote_spinlock.c` | the same |
| binder | `drivers/staging/android/binder.c` | the largest Android driver; reference counts, thread pools and death notices would each need a module, and are left out whole rather than modelled in part |
| physical memory | `drivers/misc/pmem.c` | a buddy allocator and the map, unmap and revoke of its files; beside the power manager, left out for its size |
| low memory killer, timed outputs, RAM console | `drivers/staging/android/` | one function each, or arithmetic on a buffer |
| console and framebuffer early suspend | `kernel/power/consoleearlysuspend.c`, `fbearlysuspend.c` | two handlers of early suspend: elements of `Handlers` |
| board and peripheral drivers | `arch/arm/mach-msm/board-europa.c` and others | tables and register transfers |
| the Linux kernel of kernel.org | the rest of the tree | used by its contract: locks, timers, wait queues, work queues |
| user space | `src/busybox`, `src/iproute2_src`, `src/iperf-2.0.4`, `src/external`, `src/vendor` | vendored, or a tunnel to a binary |

The tree has more than ten million lines, nearly all of them drivers of other
hardware and other projects; the modules cover the parts above and make no claim
about the rest.
