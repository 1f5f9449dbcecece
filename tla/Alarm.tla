------------------------------- MODULE Alarm -------------------------------
(***************************************************************************)
(* The Android alarm driver (drivers/rtc/alarm.c) and the two ends of the  *)
(* clock behind it (drivers/rtc/rtc-msm.c): alarms are high resolution     *)
(* timers while the system is awake; when it is about to sleep the first   *)
(* of the wakeup alarms is handed to the RTC driver, which tells msm_pm    *)
(* for how long it may sleep.                                              *)
(*                                                                         *)
(* A section under alarm_slock is one action; on this uniprocessor a timer *)
(* handler is one too, as it runs with the interrupts off.  Time is in     *)
(* seconds and relative: left[t] is how far alarm_time[t] is ahead on the  *)
(* clock of its type, so elapsed_rtc_delta, which keeps elapsed realtime   *)
(* going when the wall clock is set, shows only as the types left alone.   *)
(* alarm_check_flag is left out: it is read only where alarm_start_hrtimer *)
(* then finds no wakeup alarm enabled.  A thread in WAIT is thrown out by  *)
(* the freezer and calls again; the time of SET_AND_WAIT is set again then.*)
(***************************************************************************)
EXTENDS Integers, FiniteSetsExt

CONSTANTS
    Types,        \* the types of alarm in use
    Ahead,        \* how far ahead an alarm is set
    Jumps,        \* how far the wall clock is set back or forth
    MaxSkew,      \* bound: how far it may be from the RTC
    MaxAhead,     \* bound: how far ahead of the clock an alarm may get
    SetFails,     \* rtc_set_time may fail (the modem answers by RPC)
    SlowIn,       \* phases of a suspend in which a second may pass
    SuspendTime,  \* bound: seconds from the freezing to the sleep
    LockTime,     \* 5 * HZ, the timeout of alarm_wake_lock
    Waiters       \* threads in ANDROID_ALARM_WAIT

Wakeup == {"RTC_WAKEUP", "ELAPSED_REALTIME_WAKEUP"}
WallClock == {"RTC_WAKEUP", "RTC"}
Elapsed == {"ELAPSED_REALTIME_WAKEUP", "ELAPSED_REALTIME"}
Flags == Types \cup {"TIME_CHANGE"}

Suspending == {"frozen", "cancel", "set", "alarm_done", "late"}
Phases == Suspending \cup {"run", "asleep", "resume_rtc", "resume_alarm"}

(* A suspend takes less than the 5 seconds alarm_wake_lock is held.        *)
ASSUME TypesAssumption == Wakeup \subseteq Types /\ Types \subseteq Wakeup \cup WallClock \cup Elapsed \cup {"SYSTEMTIME"}
ASSUME TimeAssumption ==
    /\ MaxAhead \in Nat
    /\ Ahead \subseteq 0..MaxAhead
    /\ Jumps \subseteq Int
    /\ MaxSkew \in Nat
    /\ SuspendTime \in Nat
    /\ LockTime \in Nat
    /\ SuspendTime < LockTime
    /\ SlowIn \subseteq Suspending
    /\ SetFails \in BOOLEAN

VARIABLES
    opened,        \* alarm_opened
    enabled,       \* alarm_enabled
    left,          \* seconds alarm_time is ahead, 0 for alarms not enabled
    timers,        \* the hrtimers that are started
    pending,       \* alarm_pending
    wait_pending,  \* a WAIT has returned and is not acknowledged
    alarm_lock,    \* seconds alarm_wake_lock is held for
    rtc_lock,      \* seconds alarm_rtc_wake_lock is held for
    waiter,        \* where each thread is in ANDROID_ALARM_WAIT
    setting,       \* where the thread with alarm_setrtc_mutex is
    jump,          \* how far it sets the wall clock
    skew,          \* the wall clock less the RTC
    rtc,           \* {rtcalarm_time less the RTC}, {} if it is 0
    phase,         \* where pm_suspend is, "run" outside it
    spent,         \* seconds it has taken
    max_sleep      \* msm_pm_max_sleep_time, 0 for ever; each suspend sets it,
                   \* and it is 0 here while none does

alarmVars == <<opened, enabled, left, timers, pending, wait_pending, waiter>>
lockVars == <<alarm_lock, rtc_lock>>
clockVars == <<setting, jump, skew>>
sleepVars == <<rtc, phase, spent, max_sleep>>
allVars == <<alarmVars, lockVars, clockVars, sleepVars>>

(* Times further past than any skew can tell apart are the same.           *)
Passed(n) == Max({n, -1 - MaxSkew})

(* The expiry of a started timer has come.  Between the two halves of      *)
(* SET_RTC elapsed_rtc_delta is ahead of the wall clock.                   *)
Due(t) == left[t] + (IF t \in Elapsed /\ setting = "cancelled" THEN jump ELSE 0) <= 0
Prompt == \A t \in timers : ~Due(t)

UserRuns == phase = "run"
-----------------------------------------------------------------------------
AlarmInit ==
    /\ opened = FALSE
    /\ enabled = {}
    /\ left = [t \in Types |-> 0]
    /\ timers = {}
    /\ pending = {}
    /\ wait_pending = FALSE
    /\ alarm_lock = 0
    /\ rtc_lock = 0
    /\ waiter = [w \in Waiters |-> "out"]
    /\ setting = "out"
    /\ jump = 0
    /\ skew = 0
    /\ rtc = {}
    /\ phase = "run"
    /\ spent = 0
    /\ max_sleep = 0

(* ANDROID_ALARM_CLEAR                                                     *)
Clear(t) ==
    /\ UserRuns
    /\ opened' = TRUE
    /\ timers' = timers \ {t}
    /\ enabled' = enabled \ {t}
    /\ left' = [left EXCEPT ![t] = 0]
    /\ pending' = pending \ {t}
    /\ alarm_lock' = IF pending = {t} /\ ~wait_pending THEN 0 ELSE alarm_lock
    /\ UNCHANGED <<wait_pending, waiter, rtc_lock, clockVars, sleepVars>>

(* ANDROID_ALARM_SET, and the first half of ANDROID_ALARM_SET_AND_WAIT     *)
Set(t, time) ==
    /\ UserRuns
    /\ opened' = TRUE
    /\ left' = [left EXCEPT ![t] = time]
    /\ enabled' = enabled \cup {t}
    /\ timers' = timers \cup {t}
    /\ UNCHANGED <<pending, wait_pending, waiter, lockVars, clockVars, sleepVars>>

(* ANDROID_ALARM_WAIT acknowledges what the last one has returned.         *)
WaitBegins(w) ==
    /\ UserRuns
    /\ waiter[w] = "out"
    /\ opened' = TRUE
    /\ waiter' = [waiter EXCEPT ![w] = "waiting"]
    /\ IF pending = {} /\ wait_pending
       THEN alarm_lock' = 0 /\ wait_pending' = FALSE
       ELSE UNCHANGED <<alarm_lock, wait_pending>>
    /\ UNCHANGED <<enabled, left, timers, pending, rtc_lock, clockVars, sleepVars>>

WaitEvent(w) ==
    /\ UserRuns
    /\ waiter[w] = "waiting"
    /\ pending # {}
    /\ waiter' = [waiter EXCEPT ![w] = "woken"]
    /\ UNCHANGED <<opened, enabled, left, timers, pending, wait_pending>>
    /\ UNCHANGED <<lockVars, clockVars, sleepVars>>

WaitReturns(w) ==
    /\ UserRuns
    /\ waiter[w] = "woken"
    /\ waiter' = [waiter EXCEPT ![w] = "out"]
    /\ wait_pending' = TRUE
    /\ pending' = {}
    /\ rtc_lock' = IF pending \cap Wakeup # {} THEN 0 ELSE rtc_lock
    /\ UNCHANGED <<opened, enabled, left, timers, alarm_lock, clockVars, sleepVars>>

(* The file is closed: no thread is in an ioctl.  The sections of its loop *)
(* are one step, what fires between them is cleared with the rest.         *)
alarm_release ==
    /\ UserRuns
    /\ opened
    /\ \A w \in Waiters : waiter[w] = "out"
    /\ enabled' = {}
    /\ left' = [t \in Types |-> 0]
    /\ timers' = {}
    /\ alarm_lock' = IF pending # {} \/ wait_pending THEN 0 ELSE alarm_lock
    /\ pending' = {}
    /\ wait_pending' = FALSE
    /\ opened' = FALSE
    /\ UNCHANGED <<waiter, rtc_lock, clockVars, sleepVars>>
-----------------------------------------------------------------------------
(* ANDROID_ALARM_SET_RTC, which any file may call, under alarm_setrtc_mutex*)

SetRtcCancel(by) ==
    /\ UserRuns
    /\ setting = "out"
    /\ skew + by \in -MaxSkew..MaxSkew
    /\ \A t \in enabled \cap WallClock : left[t] - by <= MaxAhead
    /\ \A n \in rtc : n - skew - by <= MaxAhead
    /\ setting' = "cancelled"
    /\ jump' = by
    /\ timers' = timers \cap {"SYSTEMTIME"}
    /\ UNCHANGED <<opened, enabled, left, pending, wait_pending, waiter>>
    /\ UNCHANGED <<lockVars, skew, sleepVars>>

do_settimeofday ==
    /\ setting = "cancelled"
    /\ setting' = "set"
    /\ jump' = 0
    /\ skew' = skew + jump
    /\ left' = [t \in Types |-> IF t \in enabled \cap WallClock THEN Passed(left[t] - jump)
                                ELSE left[t]]
    /\ UNCHANGED <<opened, enabled, timers, pending, wait_pending, waiter>>
    /\ UNCHANGED <<lockVars, sleepVars>>

(* Mutant: only the types that follow the wall clock are started again.    *)
SetRtcRestartWall ==
    /\ setting = "set"
    /\ setting' = "started"
    /\ timers' = timers \cup (enabled \cap WallClock)
    /\ UNCHANGED <<opened, enabled, left, pending, wait_pending, waiter>>
    /\ UNCHANGED <<lockVars, jump, skew, sleepVars>>

SetRtcRestart ==
    /\ setting = "set"
    /\ setting' = "started"
    /\ timers' = timers \cup (enabled \ {"SYSTEMTIME"})
    /\ UNCHANGED <<opened, enabled, left, pending, wait_pending, waiter>>
    /\ UNCHANGED <<lockVars, jump, skew, sleepVars>>

(* rtc_set_time; the waiters are told whether or not it succeeds.          *)
SetRtcWrite ==
    /\ setting = "started"
    /\ setting' = "out"
    /\ pending' = pending \cup {"TIME_CHANGE"}
    /\ \/ skew' = 0 /\ rtc' = {Passed(n - skew) : n \in rtc}
       \/ SetFails /\ UNCHANGED <<skew, rtc>>
    /\ UNCHANGED <<opened, enabled, left, timers, wait_pending, waiter>>
    /\ UNCHANGED <<lockVars, jump, phase, spent, max_sleep>>
-----------------------------------------------------------------------------
(* The timer interrupt.  A timer is started for enabled alarms only, and   *)
(* cancelled with the alarm: alarm_enabled has the alarm.                  *)
alarm_timer_triggered(t) ==
    /\ phase # "asleep"
    /\ t \in timers /\ Due(t)
    /\ timers' = timers \ {t}
    /\ alarm_lock' = LockTime
    /\ enabled' = enabled \ {t}
    /\ left' = [left EXCEPT ![t] = 0]
    /\ pending' = pending \cup {t}
    /\ UNCHANGED <<opened, wait_pending, waiter, rtc_lock, clockVars, sleepVars>>

(* A second passes, on every clock; SYSTEMTIME stands still in sleep.  A   *)
(* timer that is due has fired before.                                     *)
Tick ==
    /\ phase = "asleep" \/ Prompt
    /\ \/ phase \in {"run", "asleep"} /\ spent' = spent
       \/ phase \in SlowIn /\ spent < SuspendTime /\ spent' = spent + 1
    /\ left' = [t \in Types |->
                  IF t \in enabled /\ ~(phase = "asleep" /\ t = "SYSTEMTIME")
                  THEN Passed(left[t] - 1) ELSE left[t]]
    /\ alarm_lock' = Max({0, alarm_lock - 1})
    /\ rtc_lock' = Max({0, rtc_lock - 1})
    /\ rtc' = {Passed(n - 1) : n \in rtc}
    /\ IF phase = "asleep" /\ max_sleep > 0
       THEN /\ max_sleep' = max_sleep - 1
            /\ phase' = IF max_sleep = 1 THEN "resume_rtc" ELSE phase
       ELSE UNCHANGED <<phase, max_sleep>>
    /\ UNCHANGED <<opened, enabled, timers, pending, wait_pending, waiter, clockVars>>
-----------------------------------------------------------------------------
(* Suspend and resume.                                                     *)

SuspendStep(from, to) ==
    /\ phase = from
    /\ phase' = to
    /\ spent' = IF to = "run" THEN 0 ELSE spent
    /\ UNCHANGED <<opened, pending, enabled, left, wait_pending, clockVars, alarm_lock>>

(* suspend() has found no wake lock and user space is frozen: threads on   *)
(* their way out of an ioctl have got there, those that wait give up.      *)
PmSuspend ==
    /\ SuspendStep("run", "frozen")
    /\ alarm_lock = 0 /\ rtc_lock = 0
    /\ setting = "out"
    /\ \A w \in Waiters : waiter[w] # "out" => waiter[w] = "waiting" /\ pending = {}
    /\ waiter' = [w \in Waiters |-> "out"]
    /\ UNCHANGED <<timers, rtc_lock, rtc, max_sleep>>

(* Mutant: what is pending is not looked at.                               *)
alarm_suspend_no_check ==
    /\ SuspendStep("frozen", IF enabled \cap Wakeup = {} THEN "alarm_done" ELSE "cancel")
    /\ UNCHANGED <<waiter, timers, rtc_lock, rtc, max_sleep>>

(* alarm_suspend up to the unlock: -EBUSY, nothing to do, or go on.        *)
alarm_suspend ==
    /\ SuspendStep("frozen", IF pending # {} /\ alarm_lock = 0 THEN "run"
                             ELSE IF enabled \cap Wakeup = {} THEN "alarm_done" ELSE "cancel")
    /\ UNCHANGED <<waiter, timers, rtc_lock, rtc, max_sleep>>

AlarmSuspendCancel ==
    /\ SuspendStep("cancel", "set")
    /\ Prompt
    /\ timers' = timers \ (enabled \cap Wakeup)
    /\ UNCHANGED <<waiter, rtc_lock, rtc, max_sleep>>

(* Mutant: the later of two wakeup alarms is chosen.                       *)
ProgrammedLater ==
    LET R == "RTC_WAKEUP"
        E == "ELAPSED_REALTIME_WAKEUP"
    IN  IF R \in enabled /\ (E \notin enabled \/ left[R] > left[E]) THEN {left[R]}
        ELSE IF E \in enabled THEN {left[E]} ELSE Ahead

(* The alarm alarm_suspend chooses.  If the last one has just fired it is  *)
(* a time set earlier, for an alarm no longer enabled.                     *)
Programmed ==
    LET R == "RTC_WAKEUP"
        E == "ELAPSED_REALTIME_WAKEUP"
    IN  IF R \in enabled /\ (E \notin enabled \/ left[R] < left[E]) THEN {left[R]}
        ELSE IF E \in enabled THEN {left[E]} ELSE Ahead

(* rtc_set_alarm with a time n seconds ahead of the RTC: the driver refuses*)
(* one that is past, but on the wall clock, and has none set then.         *)
virtual_alarm_set(n) == IF skew > n THEN {} ELSE {n}

(* rtc_set_alarm with enabled = 0 and a zeroed time, which rtc_valid_tm    *)
(* refuses: the driver is not called, its alarm stays.                     *)
RtcDisabled == rtc

(* Fractions of seconds are dropped.  The rest of alarm_suspend, for an    *)
(* alarm about to go off, has no effect but RtcDisabled, and returns 0.    *)
AlarmSuspendSet ==
    /\ SuspendStep("set", "alarm_done")
    /\ \E n \in Programmed, dropped \in 0..1 : rtc' = virtual_alarm_set(n - dropped)
    /\ UNCHANGED <<waiter, timers, rtc_lock, max_sleep>>

(* alarm_triggered_func takes alarm_rtc_wake_lock for 1 * HZ.              *)
Expires == rtc' = {} /\ rtc_lock' = 1

msmrtc_suspend ==
    /\ SuspendStep("alarm_done", "late")
    /\ IF \E n \in rtc : n <= 0
       THEN Expires /\ max_sleep' = 0
       ELSE /\ max_sleep' = Max({0} \cup rtc)
            /\ UNCHANGED <<rtc, rtc_lock>>
    /\ UNCHANGED <<waiter, timers>>

(* Another device refuses to suspend, or another wake lock is held.        *)
SuspendFails ==
    /\ \/ SuspendStep("frozen", "run")
       \/ SuspendStep("alarm_done", "resume_alarm")
       \/ SuspendStep("late", "resume_rtc")
    /\ UNCHANGED <<waiter, timers, rtc_lock, rtc, max_sleep>>

power_suspend_late ==
    /\ SuspendStep("late", IF alarm_lock > 0 \/ rtc_lock > 0 THEN "resume_rtc" ELSE "asleep")
    /\ UNCHANGED <<waiter, timers, rtc_lock, rtc, max_sleep>>

(* An interrupt other than that of the sleep timer.                        *)
WakeUp ==
    /\ SuspendStep("asleep", "resume_rtc")
    /\ UNCHANGED <<waiter, timers, rtc_lock, rtc, max_sleep>>

msmrtc_resume ==
    /\ SuspendStep("resume_rtc", "resume_alarm")
    /\ IF \E n \in rtc : n <= 0 THEN Expires ELSE UNCHANGED <<rtc, rtc_lock>>
    /\ max_sleep' = 0
    /\ UNCHANGED <<waiter, timers>>

(* Mutant: the timers are not started again.                               *)
alarm_resume_no_start ==
    /\ SuspendStep("resume_alarm", "run")
    /\ rtc' = IF enabled \cap Wakeup # {} THEN RtcDisabled ELSE rtc
    /\ UNCHANGED <<waiter, timers, rtc_lock, max_sleep>>

alarm_resume ==
    /\ SuspendStep("resume_alarm", "run")
    /\ rtc' = IF enabled \cap Wakeup # {} THEN RtcDisabled ELSE rtc
    /\ timers' = timers \cup (enabled \cap Wakeup)
    /\ UNCHANGED <<waiter, rtc_lock, max_sleep>>
-----------------------------------------------------------------------------
SettingClock == do_settimeofday \/ SetRtcRestart \/ SetRtcWrite

Client ==
    \/ \E t \in Types : Clear(t) \/ \E time \in Ahead : Set(t, time)
    \/ \E by \in Jumps : SetRtcCancel(by)
    \/ alarm_release

Waiting == \E w \in Waiters : WaitBegins(w) \/ WaitEvent(w) \/ WaitReturns(w)

PowerWork ==
    \/ alarm_suspend \/ AlarmSuspendCancel \/ AlarmSuspendSet
    \/ msmrtc_suspend \/ SuspendFails \/ power_suspend_late
    \/ msmrtc_resume \/ alarm_resume

AlarmNext ==
    \/ Client \/ Waiting \/ SettingClock \/ PowerWork
    \/ \E t \in Types : alarm_timer_triggered(t)
    \/ Tick \/ PmSuspend \/ WakeUp

(* Interrupts are taken, the threads of a suspend and of SET_RTC go on, and*)
(* time passes: no step that others take without it keeps it away.  Nobody *)
(* has to wake the system, to wait for an alarm or to clear one.           *)
AlarmFairness ==
    /\ \A t \in Types : WF_allVars(alarm_timer_triggered(t))
    /\ WF_allVars(PowerWork)
    /\ WF_allVars(SettingClock)
    /\ SF_allVars(Tick)

AlarmSpec == AlarmInit /\ [][AlarmNext]_allVars
AlarmFairSpec == AlarmSpec /\ AlarmFairness
-----------------------------------------------------------------------------
(* Every variable has its type, and an alarm not enabled has no time.      *)
AlarmTypeOK ==
    /\ opened \in BOOLEAN
    /\ enabled \in SUBSET Types
    /\ left \in [Types -> Int]
    /\ \A t \in Types \ enabled : left[t] = 0
    /\ timers \in SUBSET enabled
    /\ pending \in SUBSET Flags
    /\ wait_pending \in BOOLEAN
    /\ alarm_lock \in 0..LockTime
    /\ rtc_lock \in 0..1
    /\ waiter \in [Waiters -> {"out", "waiting", "woken"}]
    /\ setting \in {"out", "cancelled", "set", "started"}
    /\ jump \in Jumps \cup {0}
    /\ skew \in -MaxSkew..MaxSkew
    /\ rtc \in SUBSET Int
    /\ \A m, n \in rtc : m = n
    /\ phase \in Phases
    /\ spent \in 0..SuspendTime
    /\ max_sleep \in Nat

(* While user space runs an enabled alarm has its timer, whatever mix of   *)
(* suspends that succeed, fail or are given up, of clock settings and of   *)
(* clears came before; only SET_RTC may have cancelled it for now.         *)
TimersRun ==
    phase = "run" /\ setting \notin {"cancelled", "set"} => enabled \subseteq timers

(* The system does not sleep on an alarm that has gone off and that user   *)
(* space has not collected, or on a change of the clock.                   *)
SleepsWithNothingPending == phase = "asleep" => pending = {}

(* When the system sleeps with a wakeup alarm enabled it will wake up by   *)
(* itself, and no later than the alarm and the time the suspend took.      *)
WakesForAlarm ==
    phase = "asleep" =>
        \A t \in enabled \cap Wakeup :
            /\ max_sleep > 0
            /\ max_sleep <= Max({0, left[t]}) + SuspendTime

(* The system does not wake up for an alarm that was cleared.              *)
WakesForAlarmOnly == phase = "asleep" /\ max_sleep > 0 => enabled \cap Wakeup # {}

(* Once no alarm is set or cleared and the clock is left alone, every      *)
(* wakeup alarm goes off, however often the system goes to sleep before.   *)
AlarmsGoOff == <>[][~Client]_allVars => []<>(enabled \cap Wakeup = {})
=============================================================================
