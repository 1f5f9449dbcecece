SPECIFICATION AlarmFairSpec
CONSTANTS
    Types <- WakeupTypes
    Ahead = {2}
    Jumps <- MCJumps
    MaxSkew = 1
    MaxAhead = 2
    SetFails = FALSE
    SlowIn = {"frozen", "cancel", "alarm_done"}
    SuspendTime = 1
    LockTime = 2
    Waiters = {w}
INVARIANTS
    TimersRun
    SleepsWithNothingPending
    WakesForAlarm
PROPERTY
    AlarmsGoOff
