SPECIFICATION FairSpec
CONSTANTS
    SuspendLocks = {main, unknown, data, rpc}
    IdleLocks = {radio}
    Main = main
    Unknown = unknown
    MaxTimeout = 2
    UnknownTimeout = 1
    DestroyHeld = {}
INVARIANTS
    TypeOK
    NoSleepWithLock
    NoLostSuspend
    EventNotLost
    TimerRight
    PreventingExact
PROPERTIES
    SuspendAttempted
