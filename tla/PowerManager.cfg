SPECIFICATION FairSpec
CONSTANTS
    SuspendLocks = {main, unknown, data}
    IdleLocks = {}
    Main = main
    Unknown = unknown
    MaxTimeout = 1
    UnknownTimeout = 1
    DestroyHeld = {}
    screen = screen
    keypad = keypad
    Handlers = {screen}
    Level <- MCLevel
    Suspenders = {screen}
    Resumers = {screen}
    Writers = {app}
PROPERTIES
    KeepsPromise
    SleepAttempted
