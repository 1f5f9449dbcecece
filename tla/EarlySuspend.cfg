SPECIFICATION FairSpec
CONSTANTS
    screen = screen
    keypad = keypad
    console = console
    Handlers = {screen, keypad, console}
    Level <- MCLevel
    Suspenders = {screen, keypad, console}
    Resumers = {screen, keypad}
INVARIANTS
    MainReleasedOnlySuspended
    HandlersAgree
    HooksAlternate
    LevelOrder
PROPERTIES
    SleepReached
    WakeupReached
