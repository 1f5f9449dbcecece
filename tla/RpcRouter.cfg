SPECIFICATION Spec
CONSTANTS
    Clients = {c1, c2}
    Quota = 1
    Room = 1
    HeaderLen = 1
    ControlLen = 1
    PacmarkLen = 1
    DataLen = 3
    MayLack = {2}
    MayOutrun = FALSE
    Home = "home"
    Addresses = {"home", "away"}
    Closers = {c1}
    Interruptible = {c1}
    SlowWriters = {}
    Clearers = {}
    MaxCalls = 2
    MaxResets = 1
INVARIANTS
    QuotaConfirmed
    AwakeForPacket
PROPERTY
    CallEnds
CHECK_DEADLOCK FALSE
