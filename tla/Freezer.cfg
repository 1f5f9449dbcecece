SPECIFICATION FairSpec
CONSTANTS
    UserTasks = {t1, t2, t3}
    KernelTasks = {k}
    r1 = r1
    Requests = {r1}
    Waits <- MCWaits
INVARIANTS
    FrozenMeansStopped
    NobodyWaitsForFrozen
    NothingLeftFrozen
PROPERTIES
    NoProcessWhileFrozen
    FreezeSucceeds
