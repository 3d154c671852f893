SPECIFICATION FairSpec
CONSTANTS
    Client = {c1}
    Thread = {t1, t2, t3}
    Lock = {l1, l2}
    NoClient = NoClient
    NoLock = NoLock
    Releaser = Releaser
    MaxAcquires = 5
    MaxTimeouts = 0
INVARIANTS MutualExclusion NobodyStranded
PROPERTIES EventuallyHolds ImplementsExclusiveLock
CHECK_DEADLOCK FALSE
