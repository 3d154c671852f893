SPECIFICATION Spec
CONSTANTS
    Client = {c1, c2}
    Thread = {t1}
    Lock = {l1}
    NoClient = NoClient
    NoLock = NoLock
    Releaser = Releaser
    MaxAcquires = 4
    MaxTimeouts = 0
INVARIANT NobodyStranded
CHECK_DEADLOCK FALSE
