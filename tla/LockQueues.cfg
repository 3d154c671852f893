SPECIFICATION Spec
CONSTANTS
    Client = {c1, c2}
    Thread = {t1, t2}
    Lock = {l1}
    NoClient = NoClient
    NoLock = NoLock
    Releaser = Releaser
    MaxAcquires = 3
    MaxTimeouts = 1
SYMMETRY Symmetry
INVARIANTS TypeOK QueuedWhileAcquiring FirstThreadTalks NoLostWakeup IteratorsValid RevokedIffQueued
PROPERTY NoOvertaking
CHECK_DEADLOCK FALSE
