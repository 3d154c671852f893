SPECIFICATION Spec
CONSTANTS
    Eid = {e1}
    Data = {d1, d2}
    NoData = NoData
    Client = {c1, c2}
    NoClient = NoClient
    Probing = TRUE
    Reusing = TRUE
    MaxFailures = 2
SYMMETRY Symmetry
INVARIANTS CacheShape RemovedOnce
