SPECIFICATION Spec
CONSTANTS
    Eid = {e1, e2}
    Data = {d1, d2}
    NoData = NoData
    Client = {c1, c2, c3}
    NoClient = NoClient
    Probing = FALSE
    Reusing = FALSE
    MaxFailures = 0
SYMMETRY Symmetry
INVARIANTS TypeOK CachedUnderLock AttrDescribesData Coherence
