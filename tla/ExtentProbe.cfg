SPECIFICATION Spec
CONSTANTS
    Eid = {e1}
    Data = {d1, d2}
    NoData = NoData
    Client = {c1, c2}
    NoClient = NoClient
    Probing = TRUE
    Reusing = FALSE
    MaxFailures = 0
SYMMETRY Symmetry
INVARIANTS Coherence
