\* The calls of two threads through one handle, deleted and made again.
SPECIFICATION Spec
CONSTANTS
  Thread = {t1, t2}
  Worker = {w1, w2}
  NoThread = none
  MaxJobs = 1
  MaxClients = 2
  MaxXid = 3
  MaxConns = 2
  MaxFaults = 1
SYMMETRY MCSymmetry
INVARIANTS AtMostOnce SuccessMeansRun AcknowledgesAllClosed ConnectionsCounted HandleInUse
CHECK_DEADLOCK FALSE
