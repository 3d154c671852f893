SPECIFICATION FairSpec
CONSTANTS
  Node = {1, 2, 3}
  First = 1
  Value = {}
  NoValue <- MCNoView
  FirstValue <- MCFirstView
  GarbageN = {0, 1}
  MaxN = 2
  MaxInstance = 3
  Starts <- MCStarts
  MaxFaults = 1
INVARIANTS
  ViewIsLogged
  
  
 
CHECK_DEADLOCK FALSE
