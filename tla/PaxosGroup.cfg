SPECIFICATION Spec
CONSTANTS
  Node = {1, 2, 3}
  First = 1
  v1 = v1
  v2 = v2
  Value = {v1, v2}
  NoValue = NoValue
  FirstValue = FirstValue
  GarbageN = {0, 1}
  MaxN = 2
  MaxInstance = 3
  MaxFaults = 1
  Group <- MCGroup
  Wants <- MCWants
INVARIANTS AgreementUnlessTie DurableState MajorityAgreed
PROPERTY Irrevocable
CHECK_DEADLOCK FALSE
