CONSTANTS
  n1 = n1  n2 = n2  m1 = m1  m2 = m2  r1 = r1  r2 = r2  o1 = o1  o2 = o2  o3 = o3
  None = None
  Node = {n1, n2}
  Model = {m1, m2}
  Req = {r1, r2}
  Op <- MCOp
  Fault <- MCFault
  Scenario <- Live
  Places = 1
  Threshold = 2
SPECIFICATION LiveSpec
PROPERTIES EveryRequestAnswered EveryServerCounted
CHECK_DEADLOCK FALSE
