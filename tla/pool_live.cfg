SPECIFICATION MCFairSpec
CONSTANTS
  big = big
  small = small
  tiny = tiny
  Cases <- LiveCases
  Model = {big, small}
  Instance = {i1, i2}
  Request = {r1, r2}
  Preload = {}
  Admin = {}
  AdminOp <- Plain
  Unloader = {}
  ForceAll = {}
  Provisional = {small}
  Ports = 1
  VramGb <- MCVramGb
  Budget = 2
  QueueEnabled = TRUE
  MaxWaiters = 1
  None = None
VIEW View
PROPERTIES
  EveryRequestAnswered
  OrphanReaped
