SPECIFICATION MCFairSpec
CONSTANTS
  big = big
  small = small
  tiny = tiny
  Cases <- UnloadLiveCases
  Model = {small}
  Instance = {i1, i2}
  Request = {r1}
  Preload = {}
  Admin = {a1}
  AdminOp <- AnyAdminOp
  Unloader = {u1}
  ForceAll = {FALSE, TRUE}
  Provisional = {}
  Ports = 1
  VramGb <- MCVramGb
  Budget = 2
  QueueEnabled = TRUE
  MaxWaiters = 1
  None = None
VIEW View
PROPERTIES
  EveryUnloadAnswered
