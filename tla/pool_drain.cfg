SPECIFICATION MCSpec
CONSTANTS
  big = big
  small = small
  tiny = tiny
  Cases <- UnloadCases
  Model = {big, small, tiny}
  Instance = {i1, i2, i3}
  Request = {r1, r2}
  Preload = {r2}
  Admin = {}
  AdminOp <- Plain
  Unloader = {u1}
  ForceAll = {FALSE, TRUE}
  Provisional = {}
  Ports = 2
  VramGb <- MCVramGb
  Budget = 2
  QueueEnabled = FALSE
  MaxWaiters = 1
  None = None
SYMMETRY Symmetry
VIEW View
PROPERTIES
  DrainOnlyShrinks
