SPECIFICATION MCSpec
CONSTANTS
  big = big
  small = small
  tiny = tiny
  Cases <- SafetyCases
  Model = {big, small}
  Instance = {i1, i2, i3}
  Request = {r1, r2, r3}
  Preload = {}
  Admin = {a1}
  AdminOp <- AnyAdminOp
  Unloader = {}
  ForceAll = {}
  Provisional = {}
  Ports = 2
  VramGb <- MCVramGb
  Budget = 2
  QueueEnabled = TRUE
  MaxWaiters = 1
  None = None
SYMMETRY Symmetry
VIEW View
INVARIANTS
  TypeOK
  PoolConsistent
  OneServerPerPort
  BudgetRespected
  NoLostWakeup
  TicketsAreLive
  LoadingHasOwner
  DisabledNotServing
PROPERTIES
  PinnedNeverUnloadedSilently
