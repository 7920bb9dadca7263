SPECIFICATION SMSpec
CONSTANTS
  Instance = {i1, i2}
INVARIANTS
  ProcessOwned
  LoadTaskMatchesState
PROPERTIES
  TransitionsTerminate

CHECK_DEADLOCK TRUE
