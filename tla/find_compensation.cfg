SPECIFICATION Spec
CONSTANTS
  None = None
  Estimate = 1
  Budget = 2
  Scenario <- Raised
INVARIANTS
  FailureIsCompensated
