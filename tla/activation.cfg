SPECIFICATION LiveSpec
CONSTANTS
  None = None
  Estimate = 1
  Budget = 2
  Scenario <- Troubled
INVARIANTS
  PhaseGoverns
PROPERTIES
  EnabledOnProof
  DoneMeansServed
  BorrowedTimeEnds
  EveryRunEnds
