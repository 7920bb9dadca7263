CONSTANTS
  r1 = r1  r2 = r2  r3 = r3
  Req <- MCReq
  Rpm = 2
  Window = 2
  Stale = 2
  Quota = 2
  Fault <- MCFault
  Scenario <- Safety
SPECIFICATION LiveSpec
INVARIANTS PinsBalanced OneRowPerStream RateRespected
PROPERTIES NoUnloadInUse EverythingGivenBack
CHECK_DEADLOCK FALSE
