SPECIFICATION VerifySpec
CONSTANTS
  NTests = 2
  MaxFailures = 1
  MaxDropped = 1
INVARIANTS
  RegressionsPassedBefore
CHECK_DEADLOCK FALSE
