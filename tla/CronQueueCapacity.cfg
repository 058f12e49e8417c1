SPECIFICATION Spec
CONSTANTS
  p1 = p1
  p2 = p2
  sA = sA
  sB = sB
  Runner = {p1}
  Nobody = Nobody
  Run <- FourRuns
  SpecId = {sA, sB}
  SpecOf <- TwoSpecOf
  MaxParallel <- Parallel
  Timed = {}
  Capacity = 2
  ClaimLimit = 2
  Lease = 1
  MaxWait = 0
  MaxAttempts = 1
  MaxFaults = 0
CHECK_DEADLOCK FALSE
PROPERTIES
  ClaimsRespectLimits
  NoEligibleRunLeftBehind
