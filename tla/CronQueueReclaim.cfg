SPECIFICATION Spec
CONSTANTS
  p1 = p1
  p2 = p2
  sA = sA
  sB = sB
  Runner = {p1, p2}
  Nobody = Nobody
  Run <- OneRun
  SpecId = {sA}
  SpecOf <- OneSpecOf
  MaxParallel <- OneParallel
  Timed = {}
  Capacity = 2
  ClaimLimit = 25
  Lease = 1
  MaxWait = 0
  MaxAttempts = 4
  MaxFaults = 3
CHECK_DEADLOCK FALSE
PROPERTY NoSelfReclaim
