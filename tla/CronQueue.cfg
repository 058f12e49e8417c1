SPECIFICATION FairSpec
CONSTANTS
  p1 = p1
  p2 = p2
  sA = sA
  sB = sB
  Runner = {p1, p2}
  Nobody = Nobody
  Run <- OneRun
  SpecId = {sA}
  SpecOf <- OneSpecOf
  MaxParallel <- OneParallel
  Timed = {sA}
  Capacity = 2
  ClaimLimit = 25
  Lease = 2
  MaxWait = 1
  MaxAttempts = 2
  MaxFaults = 1
CHECK_DEADLOCK FALSE
INVARIANTS
  QueueInv
  NoLeakedSession
  StopLeavesNoClaim
PROPERTIES
  ClaimsAreExclusive
  LedgerSpec
  EveryRunEnds
  StopResolves
  SessionsAreReleased
