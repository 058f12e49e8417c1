SPECIFICATION FairSpec
CONSTANTS
  r1 = r1
  r2 = r2
  r3 = r3
  s1 = s1
  NoRun = NoRun
  Run = {r1, r2, r3}
  Session = {s1}
  SessionOf <- OneSession
  Timed = {r1}
  Behind = {r3}
  Wedged = {s1}
  MaxPending = 2
  MaxFaults = 1
CHECK_DEADLOCK FALSE
INVARIANTS
  HubInv
  FatalErrorsShow
PROPERTIES
  FifoSpec
  TurnsBeginOnce
  EveryRunSettles
  ShutdownEnds
