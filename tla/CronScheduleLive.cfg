SPECIFICATION FairSpec
CONSTANTS
  p1 = p1
  p2 = p2
  h1 = h1
  f1 = f1
  Proc = {p1}
  Hub = {h1}
  File = {f1}
  FileKind <- OneOffFile
  Slots = {2, 3}
  NoSpec = NoSpec
  MaxTime = 2
  MaxRevision = 2
  MaxManual = 1
  MaxRow = 7
  MaxFaults = 1
CHECK_DEADLOCK FALSE
INVARIANTS
  OneOffRunsOnce
  QueuedOneOffsAreCurrent
PROPERTIES
  LedgerSpec
  SchedulesAdvance
  OneOffsAreQueued
