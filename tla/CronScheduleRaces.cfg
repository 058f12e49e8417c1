SPECIFICATION Spec
CONSTANTS
  p1 = p1
  p2 = p2
  h1 = h1
  f1 = f1
  Proc = {p1, p2}
  Hub = {h1}
  File = {f1}
  FileKind <- ScheduleFile
  Slots = {2, 3}
  NoSpec = NoSpec
  MaxTime = 2
  MaxRevision = 2
  MaxManual = 0
  MaxRow = 7
  MaxFaults = 0
CHECK_DEADLOCK FALSE
INVARIANTS
  RowsInv
  SlotsRunOnce
SYMMETRY Symmetry
