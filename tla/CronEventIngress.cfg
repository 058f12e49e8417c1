SPECIFICATION Spec
CONSTANTS
  p1 = p1
  p2 = p2
  e1 = e1
  e2 = e2
  e3 = e3
  kA = kA
  kB = kB
  s1 = s1
  Process = {p1, p2}
  Event = {e1, e2, e3}
  NoEvent = NoEvent
  KeyOf <- Keys
  SpecId = {s1}
  Matching <- AllMatch
  Debounce <- Debounces
  Window <- Windows
  Cooldown <- Cooldowns
  MaxTime = 3
CHECK_DEADLOCK FALSE
SYMMETRY Symmetry
INVARIANTS
  CoverageInv
  DebounceInv
  WindowInv
PROPERTIES
  LedgerSpec
